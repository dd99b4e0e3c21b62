-------------------------- MODULE ProcessMemory_proofs --------------------------
(***************************************************************************)
(* Splitting and merging the areas of an address space, seen page by page; *)
(* that every operation on the memory of a process leaves areas that tile  *)
(* its address space; and that the books of memory, of the limit and of    *)
(* thread-local storage balance.                                           *)
(***************************************************************************)
EXTENDS ProcessMemory, SequenceTheorems, FiniteSetTheorems, WellFoundedInduction, TLAPS

(***************************************************************************)
(* An address space as what it says of each page, and where areas begin.   *)
(***************************************************************************)
Pages == 0..(MAX_ADDRESS - 1)
Frames == APPLICATION_PAGES + BASE_PAGES
Perms == {"None", "Read", "ReadWrite", "ReadExecute"}
Used == {"Code", "Private", "Shared", "Continuous", "Aliased", "Alias", "Locked"}

Holds(a, v) == a.base <= v /\ v < a.base + a.size
PageOf(a, v) == [backing |-> BackingOf(a, v), perms |-> a.perms, state |-> a.state]
Page(as, v) == PageOf(FindVMA(as, v), v)
FreePage(as, v) == Page(as, v).backing = Unbacked
Bounds(as) == {a.base : a \in as}

AreaAt(a, as, page) == a = FindVMA(as, page)

(* An area fits into the address space and into FCRAM; it is free in all   *)
(* respects or in none.                                                    *)
Sound(a) ==
    /\ a.base + a.size <= MAX_ADDRESS
    /\ IsFree(a) => a.perms = "None" /\ a.state = "Free"
    /\ ~IsFree(a) => a.state # "Free" /\ a.backing + a.size <= Frames

Tiled(as) ==
    /\ as \subseteq Area
    /\ \A a \in as : Sound(a)
    /\ \A v \in Pages : \E a \in as : Holds(a, v)
    /\ \A a, b \in as : a.base <= b.base /\ b.base < a.base + a.size => a = b

(* No area begins between two free pages.                                  *)
FreeMerged(as) ==
    \A v \in Bounds(as) : v # 0 => ~(FreePage(as, v - 1) /\ FreePage(as, v))

LEMMA Numbers ==
    /\ MAX_ADDRESS \in Nat /\ MAX_ADDRESS > 0 /\ Frames \in Nat
    /\ FCRAM = 0..(Frames - 1) /\ Unbacked = -1
BY MaxAddressAssumption, BoundsAssumption DEF Frames, FCRAM, APPLICATION, BASE, Unbacked

LEMMA AreaFields ==
    ASSUME NEW a \in Area
    PROVE  /\ a.base \in Nat /\ a.base < MAX_ADDRESS
           /\ a.size \in Nat /\ 1 <= a.size /\ a.size <= MAX_ADDRESS
           /\ a.backing \in Int /\ a.perms \in Perms /\ a.state \in Used \cup {"Free"}
           /\ a.backing = Unbacked \/ (a.backing \in Nat /\ a.backing < Frames)
           /\ IsFree(a) <=> a.backing = Unbacked
BY Numbers DEF Area, Perms, Used, IsFree

LEMMA MakeArea ==
    ASSUME NEW base \in Nat, base < MAX_ADDRESS, NEW size \in Nat, 1 <= size, size <= MAX_ADDRESS,
           NEW backing \in Int, backing = Unbacked \/ (0 <= backing /\ backing < Frames),
           NEW perms \in Perms, NEW state \in Used \cup {"Free"}
    PROVE  [base |-> base, size |-> size, backing |-> backing, perms |-> perms,
            state |-> state] \in Area
BY Numbers DEF Area, Perms, Used

(* Areas are equal if their fields are.                                    *)
LEMMA SameArea ==
    ASSUME NEW a \in Area, NEW b \in Area, a.base = b.base, a.size = b.size,
           a.backing = b.backing, a.perms = b.perms, a.state = b.state
    PROVE  a = b
BY DEF Area

(* Areas with some of their fields changed.                                *)
LEMMA Shortened ==
    ASSUME NEW a \in Area, NEW n, NEW x, x = [a EXCEPT !.size = n]
    PROVE  x = [base |-> a.base, size |-> n, backing |-> a.backing, perms |-> a.perms,
                state |-> a.state]
BY DEF Area

LEMMA SameSize ==
    ASSUME NEW a \in Area, NEW x, x = [a EXCEPT !.size = @ + 0]
    PROVE  x = a
<1>1. a.size + 0 = a.size
  BY AreaFields
<1>2. x = [base |-> a.base, size |-> a.size, backing |-> a.backing, perms |-> a.perms,
           state |-> a.state]
  BY <1>1 DEF Area
<1> QED
  BY <1>2 DEF Area

Join(a, b) == [a EXCEPT !.size = @ + b.size]
Joined(as, a, b) == (as \ {a, b}) \cup {Join(a, b)}

LEMMA Widened ==
    ASSUME NEW a \in Area, NEW b
    PROVE  Join(a, b) = [base |-> a.base, size |-> a.size + b.size, backing |-> a.backing,
                         perms |-> a.perms, state |-> a.state]
BY DEF Area, Join

LEMMA Shifted ==
    ASSUME NEW a \in Area, NEW n, NEW b, NEW f, NEW x,
           x = [a EXCEPT !.base = b, !.size = @ - n, !.backing = f]
    PROVE  x = [base |-> b, size |-> a.size - n, backing |-> f, perms |-> a.perms,
                state |-> a.state]
BY DEF Area

Turned(a, f, perms, state) == [a EXCEPT !.backing = f, !.perms = perms, !.state = state]

LEMMA Recast ==
    ASSUME NEW a \in Area, NEW f, NEW perms, NEW state, NEW x, x = Turned(a, f, perms, state)
    PROVE  x = [base |-> a.base, size |-> a.size, backing |-> f, perms |-> perms, state |-> state]
BY DEF Area, Turned

LEMMA TiledAreas ==
    ASSUME NEW as, Tiled(as), NEW a \in as
    PROVE  a \in Area /\ Sound(a)
BY Zenon DEF Tiled

LEMMA TiledCover ==
    ASSUME NEW as, Tiled(as), NEW v \in Pages
    PROVE  \E a \in as : Holds(a, v)
BY Zenon DEF Tiled

LEMMA TiledOnce ==
    ASSUME NEW as, Tiled(as), NEW a \in as, NEW b \in as,
           a.base <= b.base, b.base < a.base + a.size
    PROVE  a = b
BY Zenon DEF Tiled

LEMMA HoldsSpan ==
    ASSUME NEW a \in Area, NEW v \in Int
    PROVE  Holds(a, v) <=> v \in Span(a.base, a.size)
BY AreaFields DEF Holds, Span

LEMMA OneHolds ==
    ASSUME NEW as, Tiled(as), NEW v \in Int, NEW a \in as, NEW b \in as, Holds(a, v), Holds(b, v)
    PROVE  a = b
<1>1. a \in Area /\ b \in Area
  BY TiledAreas
<1>5. b.base < a.base + a.size /\ a.base < b.base + b.size
  BY <1>1, AreaFields DEF Holds
<1>2. CASE a.base <= b.base
  BY <1>2, <1>5, TiledOnce
<1>3. CASE b.base <= a.base
  BY <1>3, <1>5, TiledOnce
<1>4. a.base \in Nat /\ b.base \in Nat
  BY <1>1, AreaFields
<1> QED
  BY <1>2, <1>3, <1>4

LEMMA PageNumber == \A v \in Pages : v \in Nat /\ v < MAX_ADDRESS
BY Numbers DEF Pages

LEMMA Found ==
    ASSUME NEW as, Tiled(as), NEW v \in Pages
    PROVE  /\ FindVMA(as, v) \in as /\ Holds(FindVMA(as, v), v)
           /\ \A a \in as : Holds(a, v) => a = FindVMA(as, v)
<1>1. v \in Int
  BY PageNumber
<1>2. \A a \in as : Holds(a, v) <=> v \in Span(a.base, a.size)
  BY <1>1, TiledAreas, HoldsSpan
<1>3. \E a \in as : v \in Span(a.base, a.size)
  BY <1>2, TiledCover
<1>4. FindVMA(as, v) \in as /\ v \in Span(FindVMA(as, v).base, FindVMA(as, v).size)
  BY <1>3, Zenon DEF FindVMA
<1> QED
  BY <1>1, <1>2, <1>4, OneHolds

LEMMA PageIs ==
    ASSUME NEW as, Tiled(as), NEW v \in Pages, NEW a \in as, Holds(a, v)
    PROVE  Page(as, v) = PageOf(a, v) /\ FreePage(as, v) = IsFree(a)
<1>1. FindVMA(as, v) = a
  BY Found
<1>0. a \in Area
  BY TiledAreas
<1>2. v \in Int
  BY PageNumber
<1>3. BackingOf(a, v) = Unbacked <=> IsFree(a)
  <2>1. a.base \in Nat /\ (IsFree(a) <=> a.backing = Unbacked)
        /\ (IsFree(a) \/ (a.backing \in Nat /\ ~IsFree(a)))
    BY <1>0, AreaFields
  <2>2. CASE IsFree(a)
    BY <2>2 DEF BackingOf
  <2>3. CASE ~IsFree(a) /\ a.backing \in Nat
    <3>1. BackingOf(a, v) = a.backing + (v - a.base)
      BY <2>3 DEF BackingOf
    <3>2. v - a.base \in Nat
      BY <1>2, <2>1 DEF Holds
    <3> QED
      BY <2>3, <3>1, <3>2, Numbers
  <2> QED
    BY <2>1, <2>2, <2>3
<1>4. PageOf(a, v).backing = BackingOf(a, v)
  BY DEF PageOf
<1>5. IsFree(a) \in BOOLEAN
  BY DEF IsFree
<1> QED
  BY <1>1, <1>3, <1>4, <1>5, Zenon DEF Page, FreePage

(* An area ends where another begins, or with the address space.           *)
LEMMA NextArea ==
    ASSUME NEW as, Tiled(as), NEW a \in as, a.base + a.size # MAX_ADDRESS
    PROVE  a.base + a.size \in Pages /\ a.base + a.size \in Bounds(as)
<1>1. a \in Area /\ Sound(a)
  BY TiledAreas
<1>2. a.base + a.size \in Pages
  BY <1>1, AreaFields, Numbers DEF Sound, Pages
<1>3. PICK b \in as : Holds(b, a.base + a.size)
  BY <1>2, TiledCover
<1>4. b \in Area
  BY TiledAreas
<1>5. ~(b.base <= a.base /\ a.base < b.base + b.size)
  <2>1. b # a
    BY <1>1, <1>3, AreaFields DEF Holds
  <2> QED
    BY <2>1, TiledOnce
<1>6. ~(a.base <= b.base /\ b.base < a.base + a.size)
  <2>1. b # a
    BY <1>1, <1>3, AreaFields DEF Holds
  <2> QED
    BY <2>1, TiledOnce
<1>7. b.base = a.base + a.size
  BY <1>1, <1>3, <1>4, <1>5, <1>6, AreaFields DEF Holds
<1> QED
  BY <1>2, <1>7 DEF Bounds

(* No area begins inside another one.                                      *)
LEMMA NoBoundInside ==
    ASSUME NEW as, Tiled(as), NEW a \in as, NEW v \in Bounds(as), a.base <= v, v < a.base + a.size
    PROVE  v = a.base
BY TiledOnce DEF Bounds

(* Areas that are put in place of others, and hold the same pages.         *)
LEMMA Replaced ==
    ASSUME NEW as, Tiled(as), NEW old \in SUBSET as, NEW new \in SUBSET Area,
           \A b \in new : Sound(b),
           \A v \in Int : (\E a \in old : Holds(a, v)) <=> \E b \in new : Holds(b, v),
           \A v \in Int : \A b, c \in new : Holds(b, v) /\ Holds(c, v) => b = c
    PROVE  /\ Tiled((as \ old) \cup new)
           /\ \A v \in Pages : (\A a \in old : ~Holds(a, v)) =>
                 Page((as \ old) \cup new, v) = Page(as, v)
<1> DEFINE r == (as \ old) \cup new
<1>1. \A a \in r : a \in Area /\ Sound(a)
  BY TiledAreas
<1>2. ASSUME NEW v \in Pages
      PROVE  \E a \in r : Holds(a, v)
  <2>1. PICK a \in as : Holds(a, v)
    BY TiledCover
  <2>2. CASE a \in old
    <3>1. v \in Int
      BY PageNumber
    <3> QED
      BY <2>1, <2>2, <3>1
  <2>3. CASE a \notin old
    BY <2>1, <2>3
  <2> QED
    BY <2>2, <2>3
<1>3. ASSUME NEW v \in Int, NEW a \in r, NEW b \in r, Holds(a, v), Holds(b, v)
      PROVE  a = b
  <2>1. CASE a \in new /\ b \in new
    BY <1>3, <2>1
  <2>2. CASE a \notin new /\ b \notin new
    BY <1>3, <2>2, OneHolds
  <2>3. ASSUME NEW x \in as \ old, NEW y \in new, Holds(x, v), Holds(y, v)
        PROVE  FALSE
    <3>1. PICK z \in old : Holds(z, v)
      BY <2>3
    <3>2. x = z
      BY <2>3, <3>1, OneHolds
    <3> QED
      BY <3>2
  <2> QED
    BY <1>3, <2>1, <2>2, <2>3
<1>4. ASSUME NEW a \in r, NEW b \in r, a.base <= b.base, b.base < a.base + a.size
      PROVE  a = b
  <2>1. b \in Area
    BY <1>1
  <2>2. b.base \in Int /\ Holds(b, b.base)
    BY <2>1, AreaFields DEF Holds
  <2>3. Holds(a, b.base)
    BY <1>4 DEF Holds
  <2> QED
    BY <1>3, <2>2, <2>3
<1> HIDE DEF r
<1>5. Tiled(r)
  <2>1. r \subseteq Area
    BY <1>1
  <2> QED
    BY <1>1, <1>2, <1>4, <2>1, Zenon DEF Tiled
<1>6. ASSUME NEW v \in Pages, \A a \in old : ~Holds(a, v)
      PROVE  Page(r, v) = Page(as, v)
  <2>1. PICK a \in as : Holds(a, v)
    BY TiledCover
  <2>2. a \in r
    BY <1>6, <2>1 DEF r
  <2>3. Page(r, v) = PageOf(a, v)
    BY <1>5, <2>1, <2>2, PageIs
  <2>4. Page(as, v) = PageOf(a, v)
    BY <2>1, PageIs
  <2> QED
    BY <2>3, <2>4
<1> QED
  BY <1>5, <1>6 DEF r

LEMMA BackingInside ==
    ASSUME NEW a \in Area, Sound(a), NEW v \in Int, Holds(a, v)
    PROVE  /\ BackingOf(a, v) \in Int
           /\ BackingOf(a, v) = Unbacked <=> IsFree(a)
           /\ ~IsFree(a) => /\ BackingOf(a, v) = a.backing + (v - a.base)
                            /\ 0 <= BackingOf(a, v) /\ BackingOf(a, v) < Frames
<1>1. a.base \in Nat /\ a.size \in Nat /\ (IsFree(a) <=> a.backing = Unbacked)
      /\ (IsFree(a) \/ (a.backing \in Nat /\ ~IsFree(a)))
  BY AreaFields
<1>2. CASE IsFree(a)
  BY <1>2, Numbers DEF BackingOf
<1>3. CASE ~IsFree(a) /\ a.backing \in Nat
  <2>1. BackingOf(a, v) = a.backing + (v - a.base)
    BY <1>3 DEF BackingOf
  <2>2. v - a.base \in Nat /\ v - a.base < a.size /\ a.backing + a.size <= Frames
    BY <1>1, <1>3 DEF Holds, Sound
  <2> QED
    BY <1>1, <1>3, <2>1, <2>2, Numbers
<1> QED
  BY <1>1, <1>2, <1>3

(* SplitVMA: areas begin at the page as well, nothing else changes.        *)
LEMMA SplitPages ==
    ASSUME NEW as, Tiled(as), NEW page \in 0..MAX_ADDRESS
    PROVE  /\ Tiled(SplitVMA(as, page))
           /\ \A v \in Pages : Page(SplitVMA(as, page), v) = Page(as, v)
           /\ Bounds(SplitVMA(as, page)) =
                 IF page = MAX_ADDRESS THEN Bounds(as) ELSE Bounds(as) \cup {page}
<1>1. CASE page = MAX_ADDRESS \/ \E a \in as : a.base = page
  <2>1. SplitVMA(as, page) = as
    BY <1>1, Zenon DEF SplitVMA
  <2>2. page = MAX_ADDRESS \/ page \in Bounds(as)
    BY <1>1 DEF Bounds
  <2> QED
    BY <2>1, <2>2
<1>2. CASE page # MAX_ADDRESS /\ ~\E a \in as : a.base = page
  <2> DEFINE a == FindVMA(as, page)
             left == page - a.base
             x == [a EXCEPT !.size = left]
             y == [a EXCEPT !.base = page, !.size = @ - left, !.backing = BackingOf(a, page)]
  <2>1. page \in Pages /\ page \in Int
    BY <1>2, Numbers DEF Pages
  <2>2. a \in as /\ Holds(a, page)
    BY <2>1, Found
  <2>3. SplitVMA(as, page) = (as \ {a}) \cup {x, y}
    BY <1>2, Zenon DEF SplitVMA
  <2> HIDE DEF a
  <2>4. a \in Area /\ Sound(a)
    BY <2>2, TiledAreas
  <2>5. /\ a.base \in Nat /\ a.size \in Nat /\ a.base < page /\ page < a.base + a.size
        /\ a.base + a.size <= MAX_ADDRESS /\ a.backing \in Int /\ page \in Nat
        /\ a.perms \in Perms /\ a.state \in Used \cup {"Free"}
        /\ (a.backing = Unbacked \/ (0 <= a.backing /\ a.backing < Frames))
        /\ (IsFree(a) <=> a.backing = Unbacked)
    <3>1. a.base # page
      BY <1>2, <2>2
    <3> QED
      BY <2>1, <2>2, <2>4, <3>1, AreaFields, PageNumber DEF Holds, Sound
  <2>6. /\ x = [base |-> a.base, size |-> left, backing |-> a.backing, perms |-> a.perms,
                state |-> a.state]
        /\ y = [base |-> page, size |-> a.size - left, backing |-> BackingOf(a, page),
                perms |-> a.perms, state |-> a.state]
    <3>1. /\ x = [a EXCEPT !.size = left]
          /\ y = [a EXCEPT !.base = page, !.size = @ - left, !.backing = BackingOf(a, page)]
      OBVIOUS
    <3> HIDE DEF x, y, left
    <3>2. x = [base |-> a.base, size |-> left, backing |-> a.backing, perms |-> a.perms,
               state |-> a.state]
      BY <2>4, <3>1, Shortened
    <3>3. y = [base |-> page, size |-> a.size - left, backing |-> BackingOf(a, page),
               perms |-> a.perms, state |-> a.state]
      BY <2>4, <3>1, Shifted
    <3> QED
      BY <3>2, <3>3
  <2>7. /\ x.base = a.base /\ x.size = left /\ x.backing = a.backing /\ x.perms = a.perms
        /\ x.state = a.state
        /\ y.base = page /\ y.size = a.size - left /\ y.backing = BackingOf(a, page)
        /\ y.perms = a.perms /\ y.state = a.state
    BY <2>6
  <2>8. /\ BackingOf(a, page) \in Int
        /\ (BackingOf(a, page) = Unbacked <=> IsFree(a))
        /\ ~IsFree(a) => /\ BackingOf(a, page) = a.backing + (page - a.base)
                         /\ 0 <= BackingOf(a, page) /\ BackingOf(a, page) < Frames
    BY <2>1, <2>2, <2>4, BackingInside
  <2>9. left \in Nat /\ 1 <= left /\ left < a.size /\ a.size <= MAX_ADDRESS
    BY <2>5, <2>4, AreaFields
  <2>10. x \in Area
    <3>1. a.base < MAX_ADDRESS /\ left <= MAX_ADDRESS
      BY <2>5, <2>9, Numbers
    <3> HIDE DEF left
    <3> QED
      BY <2>5, <2>6, <2>9, <3>1, MakeArea
  <2>11. y \in Area
    <3>1. page < MAX_ADDRESS /\ a.size - left \in Nat /\ 1 <= a.size - left
          /\ a.size - left <= MAX_ADDRESS
      BY <2>5, <2>9, Numbers
    <3>2. BackingOf(a, page) = Unbacked \/ (0 <= BackingOf(a, page) /\ BackingOf(a, page) < Frames)
      BY <2>8
    <3> DEFINE m == a.size - left
    <3>3. m \in Nat /\ 1 <= m /\ m <= MAX_ADDRESS
      BY <3>1
    <3>4. y = [base |-> page, size |-> m, backing |-> BackingOf(a, page),
                perms |-> a.perms, state |-> a.state]
      BY <2>6
    <3> HIDE DEF m, left, y
    <3> QED
      BY <2>5, <2>8, <3>1, <3>2, <3>3, <3>4, MakeArea
  <2> HIDE DEF x, y
  <2>12. (IsFree(x) <=> IsFree(a)) /\ (IsFree(y) <=> IsFree(a))
    BY <2>7, <2>8 DEF IsFree
  <2>13. Sound(x)
    <3>1. CASE IsFree(a)
      BY <2>4, <2>5, <2>7, <2>9, <2>12, <3>1 DEF Sound
    <3>2. CASE ~IsFree(a)
      <4>1. ~IsFree(x) /\ a.state # "Free" /\ a.backing + a.size <= Frames
        BY <2>4, <2>12, <3>2 DEF Sound
      <4>2. x.base + x.size <= MAX_ADDRESS
        BY <2>5, <2>7, <2>9, Numbers
      <4>3. a.backing + left <= Frames
        <5> HIDE DEF left, a
        <5> QED
          BY <2>5, <2>9, <4>1, Numbers
      <4>4. x.backing + x.size <= Frames
        <5> HIDE DEF left, a
        <5> QED
          BY <2>7, <4>3, Zenon
      <4>5. x.state # "Free"
        BY <2>7, <4>1, Zenon
      <4> QED
        BY <4>1, <4>2, <4>4, <4>5, Zenon DEF Sound
    <3> QED
      BY <3>1, <3>2
  <2>14. Sound(y)
    <3>1. CASE IsFree(a)
      BY <2>4, <2>5, <2>7, <2>9, <2>12, <3>1 DEF Sound
    <3>2. CASE ~IsFree(a)
      <4>1. ~IsFree(y) /\ a.state # "Free" /\ a.backing + a.size <= Frames
        BY <2>4, <2>12, <3>2 DEF Sound
      <4>2. y.base + y.size <= MAX_ADDRESS
        BY <2>5, <2>7, <2>9, Numbers
      <4>3. y.backing = a.backing + (page - a.base)
        BY <2>7, <2>8, <3>2
      <4>4. y.state # "Free" /\ y.backing + y.size <= Frames
        BY <2>5, <2>7, <4>1, <4>3, Numbers
      <4> QED
        BY <4>1, <4>2, <4>4, Zenon DEF Sound
    <3> QED
      BY <3>1, <3>2
  <2>15. \A v \in Int : /\ Holds(x, v) <=> a.base <= v /\ v < page
                        /\ Holds(y, v) <=> page <= v /\ v < a.base + a.size
                        /\ Holds(a, v) <=> a.base <= v /\ v < a.base + a.size
    BY <2>5, <2>7 DEF Holds
  <2> DEFINE old == {a}
             new == {x, y}
  <2>16. \A v \in Int : (\E c \in old : Holds(c, v)) <=> \E b \in new : Holds(b, v)
    BY <2>5, <2>15
  <2>17. \A v \in Int : \A b, c \in new : Holds(b, v) /\ Holds(c, v) => b = c
    BY <2>5, <2>15
  <2>18. Tiled(SplitVMA(as, page)) /\ x \in SplitVMA(as, page) /\ y \in SplitVMA(as, page)
         /\ \A v \in Pages : ~Holds(a, v) => Page(SplitVMA(as, page), v) = Page(as, v)
    <3>1. old \in SUBSET as /\ new \in SUBSET Area /\ \A b \in new : Sound(b)
      BY <2>2, <2>10, <2>11, <2>13, <2>14
    <3>2. a \in old /\ (\A v : ~Holds(a, v) => \A c \in old : ~Holds(c, v))
          /\ x \in new /\ y \in new /\ SplitVMA(as, page) = (as \ old) \cup new
      BY <2>3
    <3> HIDE DEF old, new
    <3>3. Tiled((as \ old) \cup new)
          /\ \A v \in Pages : (\A c \in old : ~Holds(c, v)) =>
                Page((as \ old) \cup new, v) = Page(as, v)
      BY <2>16, <2>17, <3>1, Replaced
    <3> QED
      BY <3>2, <3>3
  <2>19. ASSUME NEW v \in Pages, Holds(a, v)
         PROVE  Page(SplitVMA(as, page), v) = Page(as, v)
    <3>1. v \in Int
      BY PageNumber
    <3>2. Page(as, v) = PageOf(a, v)
      BY <2>2, <2>19, PageIs
    <3>3. CASE Holds(x, v)
      <4>1. Page(SplitVMA(as, page), v) = PageOf(x, v)
        BY <2>18, <3>3, PageIs
      <4>2. BackingOf(x, v) = BackingOf(a, v)
        BY <2>7, <2>12 DEF BackingOf
      <4> QED
        BY <2>7, <3>2, <4>1, <4>2 DEF PageOf
    <3>4. CASE Holds(y, v)
      <4>1. Page(SplitVMA(as, page), v) = PageOf(y, v)
        BY <2>18, <3>4, PageIs
      <4>2. BackingOf(y, v) = BackingOf(a, v)
        <5>1. CASE IsFree(a)
          BY <2>12, <5>1 DEF BackingOf
        <5>2. CASE ~IsFree(a)
          <6>1. BackingOf(y, v) = y.backing + (v - y.base)
                /\ BackingOf(a, v) = a.backing + (v - a.base)
            BY <2>12, <5>2 DEF BackingOf
          <6> QED
            BY <2>5, <2>7, <2>8, <3>1, <5>2, <6>1
        <5> QED
          BY <5>1, <5>2
      <4> QED
        BY <2>7, <3>2, <4>1, <4>2 DEF PageOf
    <3> QED
      <4>1. Holds(x, v) \/ Holds(y, v)
        BY <2>5, <2>15, <2>19, <3>1
      <4> QED
        BY <3>3, <3>4, <4>1
  <2>20. Bounds(SplitVMA(as, page)) = Bounds(as) \cup {page}
    BY <2>2, <2>3, <2>7 DEF Bounds
  <2> QED
    BY <1>2, <2>18, <2>19, <2>20
<1> QED
  BY <1>1, <1>2

(* r is as with the neighbours a and b made one; the pages stay as they are. *)
OneForTwo(r, as, a, b) ==
    /\ Tiled(r) /\ Join(a, b) \in r
    /\ Join(a, b).base = a.base /\ Join(a, b).size = a.size + b.size
    /\ Join(a, b).perms = a.perms /\ Join(a, b).state = a.state
    /\ Join(a, b).backing = a.backing
    /\ \A v \in Pages : Page(r, v) = Page(as, v)
    /\ \A v : v \in Bounds(r) <=> v \in Bounds(as) /\ v # b.base

(* Two areas that fit become one: the second no longer begins there,       *)
(* nothing else changes.                                                   *)
LEMMA JoinPages ==
    ASSUME NEW as, Tiled(as), NEW a \in as, NEW b \in as, CanBeMergedWith(a, b),
           NEW r, r = Joined(as, a, b)
    PROVE  OneForTwo(r, as, a, b)
<1> DEFINE w == Join(a, b)
<1>0. r = (as \ {a, b}) \cup {w}
  BY DEF Joined
<1>1. a \in Area /\ b \in Area /\ Sound(a) /\ Sound(b)
  BY TiledAreas
<1>2. /\ a.base \in Nat /\ a.size \in Nat /\ b.size \in Nat /\ 1 <= a.size /\ 1 <= b.size
      /\ a.backing \in Int /\ b.backing \in Int
      /\ a.perms \in Perms /\ a.state \in Used \cup {"Free"}
      /\ (a.backing = Unbacked \/ (0 <= a.backing /\ a.backing < Frames))
      /\ a.base < MAX_ADDRESS
  BY <1>1, AreaFields
<1>3. b.base + b.size <= MAX_ADDRESS
  BY <1>1 DEF Sound
<1>4. /\ b.base = a.base + a.size /\ b.perms = a.perms /\ b.state = a.state
      /\ (IsFree(b) <=> IsFree(a)) /\ (IsFree(a) \/ b.backing = a.backing + a.size)
  BY DEF CanBeMergedWith, IsFree
<1> DEFINE n == a.size + b.size
<1>5. w = [base |-> a.base, size |-> n, backing |-> a.backing, perms |-> a.perms,
           state |-> a.state]
  BY <1>1, Widened
<1> HIDE DEF w
<1>6. n \in Nat /\ 1 <= n /\ n <= MAX_ADDRESS
  BY <1>2, <1>3, <1>4, Numbers
<1>7. w.base = a.base /\ w.size = n /\ w.perms = a.perms /\ w.state = a.state
      /\ w.backing = a.backing
  BY <1>5
<1>8. w \in Area
  <2> HIDE DEF n
  <2>1. [base |-> a.base, size |-> n, backing |-> a.backing, perms |-> a.perms,
         state |-> a.state] \in Area
    BY <1>2, <1>6, MakeArea
  <2> QED
    BY <1>5, <2>1
<1>9. IsFree(w) <=> IsFree(a)
  BY <1>7 DEF IsFree
<1>10. Sound(w)
  <2>1. CASE IsFree(a)
    BY <1>1, <1>2, <1>3, <1>4, <1>7, <1>9, <2>1 DEF Sound
  <2>2. CASE ~IsFree(a)
    <3>1. ~IsFree(w) /\ ~IsFree(b) /\ b.state # "Free" /\ b.backing + b.size <= Frames
      BY <1>1, <1>4, <1>9, <2>2 DEF Sound
    <3>2. b.backing = a.backing + a.size /\ w.state # "Free"
      BY <1>4, <1>7, <2>2, <3>1
    <3>3. w.backing + w.size <= Frames /\ w.base + w.size <= MAX_ADDRESS
      BY <1>2, <1>3, <1>4, <1>7, <3>1, <3>2, Numbers
    <3> QED
      BY <3>1, <3>2, <3>3, Zenon DEF Sound
  <2> QED
    BY <2>1, <2>2
<1>11. \A v \in Int : /\ Holds(a, v) <=> a.base <= v /\ v < b.base
                      /\ Holds(b, v) <=> b.base <= v /\ v < b.base + b.size
                      /\ Holds(w, v) <=> a.base <= v /\ v < b.base + b.size
  BY <1>2, <1>4, <1>7 DEF Holds
<1> DEFINE old == {a, b}
           new == {w}
<1>12. Tiled(r) /\ w \in r
       /\ \A v \in Pages : ~Holds(a, v) /\ ~Holds(b, v) => Page(r, v) = Page(as, v)
  <2>1. old \in SUBSET as /\ new \in SUBSET Area /\ \A c \in new : Sound(c)
    BY <1>8, <1>10
  <2>2. \A v \in Int : (\E c \in old : Holds(c, v)) <=> \E c \in new : Holds(c, v)
    BY <1>2, <1>4, <1>11
  <2>3. \A v \in Int : \A c, d \in new : Holds(c, v) /\ Holds(d, v) => c = d
    OBVIOUS
  <2>4. r = (as \ old) \cup new /\ w \in new
        /\ \A v : ~Holds(a, v) /\ ~Holds(b, v) => \A c \in old : ~Holds(c, v)
    BY <1>0
  <2> HIDE DEF old, new
  <2>5. Tiled((as \ old) \cup new)
        /\ \A v \in Pages : (\A c \in old : ~Holds(c, v)) =>
              Page((as \ old) \cup new, v) = Page(as, v)
    BY <2>1, <2>2, <2>3, Replaced
  <2> QED
    BY <2>4, <2>5
<1>13. ASSUME NEW v \in Pages, Holds(a, v) \/ Holds(b, v)
       PROVE  Page(r, v) = Page(as, v)
  <2>1. v \in Int
    BY PageNumber
  <2>2. Holds(w, v)
    BY <1>2, <1>4, <1>11, <1>13, <2>1
  <2>3. Page(r, v) = PageOf(w, v)
    BY <1>12, <2>2, PageIs
  <2>4. CASE Holds(a, v)
    <3>1. Page(as, v) = PageOf(a, v)
      BY <2>4, PageIs
    <3>2. BackingOf(w, v) = BackingOf(a, v)
      BY <1>7, <1>9 DEF BackingOf
    <3> QED
      BY <1>7, <2>3, <3>1, <3>2 DEF PageOf
  <2>5. CASE Holds(b, v)
    <3>1. Page(as, v) = PageOf(b, v)
      BY <2>5, PageIs
    <3>2. BackingOf(w, v) = BackingOf(b, v)
      <4>1. CASE IsFree(a)
        BY <1>4, <1>9, <4>1 DEF BackingOf
      <4>2. CASE ~IsFree(a)
        <5>1. BackingOf(w, v) = w.backing + (v - w.base)
              /\ BackingOf(b, v) = b.backing + (v - b.base)
          BY <1>4, <1>9, <4>2 DEF BackingOf
        <5> QED
          BY <1>2, <1>4, <1>7, <2>1, <4>2, <5>1
      <4> QED
        BY <4>1, <4>2
    <3> QED
      BY <1>4, <1>7, <2>3, <3>1, <3>2 DEF PageOf
  <2> QED
    BY <1>13, <2>4, <2>5
<1>14. Bounds(r) = Bounds(as) \ {b.base}
  <2>1. ASSUME NEW c \in as, c.base = b.base
        PROVE  c = b
    <3>1. b.base <= c.base /\ c.base < b.base + b.size
      BY <1>2, <1>4, <2>1
    <3> QED
      BY <3>1, TiledOnce
  <2>2. a.base # b.base
    BY <1>2, <1>4
  <2> QED
    BY <1>0, <1>7, <2>1, <2>2 DEF Bounds
<1> QED
  BY <1>7, <1>12, <1>13, <1>14 DEF w, OneForTwo

(* No area begins between two free pages, but perhaps at X.                *)
FreeMergedBut(as, X) ==
    \A v \in Bounds(as) \ X : v # 0 => ~(FreePage(as, v - 1) /\ FreePage(as, v))

LEMMA Beside ==
    ASSUME NEW as, Tiled(as), NEW v \in Bounds(as), v # 0
    PROVE  /\ v \in Pages /\ v - 1 \in Pages
           /\ \E b \in as : b.base = v /\ Holds(b, v)
           /\ \E b \in as : b.base + b.size = v /\ Holds(b, v - 1)
<1>1. PICK b \in as : b.base = v
  BY DEF Bounds
<1>2. b \in Area
  BY TiledAreas
<1>3. v \in Pages /\ v \in Nat /\ v - 1 \in Pages /\ Holds(b, v) /\ v - 1 \in Int
  BY <1>1, <1>2, AreaFields, Numbers DEF Pages, Holds
<1>4. PICK c \in as : Holds(c, v - 1)
  BY <1>3, TiledCover
<1>5. c \in Area
  BY TiledAreas
<1>6. c.base \in Nat /\ c.size \in Nat /\ c.base <= v - 1 /\ v - 1 < c.base + c.size
  BY <1>4, <1>5, AreaFields DEF Holds
<1>7. ~(v < c.base + c.size)
  <2> SUFFICES ASSUME v < c.base + c.size
               PROVE  FALSE
    OBVIOUS
  <2>1. c.base <= v /\ c.base # v
    BY <1>3, <1>6
  <2> QED
    BY <2>1, NoBoundInside
<1>8. c.base + c.size = v
  BY <1>3, <1>6, <1>7
<1> QED
  BY <1>1, <1>3, <1>4, <1>8

(* Free areas side by side fit.                                            *)
LEMMA FreeFit ==
    ASSUME NEW a \in Area, NEW b \in Area, Sound(a), Sound(b), IsFree(a), IsFree(b),
           a.base + a.size = b.base
    PROVE  CanBeMergedWith(a, b)
BY DEF Sound, CanBeMergedWith, IsFree

(* MergeAdjacent, with at most one area on each side to merge.             *)
Merged(as, a) ==
    LET next == {b \in as : CanBeMergedWith(a, b)}
        wide == [a EXCEPT !.size = @ + (IF next = {} THEN 0 ELSE (CHOOSE b \in next : TRUE).size)]
        prev == {b \in as : CanBeMergedWith(b, wide)}
        all  == IF prev = {} THEN wide
                ELSE LET b == CHOOSE b \in prev : TRUE IN [b EXCEPT !.size = @ + wide.size]
    IN (as \ ({a} \cup next \cup prev)) \cup {all}

(* MergeAdjacent leaves every page as it is, and no bound between free     *)
(* pages at the ends of the area.                                          *)
LEMMA MergePages ==
    ASSUME NEW as, Tiled(as), NEW page \in Pages, NEW a, AreaAt(a, as, page),
           FreeMergedBut(as, {a.base, a.base + a.size}),
           NEW r, r = MergeAdjacent(as, page)
    PROVE  /\ Tiled(r) /\ FreeMerged(r)
           /\ \A v \in Pages : Page(r, v) = Page(as, v)
           /\ Bounds(r) \subseteq Bounds(as)
           /\ \A v \in Bounds(as) : v # a.base /\ v # a.base + a.size => v \in Bounds(r)
<1> DEFINE next == {b \in as : CanBeMergedWith(a, b)}
           n == CHOOSE b \in next : TRUE
           wide == [a EXCEPT !.size = @ + (IF next = {} THEN 0 ELSE n.size)]
           joined == (as \ ({a} \cup next)) \cup {wide}
           prev == {b \in as : CanBeMergedWith(b, wide)}
           p == CHOOSE b \in prev : TRUE
           all == IF prev = {} THEN wide ELSE [p EXCEPT !.size = @ + wide.size]
<1>0. r = (as \ ({a} \cup next \cup prev)) \cup {all}
  <2>1. MergeAdjacent(as, page) = Merged(as, FindVMA(as, page))
    BY DEF MergeAdjacent, Merged
  <2>2. r = Merged(as, a)
    BY <2>1 DEF AreaAt
  <2> QED
    BY <2>2 DEF Merged
<1>1. a \in as /\ Holds(a, page) /\ a \in Area /\ Sound(a)
  <2>1. a \in as /\ Holds(a, page)
    BY Found DEF AreaAt
  <2> QED
    BY <2>1, TiledAreas
<1>2. a.base \in Nat /\ a.size \in Nat /\ 1 <= a.size
  BY <1>1, AreaFields
<1> HIDE DEF next
<1>3. \A b \in next : b \in as /\ CanBeMergedWith(a, b) /\ b.base = a.base + a.size
  BY DEF next, CanBeMergedWith
<1>4. \A b, c \in next : b = c
  <2> SUFFICES ASSUME NEW b \in next, NEW c \in next
               PROVE  b = c
    OBVIOUS
  <2>1. b \in as /\ c \in as /\ b.base = c.base
    BY <1>3
  <2>2. b \in Area
    BY <2>1, TiledAreas
  <2>3. b.base \in Nat /\ b.size \in Nat /\ 1 <= b.size
    BY <2>2, AreaFields
  <2>4. b.base <= c.base /\ c.base < b.base + b.size
    BY <2>1, <2>3
  <2> QED
    BY <2>1, <2>4, TiledOnce
<1>5. /\ Tiled(joined) /\ wide \in joined /\ wide \in Area
      /\ wide.base = a.base /\ wide.perms = a.perms /\ wide.state = a.state
      /\ wide.backing = a.backing
      /\ \A v \in Pages : Page(joined, v) = Page(as, v)
      /\ Bounds(joined) \subseteq Bounds(as)
      /\ next # {} => a.base + a.size \notin Bounds(joined)
      /\ \A v \in Bounds(as) : v # a.base + a.size => v \in Bounds(joined)
      /\ a.base + a.size <= wide.base + wide.size
  <2>1. CASE next = {}
    <3>1. wide = [a EXCEPT !.size = @ + 0]
      BY <2>1
    <3> HIDE DEF wide
    <3>2. wide = a
      BY <1>1, <3>1, SameSize
    <3>3. joined = as
      BY <1>1, <2>1, <3>2
    <3>4. wide.base = a.base /\ wide.size = a.size
      BY <3>2
    <3>5. a.base + a.size <= wide.base + wide.size
      BY <1>2, <3>4
    <3> HIDE DEF joined
    <3> QED
      BY <1>1, <2>1, <3>2, <3>3, <3>5, Zenon
  <2>2. CASE next # {}
    <3>1. n \in next /\ next = {n}
      BY <1>4, <2>2
    <3>2. wide = Join(a, n) /\ joined = Joined(as, a, n)
      <4>1. wide = Join(a, n)
        BY <2>2 DEF Join
      <4> HIDE DEF wide, n
      <4> QED
        BY <3>1, <4>1 DEF Joined
    <3>3. n \in as /\ CanBeMergedWith(a, n) /\ n.base = a.base + a.size
      BY <1>3, <3>1
    <3> HIDE DEF wide, joined, n
    <3>4. /\ Tiled(joined) /\ wide \in joined
          /\ wide.base = a.base /\ wide.size = a.size + n.size /\ wide.perms = a.perms
          /\ wide.state = a.state /\ wide.backing = a.backing
          /\ \A v \in Pages : Page(joined, v) = Page(as, v)
          /\ \A v : v \in Bounds(joined) <=> v \in Bounds(as) /\ v # n.base
      <4>1. a \in as /\ n \in as /\ CanBeMergedWith(a, n) /\ joined = Joined(as, a, n)
        BY <1>1, <3>2, <3>3
      <4>2. OneForTwo(joined, as, a, n)
        BY <4>1, JoinPages
      <4> QED
        BY <3>2, <4>2, Zenon DEF OneForTwo
    <3>5. n \in Area /\ wide \in Area
      BY <3>3, <3>4, TiledAreas
    <3>6. n.size \in Nat
      BY <3>5, AreaFields
    <3>7. a.base + a.size <= wide.base + wide.size
      BY <1>2, <3>4, <3>6
    <3>8. /\ Bounds(joined) \subseteq Bounds(as) /\ a.base + a.size \notin Bounds(joined)
          /\ \A v \in Bounds(as) : v # a.base + a.size => v \in Bounds(joined)
      BY <3>3, <3>4
    <3> QED
      BY <3>4, <3>5, <3>7, <3>8, Zenon
  <2> QED
    BY <2>1, <2>2
<1> HIDE DEF wide
<1>6. ASSUME NEW b \in prev
      PROVE  /\ b \in joined /\ b \in as /\ CanBeMergedWith(b, wide) /\ b.base + b.size = a.base
             /\ b # a /\ b \notin next /\ b # wide
  <2>1. b \in as /\ CanBeMergedWith(b, wide) /\ b.base + b.size = a.base
    BY <1>5 DEF CanBeMergedWith
  <2>2. b \in Area
    BY <2>1, TiledAreas
  <2>3. b.base \in Nat /\ b.size \in Nat /\ 1 <= b.size
    BY <2>2, AreaFields
  <2>4. b.base < a.base
    BY <1>2, <2>1, <2>3
  <2>5. b # a /\ b # wide
    BY <1>2, <1>5, <2>4
  <2>6. b \notin next
    <3>1. CASE b \in next
      <4>1. b.base = a.base + a.size
        BY <1>3, <3>1
      <4> QED
        BY <1>2, <2>3, <2>4, <4>1
    <3> QED
      BY <3>1
  <2> QED
    BY <2>1, <2>5, <2>6
<1>7. /\ Tiled(r) /\ Bounds(r) \subseteq Bounds(joined)
      /\ \A v \in Pages : Page(r, v) = Page(joined, v)
      /\ prev # {} => a.base \notin Bounds(r)
      /\ \A v \in Bounds(joined) : v # a.base => v \in Bounds(r)
  <2>1. CASE prev = {}
    <3>1. r = joined
      <4>1. all = wide
        BY <2>1
      <4> HIDE DEF all, prev
      <4> QED
        BY <1>0, <2>1, <4>1
    <3> HIDE DEF joined, prev
    <3> QED
      BY <1>5, <2>1, <3>1
  <2>2. CASE prev # {}
    <3>1. p \in prev
      BY <2>2
    <3>2. \A b \in prev : b = p
      <4> SUFFICES ASSUME NEW b \in prev
                   PROVE  b = p
        OBVIOUS
      <4> HIDE DEF prev, p, joined
      <4>1. b \in as /\ b.base + b.size = a.base /\ p \in as /\ p.base + p.size = a.base
        BY <1>6, <3>1
      <4>2. b \in Area /\ p \in Area
        BY <4>1, TiledAreas
      <4>3. /\ b.base \in Nat /\ b.size \in Nat /\ 1 <= b.size
            /\ p.base \in Nat /\ p.size \in Nat /\ 1 <= p.size
        BY <4>2, AreaFields
      <4>4. a.base - 1 \in Int /\ Holds(b, a.base - 1) /\ Holds(p, a.base - 1)
        BY <1>2, <4>1, <4>3 DEF Holds
      <4> QED
        BY <4>1, <4>4, OneHolds
    <3>3. p \in joined /\ CanBeMergedWith(p, wide) /\ p # wide /\ p # a /\ p \notin next
      BY <1>6, <3>1
    <3>4. all = Join(p, wide)
      BY <2>2 DEF Join
    <3>5. wide \notin as \ ({a} \cup next)
      <4>1. wide.base = a.base
        BY <1>5
      <4>2. CASE wide \in as
        <5>1. wide = a
          <6>1. a.base <= wide.base /\ wide.base < a.base + a.size
            BY <1>2, <4>1
          <6> QED
            BY <1>1, <4>2, <6>1, TiledOnce
        <5> QED
          BY <5>1
      <4> QED
        BY <4>2
    <3>6. r = Joined(joined, p, wide)
      <4>1. prev = {p}
        BY <3>1, <3>2
      <4>2. joined \ {p, wide} = as \ ({a} \cup next \cup {p})
        BY <3>3, <3>5
      <4> HIDE DEF all, prev, p, joined
      <4> QED
        BY <1>0, <3>4, <4>1, <4>2 DEF Joined
    <3> HIDE DEF all, prev, p, joined
    <3>7. /\ Tiled(r) /\ \A v \in Pages : Page(r, v) = Page(joined, v)
          /\ \A v : v \in Bounds(r) <=> v \in Bounds(joined) /\ v # wide.base
      BY <1>5, <3>3, <3>4, <3>6, JoinPages DEF OneForTwo
    <3> QED
      BY <1>5, <3>7
  <2> QED
    BY <2>1, <2>2
<1> HIDE DEF joined
<1>8. /\ Bounds(r) \subseteq Bounds(as) /\ \A v \in Pages : Page(r, v) = Page(as, v)
      /\ \A v \in Bounds(as) : v # a.base /\ v # a.base + a.size => v \in Bounds(r)
  BY <1>5, <1>7
<1>9. ASSUME NEW v \in Bounds(r), v # 0, FreePage(r, v - 1), FreePage(r, v)
      PROVE  FALSE
  <2>1. v \in Bounds(as)
    BY <1>8
  <2>2. v \in Pages /\ v - 1 \in Pages
    BY <1>9, <2>1, Beside
  <2>3. FreePage(as, v - 1) /\ FreePage(as, v)
    BY <1>8, <1>9, <2>2 DEF FreePage
  <2>4. v \in {a.base, a.base + a.size}
    BY <1>9, <2>1, <2>3 DEF FreeMergedBut
  <2>5. PICK b \in as : b.base = v /\ Holds(b, v)
    BY <1>9, <2>1, Beside
  <2>6. PICK c \in as : c.base + c.size = v /\ Holds(c, v - 1)
    BY <1>9, <2>1, Beside
  <2>7. b \in Area /\ Sound(b) /\ c \in Area /\ Sound(c)
    BY TiledAreas
  <2>8. IsFree(b) /\ IsFree(c)
    BY <2>2, <2>3, <2>5, <2>6, PageIs
  <2>9. v \in Nat
    BY <2>2, PageNumber
  <2>10. CASE v = a.base + a.size
    <3>1. Holds(a, v - 1) /\ v - 1 \in Int
      BY <1>2, <2>10 DEF Holds
    <3>2. c = a
      BY <1>1, <2>6, <3>1, OneHolds
    <3>3. CanBeMergedWith(a, b)
      BY <2>5, <2>6, <2>7, <2>8, <3>2, FreeFit
    <3>4. b \in next
      BY <3>3 DEF next
    <3> QED
      BY <1>5, <1>7, <1>9, <2>10, <3>4
  <2>11. CASE v = a.base
    <3>1. b = a
      <4>1. a.base <= b.base /\ b.base < a.base + a.size
        BY <1>2, <2>5, <2>11
      <4> QED
        BY <1>1, <2>5, <4>1, TiledOnce
    <3>2. CanBeMergedWith(c, a)
      BY <2>5, <2>6, <2>7, <2>8, <3>1, FreeFit
    <3>3. CanBeMergedWith(c, wide)
      <4>1. IsFree(wide) <=> IsFree(a)
        BY <1>5 DEF IsFree
      <4> QED
        BY <1>5, <2>8, <3>2, <4>1 DEF CanBeMergedWith, IsFree
    <3> QED
      BY <1>7, <1>9, <2>11, <3>3
  <2> QED
    BY <2>4, <2>10, <2>11
<1> QED
  BY <1>7, <1>8, <1>9 DEF FreeMerged

(* A page of an area that has a backing, permissions and state.            *)
PageIn(a, v, backing, perms, state) ==
    [backing |-> IF backing = Unbacked THEN Unbacked ELSE backing + (v - a.base),
     perms |-> perms, state |-> state]

(* r is as but for the pages of a, and the bounds at its ends.             *)
OneTurned(r, as, a, backing, perms, state) ==
    /\ \A v \in Pages : Page(r, v) = IF Holds(a, v) THEN PageIn(a, v, backing, perms, state)
                                     ELSE Page(as, v)
    /\ Bounds(r) \subseteq Bounds(as)
    /\ \A v \in Bounds(as) : v # a.base /\ v # a.base + a.size => v \in Bounds(r)

(* One area changes and is merged with its neighbours.                     *)
LEMMA BecomePages ==
    ASSUME NEW as, Tiled(as), NEW page \in Pages, NEW a, AreaAt(a, as, page),
           FreeMergedBut(as, {a.base, a.base + a.size}),
           NEW backing \in Int, NEW perms \in Perms, NEW state \in Used \cup {"Free"},
           \/ backing = Unbacked /\ perms = "None" /\ state = "Free"
           \/ 0 <= backing /\ backing + a.size <= Frames /\ state # "Free",
           NEW r, r = Become(as, page, backing, perms, state)
    PROVE  /\ Tiled(r) /\ FreeMerged(r)
           /\ \A v \in Pages : FreePage(r, v) <=> IF Holds(a, v) THEN backing = Unbacked
                                                  ELSE FreePage(as, v)
           /\ OneTurned(r, as, a, backing, perms, state)
<1> DEFINE x == Turned(a, backing, perms, state)
           old == {a}
           new == {x}
           as2 == (as \ old) \cup new
<1>1. a \in as /\ Holds(a, page) /\ a \in Area /\ Sound(a)
  <2>1. a \in as /\ Holds(a, page)
    BY Found DEF AreaAt
  <2> QED
    BY <2>1, TiledAreas
<1>2. /\ a.base \in Nat /\ a.base < MAX_ADDRESS /\ a.size \in Nat /\ 1 <= a.size
      /\ a.size <= MAX_ADDRESS
  BY <1>1, AreaFields
<1>3. x = [base |-> a.base, size |-> a.size, backing |-> backing, perms |-> perms,
           state |-> state]
  <2>1. x = Turned(a, backing, perms, state)
    OBVIOUS
  <2> HIDE DEF x
  <2> QED
    BY <1>1, <2>1, Recast
<1>4. x.base = a.base /\ x.size = a.size /\ x.backing = backing /\ x.perms = perms
      /\ x.state = state
  BY <1>3
<1>5. r = MergeAdjacent(as2, page)
  BY DEF Become, AreaAt, Turned
<1> HIDE DEF x
<1>6. backing = Unbacked \/ (0 <= backing /\ backing < Frames)
  BY <1>2, Numbers
<1>7. x \in Area
  BY <1>2, <1>3, <1>6, MakeArea
<1>8. IsFree(x) <=> backing = Unbacked
  BY <1>4 DEF IsFree
<1>9. Sound(x)
  BY <1>1, <1>4, <1>8, Numbers DEF Sound
<1>10. \A v \in Int : Holds(a, v) <=> Holds(x, v)
  BY <1>4 DEF Holds
<1>11. Tiled(as2) /\ x \in as2 /\ \A v \in Pages : ~Holds(a, v) => Page(as2, v) = Page(as, v)
  <2>1. old \in SUBSET as /\ new \in SUBSET Area /\ \A c \in new : Sound(c)
    BY <1>1, <1>7, <1>9
  <2>2. \A v \in Int : (\E c \in old : Holds(c, v)) <=> \E c \in new : Holds(c, v)
    BY <1>10
  <2>3. \A v \in Int : \A c, d \in new : Holds(c, v) /\ Holds(d, v) => c = d
    OBVIOUS
  <2>4. x \in new /\ \A v : ~Holds(a, v) => \A c \in old : ~Holds(c, v)
    OBVIOUS
  <2> HIDE DEF old, new
  <2>5. Tiled((as \ old) \cup new)
        /\ \A v \in Pages : (\A c \in old : ~Holds(c, v)) =>
              Page((as \ old) \cup new, v) = Page(as, v)
    BY <2>1, <2>2, <2>3, Replaced
  <2> QED
    BY <2>4, <2>5
<1>12. Bounds(as2) = Bounds(as)
  BY <1>1, <1>4 DEF Bounds
<1> HIDE DEF as2
<1>13. AreaAt(x, as2, page)
  <2>1. page \in Int
    BY PageNumber
  <2>2. Holds(x, page)
    BY <1>1, <1>10, <2>1
  <2> QED
    BY <1>11, <2>2, Found DEF AreaAt
<1>14. FreeMergedBut(as2, {x.base, x.base + x.size})
  <2> SUFFICES ASSUME NEW v \in Bounds(as), v # a.base, v # a.base + a.size, v # 0
               PROVE  ~(FreePage(as2, v - 1) /\ FreePage(as2, v))
    BY <1>4, <1>12 DEF FreeMergedBut
  <2>1. v \in Pages /\ v - 1 \in Pages /\ v \in Nat
    BY Beside, PageNumber
  <2>2. ~(a.base <= v /\ v < a.base + a.size)
    BY <1>1, NoBoundInside
  <2>3. ~Holds(a, v) /\ ~Holds(a, v - 1)
    BY <1>2, <2>1, <2>2 DEF Holds
  <2>4. ~(FreePage(as, v - 1) /\ FreePage(as, v))
    BY DEF FreeMergedBut
  <2> QED
    BY <1>11, <2>1, <2>3, <2>4 DEF FreePage
<1>15. /\ Tiled(r) /\ FreeMerged(r) /\ \A v \in Pages : Page(r, v) = Page(as2, v)
       /\ Bounds(r) \subseteq Bounds(as2)
       /\ \A v \in Bounds(as2) : v # x.base /\ v # x.base + x.size => v \in Bounds(r)
  BY <1>5, <1>11, <1>13, <1>14, MergePages
<1>16. ASSUME NEW v \in Pages
       PROVE  FreePage(r, v) <=> IF Holds(a, v) THEN backing = Unbacked ELSE FreePage(as, v)
  <2>1. v \in Int
    BY PageNumber
  <2>2. FreePage(r, v) <=> FreePage(as2, v)
    BY <1>15 DEF FreePage
  <2>3. CASE Holds(a, v)
    <3>1. Holds(x, v)
      BY <1>10, <2>1, <2>3
    <3>2. FreePage(as2, v) <=> IsFree(x)
      BY <1>11, <3>1, PageIs
    <3> QED
      BY <1>8, <2>2, <2>3, <3>2
  <2>4. CASE ~Holds(a, v)
    BY <1>11, <2>2, <2>4 DEF FreePage
  <2> QED
    BY <2>3, <2>4
<1>17. ASSUME NEW v \in Pages
       PROVE  Page(r, v) = IF Holds(a, v) THEN PageIn(a, v, backing, perms, state)
                           ELSE Page(as, v)
  <2>1. CASE Holds(a, v)
    <3>1. Holds(x, v)
      BY <1>10, <2>1, PageNumber
    <3>2. Page(as2, v) = PageOf(x, v)
      BY <1>11, <3>1, PageIs
    <3>3. PageOf(x, v) = PageIn(a, v, backing, perms, state)
      BY <1>4, <1>8 DEF PageOf, PageIn, BackingOf
    <3> QED
      BY <1>15, <2>1, <3>2, <3>3
  <2>2. CASE ~Holds(a, v)
    BY <1>11, <1>15, <2>2
  <2> QED
    BY <2>1, <2>2
<1>18. OneTurned(r, as, a, backing, perms, state)
  BY <1>4, <1>12, <1>15, <1>17 DEF OneTurned
<1> QED
  BY <1>15, <1>16, <1>18

(* CarveVMA: areas begin where the range begins and ends.                  *)
LEMMA CarvePages ==
    ASSUME NEW as, Tiled(as), NEW target \in Nat, NEW size \in Nat, 1 <= size,
           target + size <= MAX_ADDRESS, NEW c, c = Carve(as, target, size)
    PROVE  /\ Tiled(c) /\ \A v \in Pages : FreePage(c, v) <=> FreePage(as, v)
           /\ \A v \in Pages : Page(c, v) = Page(as, v)
           /\ \A v : v \in Bounds(c) <=> \/ v \in Bounds(as) \/ v = target
                                         \/ v = target + size /\ v # MAX_ADDRESS
<1> DEFINE b == SplitVMA(as, target + size)
<1>1. target + size \in 0..MAX_ADDRESS /\ target \in 0..MAX_ADDRESS /\ target # MAX_ADDRESS
  BY Numbers
<1>2. c = SplitVMA(b, target)
  BY DEF Carve
<1>3. /\ Tiled(b) /\ \A v \in Pages : Page(b, v) = Page(as, v)
      /\ Bounds(b) = IF target + size = MAX_ADDRESS THEN Bounds(as)
                     ELSE Bounds(as) \cup {target + size}
  BY <1>1, SplitPages
<1> HIDE DEF b
<1>4. /\ Tiled(c) /\ \A v \in Pages : Page(c, v) = Page(b, v)
      /\ Bounds(c) = IF target = MAX_ADDRESS THEN Bounds(b) ELSE Bounds(b) \cup {target}
  BY <1>1, <1>2, <1>3, SplitPages
<1>5. \A v \in Pages : FreePage(c, v) <=> FreePage(as, v)
  BY <1>3, <1>4 DEF FreePage
<1> QED
  BY <1>1, <1>3, <1>4, <1>5

InSpan(v, target, size) == target <= v /\ v < target + size

(* r is as but for a range that is backed from a page on, in a state.      *)
Backs(r, as, target, size, backing, state) ==
    \A v \in Pages : At(r, v) = IF InSpan(v, target, size)
                                THEN [backing |-> backing + (v - target), state |-> state]
                                ELSE At(as, v)

LEMMA AtPage ==
    ASSUME NEW as, NEW v
    PROVE  /\ At(as, v) = [backing |-> Page(as, v).backing, state |-> Page(as, v).state]
           /\ At(as, v).backing = Page(as, v).backing /\ At(as, v).state = Page(as, v).state
           /\ FreePage(as, v) <=> At(as, v).backing = Unbacked
BY DEF At, Page, PageOf, FreePage

(* MapBackingMemory in a range of free pages; since free areas are merged, *)
(* one area holds them all.                                                *)
Filled(r, as, target, size) ==
    /\ Tiled(r) /\ FreeMerged(r)
    /\ \A v \in Pages : FreePage(r, v) <=> FreePage(as, v) /\ ~InSpan(v, target, size)

LEMMA MapPages ==
    ASSUME NEW as, Tiled(as), FreeMerged(as), NEW target \in Nat, NEW size \in Nat, 1 <= size,
           target + size <= MAX_ADDRESS,
           \A v \in Pages : InSpan(v, target, size) => FreePage(as, v),
           NEW backing \in Nat, backing + size <= Frames, NEW state \in Used,
           NEW r, r = MapBackingMemory(as, target, backing, size, state)
    PROVE  Filled(r, as, target, size) /\ Backs(r, as, target, size, backing, state)
<1> DEFINE c == Carve(as, target, size)
           a == FindVMA(c, target)
<1>1. r = Become(c, target, backing, "ReadWrite", state)
  BY DEF MapBackingMemory
<1>2. /\ Tiled(c) /\ \A v \in Pages : FreePage(c, v) <=> FreePage(as, v)
      /\ \A v \in Pages : Page(c, v) = Page(as, v)
      /\ \A v : v \in Bounds(c) <=> \/ v \in Bounds(as) \/ v = target
                                    \/ v = target + size /\ v # MAX_ADDRESS
  BY CarvePages
<1> HIDE DEF c
<1>3. target \in Pages
  BY Numbers DEF Pages
<1>4. a \in c /\ Holds(a, target)
  BY <1>2, <1>3, Found
<1>5. a \in Area /\ Sound(a)
  BY <1>2, <1>4, TiledAreas
<1> HIDE DEF a
<1>6. a.base \in Nat /\ a.size \in Nat /\ 1 <= a.size /\ a.base + a.size <= MAX_ADDRESS
      /\ a.base <= target /\ target < a.base + a.size
  BY <1>4, <1>5, AreaFields DEF Holds, Sound
<1>7. a.base = target
  BY <1>2, <1>4, <1>6, NoBoundInside
<1>8. ~(a.base + a.size > target + size)
  <2> SUFFICES ASSUME a.base + a.size > target + size
               PROVE  FALSE
    OBVIOUS
  <2>1. target + size \in Bounds(c)
    <3>1. target + size # MAX_ADDRESS
      BY <1>6, Numbers
    <3> QED
      BY <1>2, <3>1
  <2> QED
    BY <1>2, <1>4, <1>6, <1>7, <2>1, NoBoundInside
<1>9. ~(a.base + a.size < target + size)
  <2> SUFFICES ASSUME a.base + a.size < target + size
               PROVE  FALSE
    OBVIOUS
  <2> DEFINE e == a.base + a.size
  <2>1. e \in Pages /\ e \in Bounds(c)
    <3>1. e # MAX_ADDRESS
      BY <1>6, Numbers
    <3> QED
      BY <1>2, <1>4, <3>1, NextArea
  <2>2. e \in Nat /\ e # 0 /\ e - 1 \in Pages /\ target < e /\ e < target + size
    BY <1>6, <1>7, <2>1, Numbers DEF Pages
  <2> HIDE DEF e
  <2>3. e \in Bounds(as)
    <3>1. e # target /\ e # target + size
      BY <2>2
    <3> QED
      BY <1>2, <2>1, <3>1
  <2>4. FreePage(as, e) /\ FreePage(as, e - 1)
    <3>1. InSpan(e, target, size) /\ InSpan(e - 1, target, size)
      BY <2>2 DEF InSpan
    <3> QED
      BY <2>1, <2>2, <3>1
  <2> QED
    BY <2>2, <2>3, <2>4 DEF FreeMerged
<1>10. a.size = size
  BY <1>6, <1>7, <1>8, <1>9
<1>11. FreeMergedBut(c, {a.base, a.base + a.size})
  <2> SUFFICES ASSUME NEW v \in Bounds(c), v # target, v # target + size, v # 0
               PROVE  ~(FreePage(c, v - 1) /\ FreePage(c, v))
    BY <1>7, <1>10 DEF FreeMergedBut
  <2>1. v \in Bounds(as)
    BY <1>2
  <2>2. v \in Pages /\ v - 1 \in Pages
    BY <2>1, Beside
  <2> QED
    BY <1>2, <2>1, <2>2 DEF FreeMerged
<1>12. backing \in Int /\ "ReadWrite" \in Perms /\ state \in Used \cup {"Free"} /\ state # "Free"
       /\ 0 <= backing /\ backing + a.size <= Frames /\ backing # Unbacked
  BY <1>10, Numbers DEF Perms, Used
<1>13. AreaAt(a, c, target)
  BY DEF a, AreaAt
<1>14. /\ Tiled(r) /\ FreeMerged(r)
       /\ \A v \in Pages : FreePage(r, v) <=> IF Holds(a, v) THEN backing = Unbacked
                                              ELSE FreePage(c, v)
       /\ OneTurned(r, c, a, backing, "ReadWrite", state)
  BY <1>1, <1>2, <1>3, <1>11, <1>12, <1>13, BecomePages
<1>15. \A v : Holds(a, v) <=> InSpan(v, target, size)
  BY <1>7, <1>10 DEF Holds, InSpan
<1>16. /\ Tiled(r) /\ FreeMerged(r)
       /\ \A v \in Pages : FreePage(r, v) <=> FreePage(as, v) /\ ~InSpan(v, target, size)
  BY <1>2, <1>12, <1>14, <1>15
<1>17. Backs(r, as, target, size, backing, state)
  <2> SUFFICES ASSUME NEW v \in Pages
               PROVE  At(r, v) = IF InSpan(v, target, size)
                                 THEN [backing |-> backing + (v - target), state |-> state]
                                 ELSE At(as, v)
    BY DEF Backs
  <2>1. Page(r, v) = IF Holds(a, v) THEN PageIn(a, v, backing, "ReadWrite", state)
                     ELSE Page(c, v)
    BY <1>14 DEF OneTurned
  <2>2. CASE InSpan(v, target, size)
    <3>1. Page(r, v) = PageIn(a, v, backing, "ReadWrite", state)
      BY <1>15, <2>1, <2>2
    <3>2. Page(r, v).backing = backing + (v - target) /\ Page(r, v).state = state
      BY <1>7, <1>12, <3>1 DEF PageIn
    <3> QED
      BY <2>2, <3>2, AtPage
  <2>3. CASE ~InSpan(v, target, size)
    <3>1. Page(r, v) = Page(as, v)
      BY <1>2, <1>15, <2>1, <2>3
    <3> QED
      BY <2>3, <3>1, AtPage
  <2> QED
    BY <2>2, <2>3
<1> QED
  BY <1>16, <1>17 DEF Filled

(* What Change makes of a page.                                            *)
Became(x, y, state) ==
    /\ x.backing = IF state = "Free" THEN Unbacked ELSE y.backing
    /\ x.state = IF state = Kept THEN y.state ELSE state

(* r is as but for the pages of a, which change, and the bounds at its     *)
(* ends.                                                                   *)
Altered(r, as, a, perms, state) ==
    /\ \A v \in Pages :
          IF Holds(a, v) THEN Became(At(r, v), At(as, v), state) ELSE At(r, v) = At(as, v)
    /\ Bounds(r) \subseteq Bounds(as)
    /\ \A v \in Bounds(as) : v # a.base /\ v # a.base + a.size => v \in Bounds(r)

(* Unmap, Reprotect and the like of the area that holds a page.            *)
LEMMA ChangePages ==
    ASSUME NEW as, Tiled(as), FreeMerged(as), NEW page \in Pages,
           NEW perms \in Perms, NEW state,
           \/ state = "Free" /\ perms = "None"
           \/ state \in Used \cup {Kept} /\ ~FreePage(as, page),
           NEW r, r = Change(as, page, perms, state)
    PROVE  /\ Tiled(r) /\ FreeMerged(r)
           /\ \A v \in Pages : FreePage(as, v) => FreePage(r, v)
           /\ state # "Free" => \A v \in Pages : FreePage(r, v) => FreePage(as, v)
           /\ Altered(r, as, FindVMA(as, page), perms, state)
<1> DEFINE a == FindVMA(as, page)
           backing == IF state = "Free" THEN Unbacked ELSE a.backing
           now == IF state = Kept THEN a.state ELSE state
<1>1. r = Become(as, page, backing, perms, now)
  BY DEF Change
<1>2. a \in as /\ Holds(a, page) /\ a \in Area /\ Sound(a)
  <2>1. a \in as /\ Holds(a, page)
    BY Found
  <2> HIDE DEF a
  <2> QED
    BY <2>1, TiledAreas
<1>3. AreaAt(a, as, page) /\ a = FindVMA(as, page)
  BY DEF AreaAt
<1> HIDE DEF a
<1>4. FreeMergedBut(as, {a.base, a.base + a.size})
  BY DEF FreeMerged, FreeMergedBut
<1>5. FreePage(as, page) <=> IsFree(a)
  BY <1>2, PageIs
<1>6. /\ a.backing \in Int /\ a.size \in Nat /\ (IsFree(a) <=> a.backing = Unbacked)
      /\ a.state \in Used \cup {"Free"} /\ (a.backing = Unbacked \/ 0 <= a.backing)
  BY <1>2, AreaFields
<1>7. /\ backing \in Int /\ now \in Used \cup {"Free"}
      /\ \/ backing = Unbacked /\ perms = "None" /\ now = "Free"
         \/ 0 <= backing /\ backing + a.size <= Frames /\ now # "Free"
  <2>1. CASE state = "Free"
    BY <2>1, Numbers DEF Kept, Used
  <2>2. CASE state # "Free"
    <3>1. ~IsFree(a) /\ a.backing + a.size <= Frames /\ a.state # "Free" /\ 0 <= a.backing
      BY <1>2, <1>5, <1>6, <2>2 DEF Sound
    <3> QED
      BY <1>6, <2>2, <3>1
  <2> QED
    BY <2>1, <2>2
<1>8. state # "Free" => ~IsFree(a) /\ (backing = Unbacked <=> IsFree(a))
  BY <1>5, <1>6
<1>9. state = "Free" => backing = Unbacked
  OBVIOUS
<1>12. /\ backing = IF state = "Free" THEN Unbacked ELSE a.backing
       /\ now = IF state = Kept THEN a.state ELSE state
  OBVIOUS
<1> HIDE DEF backing, now
<1>10. /\ Tiled(r) /\ FreeMerged(r)
       /\ \A v \in Pages : FreePage(r, v) <=> IF Holds(a, v) THEN backing = Unbacked
                                              ELSE FreePage(as, v)
       /\ OneTurned(r, as, a, backing, perms, now)
  BY <1>1, <1>3, <1>4, <1>7, BecomePages
<1>11. \A v \in Pages : Holds(a, v) => (FreePage(as, v) <=> IsFree(a))
  BY <1>2, PageIs
<1>13. Altered(r, as, a, perms, state)
  <2>1. ASSUME NEW v \in Pages, Holds(a, v)
        PROVE  Became(At(r, v), At(as, v), state)
    <3>1. Page(r, v) = PageIn(a, v, backing, perms, now)
      BY <1>10, <2>1 DEF OneTurned
    <3>2. Page(as, v) = PageOf(a, v)
      BY <1>2, <2>1, PageIs
    <3>3. Page(as, v).backing = BackingOf(a, v) /\ Page(as, v).state = a.state
      BY <3>2 DEF PageOf
    <3>4. /\ Page(r, v).backing = IF backing = Unbacked THEN Unbacked ELSE backing + (v - a.base)
          /\ Page(r, v).state = now
      BY <3>1 DEF PageIn
    <3>5. Page(r, v).backing = IF state = "Free" THEN Unbacked ELSE BackingOf(a, v)
      BY <1>12, <3>4 DEF BackingOf, IsFree
    <3> QED
      BY <1>12, <3>3, <3>4, <3>5, AtPage DEF Became
  <2>2. ASSUME NEW v \in Pages, ~Holds(a, v)
        PROVE  At(r, v) = At(as, v)
    <3>1. Page(r, v) = Page(as, v)
      BY <1>10, <2>2 DEF OneTurned
    <3> QED
      BY <3>1, AtPage
  <2>3. /\ Bounds(r) \subseteq Bounds(as)
        /\ \A v \in Bounds(as) : v # a.base /\ v # a.base + a.size => v \in Bounds(r)
    BY <1>10 DEF OneTurned
  <2> QED
    BY <2>1, <2>2, <2>3 DEF Altered
<1> QED
  BY <1>3, <1>8, <1>9, <1>10, <1>11, <1>13

(***************************************************************************)
(* Induction up to a number, and functions that are defined one argument   *)
(* after the other.                                                        *)
(***************************************************************************)
LEMMA MinNat ==
    ASSUME NEW S, S \subseteq Nat, S # {}
    PROVE  \E x \in S : \A y \in S : x <= y
<1> DEFINE T == {0..n : n \in S}
<1>1. T \subseteq FiniteSubsetsOf(Nat) /\ T # {}
  <2>1. \A n \in S : 0..n \in SUBSET Nat /\ IsFiniteSet(0..n)
    BY FS_Interval
  <2> QED
    BY <2>1 DEF FiniteSubsetsOf
<1>2. PICK X \in T : \A Y \in T : ~ (<<Y, X>> \in StrictSubsetOrdering(Nat))
  <2> HIDE DEF T
  <2> QED
    BY <1>1, FS_StrictSubsetOrderingWellFounded, WFMin
<1>3. PICK x \in S : X = 0..x
  OBVIOUS
<1>4. \A y \in S : x <= y
  <2> SUFFICES ASSUME NEW y \in S, y < x
               PROVE  FALSE
    OBVIOUS
  <2>1. 0..y \subseteq 0..x /\ 0..y # 0..x
    <3>1. x \in 0..x /\ x \notin 0..y
      OBVIOUS
    <3> QED
      BY <3>1
  <2>2. 0..y \in T /\ 0..y \subseteq Nat /\ 0..x \subseteq Nat
    OBVIOUS
  <2>3. <<0..y, 0..x>> \in StrictSubsetOrdering(Nat)
    BY <2>1, <2>2, Zenon DEF StrictSubsetOrdering
  <2> QED
    BY <1>2, <1>3, <2>2, <2>3
<1> QED
  BY <1>4

(* Whatever holds at 0 and is passed on holds up to n.                     *)
LEMMA UpTo ==
    ASSUME NEW n \in Nat, NEW T, 0 \in T, \A i \in 1..n : i - 1 \in T => i \in T
    PROVE  0..n \subseteq T
<1> SUFFICES ASSUME (0..n) \ T # {}
             PROVE  FALSE
  OBVIOUS
<1>1. PICK x \in (0..n) \ T : \A y \in (0..n) \ T : x <= y
  <2> DEFINE S == (0..n) \ T
  <2>1. S \subseteq Nat
    OBVIOUS
  <2> HIDE DEF S
  <2>2. S # {}
    BY DEF S
  <2>3. \E x \in S : \A y \in S : x <= y
    BY <2>1, <2>2, MinNat
  <2> QED
    BY <2>3 DEF S
<1>2. x \in 1..n
  BY <1>1
<1>3. x - 1 \in 0..n /\ ~(x <= x - 1)
  BY <1>2
<1> QED
  BY <1>1, <1>2, <1>3

(* A sequence of states from x, each what F makes of the one before it and *)
(* in its own set of states, exists if F leads from each set to the next.  *)
Courses(S, G, x, F, n) ==
    {f \in [0..n -> S] : /\ f[0] = x
                         /\ \A i \in 1..n : f[i] = F[i][f[i - 1]]
                         /\ \A i \in 0..n : f[i] \in G[i]}

LEMMA Iteration ==
    ASSUME NEW S, NEW n \in Nat, NEW G \in [0..n -> SUBSET S], NEW x \in G[0], NEW F,
           \A i \in 1..n : \A s \in G[i - 1] : F[i][s] \in G[i]
    PROVE  Courses(S, G, x, F, n) # {}
<1> DEFINE T == {m \in 0..n : Courses(S, G, x, F, m) # {}}
<1>1. 0 \in T
  <2> DEFINE f == [i \in 0..0 |-> x]
  <2>0. x \in S
    OBVIOUS
  <2>1. f \in [0..0 -> S] /\ f[0] = x /\ 1..0 = {} /\ \A i \in 0..0 : f[i] \in G[i]
    BY <2>0
  <2>2. f \in Courses(S, G, x, F, 0)
    BY <2>1 DEF Courses
  <2> QED
    BY <2>2
<1>2. ASSUME NEW m \in 1..n, m - 1 \in T
      PROVE  m \in T
  <2>1. PICK f : f \in Courses(S, G, x, F, m - 1)
    BY <1>2
  <2>2. /\ f \in [0..(m - 1) -> S] /\ f[0] = x
        /\ \A i \in 1..(m - 1) : f[i] = F[i][f[i - 1]]
        /\ \A i \in 0..(m - 1) : f[i] \in G[i]
    BY <2>1 DEF Courses
  <2> DEFINE g == [i \in 0..m |-> IF i = m THEN F[m][f[m - 1]] ELSE f[i]]
  <2>3. f[m - 1] \in G[m - 1]
    BY <2>2
  <2>4. F[m][f[m - 1]] \in G[m] /\ F[m][f[m - 1]] \in S
    <3>1. F[m][f[m - 1]] \in G[m]
      BY <2>3
    <3>2. m \in 0..n
      OBVIOUS
    <3> QED
      BY <3>1, <3>2
  <2>5. g \in [0..m -> S]
    BY <2>2, <2>4
  <2>6. g[0] = x
    BY <2>2
  <2>7. ASSUME NEW i \in 1..m
        PROVE  g[i] = F[i][g[i - 1]]
    <3>1. CASE i = m
      <4>1. g[m - 1] = f[m - 1] /\ g[m] = F[m][f[m - 1]]
        OBVIOUS
      <4> QED
        BY <3>1, <4>1
    <3>2. CASE i # m
      <4>1. g[i - 1] = f[i - 1] /\ g[i] = f[i]
        BY <3>2
      <4> QED
        BY <2>2, <3>2, <4>1
    <3> QED
      BY <3>1, <3>2
  <2>8. ASSUME NEW i \in 0..m
        PROVE  g[i] \in G[i]
    <3>1. CASE i = m
      BY <2>4, <3>1
    <3>2. CASE i # m
      BY <2>2, <3>2
    <3> QED
      BY <3>1, <3>2
  <2> HIDE DEF g
  <2>9. g \in Courses(S, G, x, F, m)
    BY <2>5, <2>6, <2>7, <2>8 DEF Courses
  <2> QED
    BY <2>9
<1> HIDE DEF T
<1>3. 0..n \subseteq T
  BY <1>1, <1>2, UpTo
<1> QED
  BY <1>3 DEF T

(***************************************************************************)
(* The loops over the areas of a range.                                    *)
(***************************************************************************)
(* One turn of the loop of Walk.                                           *)
Onward(s, end, perms, state) ==
    IF s.at >= end THEN s
    ELSE LET changed == Change(s.areas, s.at, perms, state)
         IN [areas |-> changed, at |-> EndOf(changed, s.at)]

Loop == [areas : SUBSET Area, at : 0..MAX_ADDRESS]
(* The loop of Walk on the space as: pages that were free stay free, and   *)
(* only unmapping frees others.  It may pass over an area that it has just *)
(* merged, so nothing is said of the pages behind it.                      *)
Underway(as, target, state) ==
    {s \in Loop : /\ s.at >= target /\ Tiled(s.areas) /\ FreeMerged(s.areas)
                  /\ \A v \in Pages : FreePage(as, v) => FreePage(s.areas, v)
                  /\ state # "Free" =>
                        \A v \in Pages : FreePage(s.areas, v) => FreePage(as, v)}

(* What the loop has done to each page of the range up to end, and that it *)
(* is where an area begins.                                                *)
Handled(s, as, target, end, state) ==
    /\ \A v \in Pages : IF target <= v /\ v < end /\ v < s.at
                        THEN Became(At(s.areas, v), At(as, v), state)
                        ELSE At(s.areas, v) = At(as, v)
    /\ s.at < end => s.at \in Bounds(s.areas) /\ (end = MAX_ADDRESS \/ end \in Bounds(s.areas))

(* r is as with the pages of a range changed.                              *)
Rewritten(r, as, target, size, state) ==
    \A v \in Pages : IF InSpan(v, target, size) THEN Became(At(r, v), At(as, v), state)
                     ELSE At(r, v) = At(as, v)

LEMMA OnwardPages ==
    ASSUME NEW as, NEW target \in Nat, NEW end \in Nat, end <= MAX_ADDRESS,
           \A v \in Pages : target <= v /\ v < end => ~FreePage(as, v),
           NEW perms \in Perms, NEW state,
           state \in Used \cup {Kept} \/ (state = "Free" /\ perms = "None"),
           NEW s \in Underway(as, target, state)
    PROVE  Onward(s, end, perms, state) \in Underway(as, target, state)
<1>1. /\ s \in Loop /\ s.at >= target /\ Tiled(s.areas) /\ FreeMerged(s.areas)
      /\ \A v \in Pages : FreePage(as, v) => FreePage(s.areas, v)
      /\ state # "Free" => \A v \in Pages : FreePage(s.areas, v) => FreePage(as, v)
  BY DEF Underway
<1>2. s.at \in Nat /\ s.at <= MAX_ADDRESS
  BY <1>1, Numbers DEF Loop
<1>3. CASE s.at >= end
  BY <1>3 DEF Onward
<1>4. CASE s.at < end
  <2> DEFINE at == s.at
             changed == Change(s.areas, at, perms, state)
             a == FindVMA(changed, at)
             next == [areas |-> changed, at |-> EndOf(changed, at)]
  <2>1. at \in Pages
    BY <1>2, <1>4, Numbers DEF Pages
  <2>2. Onward(s, end, perms, state) = next
    BY <1>2, <1>4 DEF Onward
  <2>3. state = "Free" \/ ~FreePage(s.areas, at)
    BY <1>1, <1>4, <2>1
  <2> HIDE DEF at
  <2>4. /\ Tiled(changed) /\ FreeMerged(changed)
        /\ \A v \in Pages : FreePage(s.areas, v) => FreePage(changed, v)
        /\ state # "Free" => \A v \in Pages : FreePage(changed, v) => FreePage(s.areas, v)
    <3>1. \/ state = "Free" /\ perms = "None"
          \/ state \in Used \cup {Kept} /\ ~FreePage(s.areas, at)
      BY <2>3 DEF Used, Kept
    <3> QED
      BY <1>1, <2>1, <3>1, ChangePages
  <2> HIDE DEF changed
  <2>5. a \in changed /\ Holds(a, at)
    BY <2>1, <2>4, Found
  <2>6. EndOf(changed, at) = a.base + a.size
    BY DEF EndOf
  <2> HIDE DEF a
  <2>7. a \in Area /\ Sound(a)
    BY <2>4, <2>5, TiledAreas
  <2>8. a.base \in Nat /\ a.size \in Nat /\ a.base + a.size <= MAX_ADDRESS /\ at < a.base + a.size
    BY <2>5, <2>7, AreaFields DEF Holds, Sound
  <2>9. EndOf(changed, at) \in 0..MAX_ADDRESS /\ EndOf(changed, at) >= target
    BY <1>1, <1>2, <2>6, <2>8, Numbers DEF at
  <2>10. changed \in SUBSET Area
    BY <2>4, Zenon DEF Tiled
  <2>11. next \in Loop /\ next.areas = changed /\ next.at >= target
    BY <2>9, <2>10 DEF Loop
  <2> HIDE DEF next
  <2> QED
    BY <1>1, <2>2, <2>4, <2>11 DEF Underway
<1>5. s.at >= end \/ s.at < end
  BY <1>2
<1> QED
  BY <1>3, <1>4, <1>5, Zenon

(* A turn changes the pages of an area; those behind it that it passes     *)
(* over are already as they should be, or they would not have been merged. *)
LEMMA OnwardExact ==
    ASSUME NEW as, NEW target \in Nat, NEW end \in Nat, end <= MAX_ADDRESS,
           \A v \in Pages : target <= v /\ v < end => ~FreePage(as, v),
           NEW perms \in Perms, NEW state,
           state \in Used \cup {Kept} \/ (state = "Free" /\ perms = "None"),
           NEW s \in Underway(as, target, state), Handled(s, as, target, end, state), s.at < end,
           NEW t, t = Onward(s, end, perms, state)
    PROVE  Handled(t, as, target, end, state) /\ t.at > s.at
<1> DEFINE at == s.at
           b == s.areas
           a == FindVMA(b, at)
           r == Change(b, at, perms, state)
           e == FindVMA(r, at)
<1>1. /\ s \in Loop /\ at >= target /\ Tiled(b) /\ FreeMerged(b)
      /\ \A v \in Pages : FreePage(as, v) => FreePage(b, v)
      /\ state # "Free" => \A v \in Pages : FreePage(b, v) => FreePage(as, v)
  BY DEF Underway
<1>2. at \in Nat /\ at < end /\ at \in Pages
  <2>1. at \in Nat
    BY <1>1, Numbers DEF Loop
  <2> QED
    BY <2>1, Numbers DEF Pages
<1>3. t.areas = r /\ t.at = EndOf(r, at)
  <2>1. ~(s.at >= end)
    BY <1>2
  <2>2. t = [areas |-> r, at |-> EndOf(r, at)]
    BY <2>1 DEF Onward
  <2> HIDE DEF r, at
  <2> QED
    BY <2>2
<1>4. /\ \A v \in Pages : IF target <= v /\ v < end /\ v < at
                          THEN Became(At(b, v), At(as, v), state)
                          ELSE At(b, v) = At(as, v)
      /\ at \in Bounds(b) /\ (end = MAX_ADDRESS \/ end \in Bounds(b))
  BY DEF Handled
<1>5. EndOf(r, at) = e.base + e.size
  BY DEF EndOf
<1> HIDE DEF at, b
<1>6. a \in b /\ Holds(a, at)
  BY <1>1, <1>2, Found
<1>7. Tiled(r) /\ Altered(r, b, a, perms, state)
  <2>1. state = "Free" \/ ~FreePage(b, at)
    BY <1>1, <1>2
  <2>2. \/ state = "Free" /\ perms = "None"
        \/ state \in Used \cup {Kept} /\ ~FreePage(b, at)
    BY <2>1 DEF Used, Kept
  <2> QED
    BY <1>1, <1>2, <2>2, ChangePages
<1> HIDE DEF r
<1>8. e \in r /\ Holds(e, at)
  BY <1>2, <1>7, Found
<1> HIDE DEF a, e
<1>9. /\ a.base \in Nat /\ a.size \in Nat /\ 1 <= a.size /\ a.base + a.size <= MAX_ADDRESS
      /\ a.base <= at /\ at < a.base + a.size
  <2>1. a \in Area /\ Sound(a)
    BY <1>1, <1>6, TiledAreas
  <2> QED
    BY <1>6, <2>1, AreaFields DEF Holds, Sound
<1>10. /\ e.base \in Nat /\ e.size \in Nat /\ 1 <= e.size /\ e.base + e.size <= MAX_ADDRESS
       /\ e.base <= at /\ at < e.base + e.size
  <2>1. e \in Area /\ Sound(e)
    BY <1>7, <1>8, TiledAreas
  <2> QED
    BY <1>8, <2>1, AreaFields DEF Holds, Sound
<1>11. a.base = at
  BY <1>1, <1>4, <1>6, <1>9, NoBoundInside
<1>12. ~(end < a.base + a.size)
  <2> SUFFICES ASSUME end < a.base + a.size
               PROVE  FALSE
    OBVIOUS
  <2>1. end \in Bounds(b)
    BY <1>4, <1>9
  <2>2. end = a.base
    BY <1>1, <1>2, <1>6, <1>11, <2>1, NoBoundInside
  <2> QED
    BY <1>2, <1>11, <2>2
<1>13. ~(e.base + e.size < a.base + a.size)
  <2> SUFFICES ASSUME e.base + e.size < a.base + a.size
               PROVE  FALSE
    OBVIOUS
  <2>1. e.base + e.size \in Bounds(r)
    BY <1>7, <1>8, <1>9, <1>10, NextArea
  <2>2. e.base + e.size \in Bounds(b)
    BY <1>7, <2>1 DEF Altered
  <2>3. e.base + e.size = a.base
    BY <1>1, <1>6, <1>9, <1>10, <1>11, <2>2, NoBoundInside
  <2> QED
    BY <1>10, <1>11, <2>3
<1>14. \A v \in Pages : IF Holds(a, v) THEN Became(At(r, v), At(b, v), state)
                        ELSE At(r, v) = At(b, v)
  BY <1>7 DEF Altered
<1>15. \A v \in Pages : Holds(a, v) <=> at <= v /\ v < a.base + a.size
  BY <1>11 DEF Holds
<1>20. \A v \in Pages : target <= v /\ v < end /\ v < at => Became(At(b, v), At(as, v), state)
  BY <1>4, Zenon
<1>21. \A v \in Pages : ~(target <= v /\ v < end /\ v < at) => At(b, v) = At(as, v)
  BY <1>4, Zenon
<1>22. \A v \in Pages : ~Holds(a, v) => At(r, v) = At(b, v)
  BY <1>14, Zenon
<1>16. ASSUME NEW v \in Pages, target <= v, v < end, v < EndOf(r, at)
       PROVE  Became(At(r, v), At(as, v), state)
  <2>0. v \in Nat
    BY PageNumber
  <2>1. CASE v < at
    <3>1. ~Holds(a, v) /\ target <= v /\ v < end
      BY <1>2, <1>15, <1>16, <2>0, <2>1
    <3>2. Became(At(b, v), At(as, v), state) /\ At(r, v) = At(b, v)
      BY <1>20, <1>22, <2>1, <3>1
    <3> QED
      BY <3>2
  <2>2. CASE at <= v /\ v < a.base + a.size
    <3>0. ~(v < at)
      BY <1>2, <2>0, <2>2
    <3>1. At(b, v) = At(as, v)
      BY <1>21, <3>0
    <3> QED
      BY <1>14, <1>15, <2>2, <3>1
  <2>3. CASE a.base + a.size <= v
    <3>0. ~(v < at) /\ ~(v < a.base + a.size)
      BY <1>2, <1>9, <2>0, <2>3
    <3>1. At(b, v) = At(as, v) /\ At(r, v) = At(b, v)
      BY <1>15, <1>21, <1>22, <3>0
    <3>2. Holds(e, v)
      <4>1. v < e.base + e.size
        BY <1>5, <1>16
      <4>2. e.base <= v
        BY <1>2, <1>9, <1>10, <2>0, <2>3
      <4> QED
        BY <4>1, <4>2 DEF Holds
    <3>3. At(r, v).state = e.state /\ At(r, at).state = e.state
      <4>1. Page(r, v) = PageOf(e, v) /\ Page(r, at) = PageOf(e, at)
        BY <1>2, <1>7, <1>8, <3>2, PageIs
      <4> QED
        BY <4>1, AtPage DEF PageOf
    <3>4. state = Kept \/ At(r, v).state = state
      <4>1. Became(At(r, at), At(b, at), state)
        BY <1>2, <1>9, <1>14, <1>15
      <4> QED
        BY <3>3, <4>1 DEF Became
    <3>5. state = "Free" => At(r, v).backing = Unbacked
      <4> SUFFICES ASSUME state = "Free"
                   PROVE  FreePage(r, v)
        BY AtPage
      <4>1. Became(At(r, at), At(b, at), state)
        BY <1>2, <1>9, <1>14, <1>15
      <4>2. FreePage(r, at)
        BY <4>1, AtPage DEF Became
      <4>3. IsFree(e)
        BY <1>2, <1>7, <1>8, <4>2, PageIs
      <4> QED
        BY <1>7, <1>8, <3>2, <4>3, PageIs
    <3> QED
      BY <3>1, <3>4, <3>5 DEF Became, Kept
  <2>4. v < at \/ (at <= v /\ v < a.base + a.size) \/ a.base + a.size <= v
    BY <1>2, <1>9, <2>0
  <2> QED
    BY <2>1, <2>2, <2>3, <2>4, Zenon
<1>17. ASSUME NEW v \in Pages, ~(target <= v /\ v < end /\ v < EndOf(r, at))
       PROVE  At(r, v) = At(as, v)
  <2>0. v \in Nat
    BY PageNumber
  <2>1. ~Holds(a, v)
    BY <1>1, <1>2, <1>5, <1>9, <1>10, <1>12, <1>13, <1>15, <1>17, <2>0
  <2>2. ~(target <= v /\ v < end /\ v < at)
    BY <1>2, <1>5, <1>10, <1>17, <2>0
  <2> QED
    BY <1>4, <1>14, <2>1, <2>2
<1>18. EndOf(r, at) < end =>
          EndOf(r, at) \in Bounds(r) /\ (end = MAX_ADDRESS \/ end \in Bounds(r))
  <2> SUFFICES ASSUME EndOf(r, at) < end
               PROVE  EndOf(r, at) \in Bounds(r) /\ (end = MAX_ADDRESS \/ end \in Bounds(r))
    OBVIOUS
  <2>1. EndOf(r, at) \in Bounds(r)
    BY <1>5, <1>7, <1>8, <1>10, NextArea
  <2>2. end # a.base /\ end # a.base + a.size
    BY <1>2, <1>5, <1>9, <1>10, <1>11, <1>13
  <2>3. \A v \in Bounds(b) : v # a.base /\ v # a.base + a.size => v \in Bounds(r)
    BY <1>7 DEF Altered
  <2> QED
    BY <1>4, <2>1, <2>2, <2>3
<1>19. EndOf(r, at) > at
  BY <1>2, <1>5, <1>10
<1> QED
  BY <1>3, <1>16, <1>17, <1>18, <1>19 DEF Handled, at

(* UnmapRange, ReprotectRange and ChangeMemoryState in a range that is in  *)
(* use, although they pass over areas.                                     *)
Walked(r, as, state) ==
    /\ Tiled(r) /\ FreeMerged(r)
    /\ \A v \in Pages : FreePage(as, v) => FreePage(r, v)
    /\ state # "Free" => \A v \in Pages : FreePage(r, v) => FreePage(as, v)

LEMMA WalkPages ==
    ASSUME NEW as, Tiled(as), FreeMerged(as), NEW target \in Nat, NEW size \in Nat, 1 <= size,
           target + size <= MAX_ADDRESS,
           \A v \in Pages : InSpan(v, target, size) => ~FreePage(as, v),
           NEW perms \in Perms, NEW state,
           state \in Used \cup {Kept} \/ (state = "Free" /\ perms = "None"),
           NEW r, r = Walk(as, target, size, perms, state)
    PROVE  Walked(r, as, state) /\ Rewritten(r, as, target, size, state)
<1> DEFINE c == Carve(as, target, size)
           end == target + size
           Start == [areas |-> c, at |-> target]
           State == Underway(as, target, state)
           Body(g) == [n \in 0..size |-> IF n = 0 THEN Start
                                         ELSE Onward(g[n - 1], end, perms, state)]
           walk == CHOOSE g : g = Body(g)
           F == [n \in 1..size |-> [s \in State |-> Onward(s, end, perms, state)]]
           G == [n \in 0..size |-> State]
<1>1. /\ Tiled(c) /\ \A v \in Pages : FreePage(c, v) <=> FreePage(as, v)
      /\ \A v \in Pages : Page(c, v) = Page(as, v)
      /\ \A v : v \in Bounds(c) <=> \/ v \in Bounds(as) \/ v = target
                                    \/ v = target + size /\ v # MAX_ADDRESS
  BY CarvePages
<1>2. FreeMerged(c)
  <2> HIDE DEF c
  <2> SUFFICES ASSUME NEW v \in Bounds(c), v # 0, FreePage(c, v - 1), FreePage(c, v)
               PROVE  FALSE
    BY DEF FreeMerged
  <2>1. v \in Pages /\ v - 1 \in Pages /\ v \in Nat
    BY <1>1, Beside, PageNumber
  <2>2. FreePage(as, v - 1) /\ FreePage(as, v)
    BY <1>1, <2>1
  <2>3. v \notin Bounds(as)
    BY <2>2 DEF FreeMerged
  <2>4. v = target \/ v = target + size
    BY <1>1, <2>3
  <2>5. InSpan(v, target, size) \/ InSpan(v - 1, target, size)
    BY <2>1, <2>4 DEF InSpan
  <2> QED
    BY <2>1, <2>2, <2>5
<1>3. Start \in State
  <2> HIDE DEF c
  <2>1. c \in SUBSET Area
    BY <1>1, Zenon DEF Tiled
  <2>2. Start \in Loop /\ Start.areas = c /\ Start.at = target
    BY <2>1, Numbers DEF Loop
  <2> HIDE DEF Start
  <2>3. Start.at >= target
    BY <2>2
  <2>4. /\ \A v \in Pages : FreePage(as, v) => FreePage(Start.areas, v)
        /\ \A v \in Pages : FreePage(Start.areas, v) => FreePage(as, v)
    BY <1>1, <2>2
  <2>5. Tiled(Start.areas) /\ FreeMerged(Start.areas)
    BY <1>1, <1>2, <2>2
  <2> QED
    BY <2>2, <2>3, <2>4, <2>5, Zenon DEF Underway
<1>4. \A s \in State : Onward(s, end, perms, state) \in State
  <2>1. end \in Nat /\ end <= MAX_ADDRESS
    OBVIOUS
  <2>2. \A v \in Pages : target <= v /\ v < end => ~FreePage(as, v)
    BY DEF InSpan
  <2> HIDE DEF end
  <2> QED
    BY <2>1, <2>2, OnwardPages
<1> HIDE DEF State, Start
<1>5. \A n \in 1..size, s \in State : F[n][s] = Onward(s, end, perms, state)
  OBVIOUS
<1>6. G \in [0..size -> SUBSET State] /\ \A n \in 0..size : G[n] = State
  OBVIOUS
<1>7. \E g : g = Body(g)
  <2> HIDE DEF F, G
  <2>0. \A i \in 1..size : i \in 0..size /\ i - 1 \in 0..size
    OBVIOUS
  <2>1. \A i \in 1..size : \A s \in G[i - 1] : F[i][s] \in G[i]
    BY <1>4, <1>5, <1>6, <2>0
  <2>2. Start \in G[0]
    BY <1>3, <1>6
  <2>3. Courses(State, G, Start, F, size) # {}
    BY <1>6, <2>1, <2>2, Iteration
  <2>4. PICK g \in [0..size -> State] : g[0] = Start /\ \A i \in 1..size : g[i] = F[i][g[i - 1]]
    BY <2>3 DEF Courses
  <2>5. \A i \in 1..size : g[i] = Onward(g[i - 1], end, perms, state)
    BY <1>5, <2>0, <2>4
  <2>6. \A i \in 0..size : i = 0 \/ i \in 1..size
    OBVIOUS
  <2>7. g = [i \in 0..size |-> g[i]]
    BY <2>4
  <2>8. g = Body(g)
    BY <2>4, <2>5, <2>6, <2>7
  <2> QED
    BY <2>8
<1>8. walk = Body(walk)
  <2> HIDE DEF Body
  <2> QED
    BY <1>7
<1>9. r = walk[size].areas
  BY DEF Walk, Onward, Start
<1> HIDE DEF walk
<1>10. walk[0] = Start /\ \A n \in 1..size : walk[n] = Onward(walk[n - 1], end, perms, state)
  <2>1. 0 \in 0..size /\ \A n \in 1..size : n \in 0..size /\ n # 0
    OBVIOUS
  <2> QED
    BY <1>8, <2>1
<1>12. Handled(Start, as, target, end, state)
  <2>1. ASSUME NEW v \in Pages
        PROVE  At(c, v) = At(as, v)
    <3>1. Page(c, v) = Page(as, v)
      BY <1>1
    <3> HIDE DEF c
    <3> QED
      BY <3>1, AtPage
  <2>2. target \in Bounds(c) /\ (end = MAX_ADDRESS \/ end \in Bounds(c))
    BY <1>1
  <2>3. Start.areas = c /\ Start.at = target
    BY DEF Start
  <2>4. \A v \in Pages : ~(target <= v /\ v < target)
    BY PageNumber
  <2> HIDE DEF c, end
  <2> QED
    BY <2>1, <2>2, <2>3, <2>4 DEF Handled
<1>13. walk[size].at \in Nat /\ walk[size].at >= end
       /\ Handled(walk[size], as, target, end, state)
  <2> DEFINE P(n) == /\ walk[n] \in State /\ Handled(walk[n], as, target, end, state)
                     /\ walk[n].at >= end \/ walk[n].at >= target + n
             T == {n \in 0..size : P(n)}
  <2>1. 0 \in T
    <3>1. Start.at = target /\ target >= target + 0
      BY DEF Start
    <3>2. P(0)
      BY <1>3, <1>10, <1>12, <3>1
    <3>3. 0 \in 0..size
      OBVIOUS
    <3> HIDE DEF P
    <3> QED
      BY <3>2, <3>3
  <2>2. ASSUME NEW n \in 1..size, n - 1 \in T
        PROVE  n \in T
    <3> DEFINE s == walk[n - 1]
               t == walk[n]
    <3>1. /\ s \in State /\ Handled(s, as, target, end, state)
          /\ s.at >= end \/ s.at >= target + (n - 1)
      <4>1. P(n - 1)
        BY <2>2
      <4> QED
        BY <4>1
    <3>2. t = Onward(s, end, perms, state)
      BY <1>10
    <3> HIDE DEF s, t
    <3>3. t \in State
      BY <1>4, <3>1, <3>2
    <3>4. s.at \in Nat /\ t.at \in Nat
      BY <3>1, <3>3, Numbers DEF State, Underway, Loop
    <3>5. Handled(t, as, target, end, state) /\ (t.at >= end \/ t.at >= target + n)
      <4>1. CASE s.at >= end
        BY <3>1, <3>2, <4>1 DEF Onward
      <4>2. CASE s.at < end
        <5>1. end \in Nat /\ end <= MAX_ADDRESS
          OBVIOUS
        <5>2. \A v \in Pages : target <= v /\ v < end => ~FreePage(as, v)
          BY DEF InSpan
        <5> HIDE DEF end
        <5>3. Handled(t, as, target, end, state) /\ t.at > s.at
          BY <3>1, <3>2, <4>2, <5>1, <5>2, OnwardExact DEF State
        <5>4. s.at >= target + (n - 1)
          BY <3>1, <3>4, <4>2, <5>1
        <5>5. t.at >= target + n
          BY <3>4, <5>3, <5>4
        <5> QED
          BY <5>3, <5>5
      <4>3. s.at >= end \/ s.at < end
        BY <3>4
      <4> QED
        BY <4>1, <4>2, <4>3, Zenon
    <3>6. n \in 0..size
      OBVIOUS
    <3> QED
      BY <3>3, <3>5, <3>6 DEF t
  <2>3. 0..size \subseteq T
    <3> HIDE DEF T
    <3> QED
      BY <2>1, <2>2, UpTo
  <2>4. P(size)
    <3>1. size \in 0..size
      OBVIOUS
    <3>2. size \in T
      BY <2>3, <3>1
    <3> QED
      BY <3>2
  <2>5. walk[size].at \in Nat
    <3>1. walk[size] \in State
      BY <2>4
    <3>2. walk[size] \in Loop
      BY <3>1 DEF State, Underway
    <3> QED
      BY <3>2, Numbers DEF Loop
  <2>6. walk[size].at >= end \/ walk[size].at >= target + size
    BY <2>4
  <2> QED
    BY <2>4, <2>5, <2>6
<1>14. Rewritten(r, as, target, size, state)
  <2> SUFFICES ASSUME NEW v \in Pages
               PROVE  IF InSpan(v, target, size) THEN Became(At(r, v), At(as, v), state)
                      ELSE At(r, v) = At(as, v)
    BY DEF Rewritten
  <2>1. InSpan(v, target, size) <=> target <= v /\ v < end /\ v < walk[size].at
    BY <1>13, PageNumber DEF InSpan
  <2>2. IF target <= v /\ v < end /\ v < walk[size].at
        THEN Became(At(r, v), At(as, v), state) ELSE At(r, v) = At(as, v)
    <3> HIDE DEF end
    <3> QED
      BY <1>9, <1>13 DEF Handled
  <2> QED
    BY <2>1, <2>2, Zenon
<1>11. walk[size] \in State
  <2> DEFINE T == {n \in 0..size : walk[n] \in State}
  <2>1. 0 \in T
    BY <1>3, <1>10
  <2>2. \A n \in 1..size : n - 1 \in T => n \in T
    BY <1>4, <1>10
  <2> HIDE DEF T
  <2>3. 0..size \subseteq T
    BY <2>1, <2>2, UpTo
  <2> QED
    BY <2>3 DEF T
<1> QED
  BY <1>9, <1>11, <1>14 DEF State, Underway, Walked

(***************************************************************************)
(* Blocks that are mapped one after the other.                             *)
(***************************************************************************)
(* Blocks are somewhere in a range of a size, apart, and in FCRAM.         *)
BlocksFit(blocks, size) ==
    /\ blocks \in Seq(Block)
    /\ \A i \in 1..Len(blocks) :
          /\ 1 <= blocks[i].size /\ blocks[i].at + blocks[i].size <= size
          /\ blocks[i].backing + blocks[i].size <= Frames
    /\ \A i, j \in 1..Len(blocks) :
          i < j => blocks[i].at + blocks[i].size <= blocks[j].at

OneMapped(as, target, b, state, perms) ==
    Reprotect(MapBackingMemory(as, target + b.at, b.backing, b.size, state),
              target + b.at, perms)

LEMMA OneMappedPages ==
    ASSUME NEW as, Tiled(as), FreeMerged(as), NEW target \in Nat, NEW b \in Block, 1 <= b.size,
           target + b.at + b.size <= MAX_ADDRESS, b.backing + b.size <= Frames,
           \A v \in Pages : InSpan(v, target + b.at, b.size) => FreePage(as, v),
           NEW state \in Used, NEW perms \in Perms,
           NEW r, r = OneMapped(as, target, b, state, perms)
    PROVE  /\ Tiled(r) /\ FreeMerged(r)
           /\ \A v \in Pages :
                 FreePage(r, v) <=> FreePage(as, v) /\ ~InSpan(v, target + b.at, b.size)
           /\ Backs(r, as, target + b.at, b.size, b.backing, state)
<1> DEFINE start == target + b.at
           size == b.size
           backing == b.backing
           m == MapBackingMemory(as, start, backing, size, state)
<1>1. start \in Nat /\ size \in Nat /\ backing \in Nat
  BY DEF Block
<1>2. r = Change(m, start, perms, Kept)
  BY DEF OneMapped, Reprotect
<1>3. 1 <= size /\ start + size <= MAX_ADDRESS /\ backing + size <= Frames
      /\ \A v \in Pages : InSpan(v, start, size) => FreePage(as, v)
  OBVIOUS
<1>8. target + b.at = start /\ b.size = size /\ b.backing = backing
  OBVIOUS
<1>0. \A v : InSpan(v, target + b.at, b.size) = InSpan(v, start, size)
  OBVIOUS
<1>9. m = MapBackingMemory(as, start, backing, size, state)
  OBVIOUS
<1> HIDE DEF start, size, backing, m
<1>4. /\ Tiled(m) /\ FreeMerged(m)
      /\ \A v \in Pages : FreePage(m, v) <=> FreePage(as, v) /\ ~InSpan(v, start, size)
      /\ Backs(m, as, start, size, backing, state)
  <2>1. Filled(m, as, start, size) /\ Backs(m, as, start, size, backing, state)
    BY <1>1, <1>3, <1>9, MapPages
  <2> QED
    BY <2>1 DEF Filled
<1>5. start \in Pages /\ InSpan(start, start, size)
  BY <1>1, <1>3, Numbers DEF Pages, InSpan
<1>6. Kept \in Used \cup {Kept} /\ Kept # "Free" /\ ~FreePage(m, start)
  BY <1>4, <1>5 DEF Kept
<1>7. /\ Tiled(r) /\ FreeMerged(r)
      /\ \A v \in Pages : FreePage(m, v) => FreePage(r, v)
      /\ Kept # "Free" => \A v \in Pages : FreePage(r, v) => FreePage(m, v)
      /\ Altered(r, m, FindVMA(m, start), perms, Kept)
  BY <1>2, <1>4, <1>5, <1>6, ChangePages
<1>10. \A v \in Pages : At(r, v) = At(m, v)
  <2> SUFFICES ASSUME NEW v \in Pages, Became(At(r, v), At(m, v), Kept)
               PROVE  At(r, v) = At(m, v)
    BY <1>7 DEF Altered
  <2>1. At(r, v).backing = At(m, v).backing /\ At(r, v).state = At(m, v).state
    BY <1>6 DEF Became
  <2> QED
    BY <2>1, AtPage
<1>11. Backs(r, as, start, size, backing, state)
  BY <1>4, <1>10 DEF Backs
<1>12. Backs(r, as, target + b.at, b.size, b.backing, state)
  BY <1>8, <1>11
<1> QED
  BY <1>0, <1>4, <1>6, <1>7, <1>12

(* A page that is part of a block; and a space in which blocks are mapped. *)
FromBlock(r, v, target, b, state) ==
    /\ InSpan(v, target + b.at, b.size)
    /\ At(r, v) = [backing |-> b.backing + (v - (target + b.at)), state |-> state]
MappedUpTo(r, as, target, blocks, i, state) ==
    \A v \in Pages :
        \/ \E j \in 1..i : FromBlock(r, v, target, blocks[j], state)
        \/ /\ At(r, v) = At(as, v)
           /\ \A j \in 1..i : ~InSpan(v, target + blocks[j].at, blocks[j].size)

(* The blocks of shared memory in a range of free pages.                   *)
Placed(r, as, target, size) ==
    /\ Tiled(r) /\ FreeMerged(r)
    /\ \A v \in Pages : ~InSpan(v, target, size) => (FreePage(r, v) <=> FreePage(as, v))

LEMMA BlocksMapped ==
    ASSUME NEW as, Tiled(as), FreeMerged(as), NEW target \in Nat, NEW size \in Nat,
           target + size <= MAX_ADDRESS,
           \A v \in Pages : InSpan(v, target, size) => FreePage(as, v),
           NEW blocks, BlocksFit(blocks, size), NEW state \in Used, NEW perms \in Perms,
           NEW r, r = MapBlocks(as, target, blocks, state, perms)
    PROVE  Placed(r, as, target, size) /\ MappedUpTo(r, as, target, blocks, Len(blocks), state)
<1>1. PICK n \in Nat : n = Len(blocks)
  BY DEF BlocksFit
<1> DEFINE Good(i) ==
              {s \in SUBSET Area :
                  /\ Tiled(s) /\ FreeMerged(s)
                  /\ MappedUpTo(s, as, target, blocks, i, state)
                  /\ \A v \in Pages : ~InSpan(v, target, size) => (FreePage(s, v) <=> FreePage(as, v))
                  /\ \A j \in (i + 1)..n : \A v \in Pages :
                        InSpan(v, target + blocks[j].at, blocks[j].size) => FreePage(s, v)}
           G == [i \in 0..n |-> Good(i)]
           F == [i \in 1..n |-> [s \in SUBSET Area |-> OneMapped(s, target, blocks[i], state, perms)]]
           Body(g) == [i \in 0..n |-> IF i = 0 THEN as
                                      ELSE OneMapped(g[i - 1], target, blocks[i], state, perms)]
           mapped == CHOOSE g : g = Body(g)
<1>2. \A i \in 1..n : /\ blocks[i] \in Block /\ 1 <= blocks[i].size
                      /\ blocks[i].at \in Nat /\ blocks[i].size \in Nat
                      /\ blocks[i].at + blocks[i].size <= size
                      /\ blocks[i].backing + blocks[i].size <= Frames
  <2>1. \A i \in 1..n : blocks[i] \in Block
    BY <1>1 DEF BlocksFit
  <2> QED
    BY <1>1, <2>1 DEF BlocksFit, Block
<1>3. \A i, j \in 1..n : i < j => blocks[i].at + blocks[i].size <= blocks[j].at
  BY <1>1 DEF BlocksFit
<1>4. ASSUME NEW j \in 1..n, NEW v \in Pages, InSpan(v, target + blocks[j].at, blocks[j].size)
      PROVE  InSpan(v, target, size)
  <2>1. v \in Nat
    BY PageNumber
  <2> QED
    BY <1>2, <1>4, <2>1 DEF InSpan
<1>5. as \in Good(0)
  <2>1. as \in SUBSET Area
    BY Zenon DEF Tiled
  <2>2. \A j \in 1..n : \A v \in Pages :
           InSpan(v, target + blocks[j].at, blocks[j].size) => FreePage(as, v)
    BY <1>4
  <2>3. \A j \in (0 + 1)..n : j \in 1..n
    OBVIOUS
  <2>4. \A j \in (0 + 1)..n : \A v \in Pages :
           InSpan(v, target + blocks[j].at, blocks[j].size) => FreePage(as, v)
    BY <2>2, <2>3, Zenon
  <2>5. MappedUpTo(as, as, target, blocks, 0, state)
    <3>1. 1..0 = {}
      OBVIOUS
    <3> QED
      BY <3>1 DEF MappedUpTo
  <2> QED
    BY <2>1, <2>4, <2>5, Zenon
<1>6. ASSUME NEW i \in 1..n, NEW s \in Good(i - 1)
      PROVE  OneMapped(s, target, blocks[i], state, perms) \in Good(i)
  <2> DEFINE t == OneMapped(s, target, blocks[i], state, perms)
             b == blocks[i]
  <2>1. /\ Tiled(s) /\ FreeMerged(s)
        /\ \A v \in Pages : ~InSpan(v, target, size) => (FreePage(s, v) <=> FreePage(as, v))
        /\ MappedUpTo(s, as, target, blocks, i - 1, state)
    OBVIOUS
  <2>2. \A j \in i..n : \A v \in Pages :
           InSpan(v, target + blocks[j].at, blocks[j].size) => FreePage(s, v)
    OBVIOUS
  <2>3. /\ b \in Block /\ 1 <= b.size /\ b.at \in Nat /\ b.size \in Nat /\ b.at + b.size <= size
        /\ b.backing + b.size <= Frames
    BY <1>2
  <2>4. \A v \in Pages : InSpan(v, target + b.at, b.size) => FreePage(s, v)
    BY <2>2
  <2>5. target + b.at + b.size <= MAX_ADDRESS
    BY <2>3, Numbers
  <2>6. t = OneMapped(s, target, b, state, perms)
    OBVIOUS
  <2>7. \A v \in Pages : InSpan(v, target + b.at, b.size) => InSpan(v, target, size)
    BY <1>4
  <2> HIDE DEF t, b
  <2>8. /\ Tiled(t) /\ FreeMerged(t)
        /\ \A v \in Pages : FreePage(t, v) <=> FreePage(s, v) /\ ~InSpan(v, target + b.at, b.size)
        /\ Backs(t, s, target + b.at, b.size, b.backing, state)
    BY <2>1, <2>3, <2>4, <2>5, <2>6, OneMappedPages
  <2>9. \A v \in Pages : ~InSpan(v, target, size) => (FreePage(t, v) <=> FreePage(as, v))
    BY <2>1, <2>7, <2>8
  <2>10. ASSUME NEW j \in (i + 1)..n, NEW v \in Pages,
                InSpan(v, target + blocks[j].at, blocks[j].size)
         PROVE  FreePage(t, v)
    <3>1. j \in 1..n /\ i < j /\ j \in i..n
      OBVIOUS
    <3>2. b.at + b.size <= blocks[j].at
      BY <1>3, <3>1 DEF b
    <3>3. v \in Nat /\ blocks[j].at \in Nat /\ blocks[j].size \in Nat
      BY <1>2, <3>1, PageNumber
    <3>4. ~InSpan(v, target + b.at, b.size)
      BY <2>3, <2>10, <3>2, <3>3 DEF InSpan
    <3>5. FreePage(s, v)
      BY <2>2, <2>10, <3>1
    <3> QED
      BY <2>8, <3>4, <3>5
  <2>11. t \in SUBSET Area
    BY <2>8, Zenon DEF Tiled
  <2>13. ASSUME NEW v \in Pages
         PROVE  \/ \E j \in 1..i : FromBlock(t, v, target, blocks[j], state)
                \/ /\ At(t, v) = At(as, v)
                   /\ \A j \in 1..i : ~InSpan(v, target + blocks[j].at, blocks[j].size)
    <3>1. i \in 1..i /\ (\A j \in 1..(i - 1) : j \in 1..i)
          /\ \A j \in 1..i : j = i \/ j \in 1..(i - 1)
      OBVIOUS
    <3>2. CASE InSpan(v, target + b.at, b.size)
      <4>1. FromBlock(t, v, target, b, state)
        BY <2>8, <3>2 DEF Backs, FromBlock
      <4> QED
        BY <3>1, <4>1 DEF b
    <3>3. CASE ~InSpan(v, target + b.at, b.size)
      <4>1. At(t, v) = At(s, v)
        BY <2>8, <3>3 DEF Backs
      <4>2. CASE \E j \in 1..(i - 1) : FromBlock(s, v, target, blocks[j], state)
        <5>1. PICK j \in 1..(i - 1) : FromBlock(s, v, target, blocks[j], state)
          BY <4>2
        <5>2. FromBlock(t, v, target, blocks[j], state)
          BY <4>1, <5>1 DEF FromBlock
        <5> QED
          BY <3>1, <5>2
      <4>3. CASE /\ At(s, v) = At(as, v)
                 /\ \A j \in 1..(i - 1) : ~InSpan(v, target + blocks[j].at, blocks[j].size)
        BY <3>1, <3>3, <4>1, <4>3 DEF b
      <4> QED
        BY <2>1, <4>2, <4>3 DEF MappedUpTo
    <3> QED
      BY <3>2, <3>3
  <2>14. MappedUpTo(t, as, target, blocks, i, state)
    BY <2>13 DEF MappedUpTo
  <2>12. t \in Good(i)
    BY <2>8, <2>9, <2>10, <2>11, <2>14
  <2> QED
    BY <2>12 DEF t
<1>7. \A i \in 0..n : Good(i) \in SUBSET SUBSET Area
  OBVIOUS
<1> HIDE DEF Good
<1>8. G \in [0..n -> SUBSET SUBSET Area] /\ \A i \in 0..n : G[i] = Good(i)
  BY <1>7
<1>9. \A i \in 1..n, s \in SUBSET Area : F[i][s] = OneMapped(s, target, blocks[i], state, perms)
  OBVIOUS
<1>10. \A i \in 1..n : i \in 0..n /\ i - 1 \in 0..n
  OBVIOUS
<1>11. \E g : g = Body(g)
  <2> HIDE DEF F, G
  <2>1. \A i \in 1..n : \A s \in G[i - 1] : F[i][s] \in G[i]
    BY <1>6, <1>7, <1>8, <1>9, <1>10
  <2>0. 0 \in 0..n
    OBVIOUS
  <2>2. as \in G[0]
    BY <1>5, <1>8, <2>0
  <2>3. Courses(SUBSET Area, G, as, F, n) # {}
    BY <1>8, <2>1, <2>2, Iteration
  <2>4. PICK g \in [0..n -> SUBSET Area] : g[0] = as /\ \A i \in 1..n : g[i] = F[i][g[i - 1]]
    BY <2>3 DEF Courses
  <2>5. \A i \in 1..n : g[i] = OneMapped(g[i - 1], target, blocks[i], state, perms)
    BY <1>9, <1>10, <2>4
  <2>6. \A i \in 0..n : i = 0 \/ i \in 1..n
    OBVIOUS
  <2>7. g = [i \in 0..n |-> g[i]]
    BY <2>4
  <2>8. g = Body(g)
    BY <2>4, <2>5, <2>6, <2>7
  <2> QED
    BY <2>8
<1>12. mapped = Body(mapped)
  <2> HIDE DEF Body
  <2> QED
    BY <1>11
<1>13. r = mapped[n]
  BY <1>1 DEF MapBlocks, OneMapped
<1> HIDE DEF mapped
<1>14. mapped[0] = as
       /\ \A i \in 1..n : mapped[i] = OneMapped(mapped[i - 1], target, blocks[i], state, perms)
  <2>1. 0 \in 0..n /\ \A i \in 1..n : i \in 0..n /\ i # 0
    OBVIOUS
  <2> QED
    BY <1>12, <2>1
<1>15. mapped[n] \in Good(n)
  <2> DEFINE T == {i \in 0..n : mapped[i] \in Good(i)}
  <2>0. 0 \in 0..n
    OBVIOUS
  <2>1. 0 \in T
    BY <1>5, <1>14, <2>0, Zenon
  <2>2. \A i \in 1..n : i - 1 \in T => i \in T
    BY <1>6, <1>10, <1>14
  <2> HIDE DEF T
  <2>3. 0..n \subseteq T
    BY <2>1, <2>2, UpTo
  <2> QED
    BY <2>3 DEF T
<1> QED
  BY <1>1, <1>13, <1>15 DEF Good, Placed

(***************************************************************************)
(* The numbers of a set in their order.                                    *)
(***************************************************************************)
Below(S, x) == {y \in S : y < x}
Rank(S, x) == Cardinality(Below(S, x))

LEMMA RankOrder ==
    ASSUME NEW S \in SUBSET Nat, IsFiniteSet(S), NEW x \in S
    PROVE  /\ Rank(S, x) \in 0..(Cardinality(S) - 1)
           /\ \A y \in S : x < y => Rank(S, x) < Rank(S, y)
<1>0. Cardinality(S) \in Nat
  BY FS_CardinalityType
<1>1. \A y \in S : Below(S, y) \in SUBSET S /\ IsFiniteSet(Below(S, y)) /\ Rank(S, y) \in Nat
  BY FS_Subset, FS_CardinalityType DEF Below, Rank
<1>2. Rank(S, x) < Cardinality(S)
  <2>1. x \notin Below(S, x)
    BY DEF Below
  <2>2. Rank(S, x) <= Cardinality(S) /\ Rank(S, x) # Cardinality(S)
    BY <1>1, <2>1, FS_Subset DEF Rank
  <2> QED
    BY <1>0, <1>1, <2>2
<1>3. ASSUME NEW y \in S, x < y
      PROVE  Rank(S, x) < Rank(S, y)
  <2>1. Below(S, x) \in SUBSET Below(S, y)
    <3>1. x \in Nat /\ y \in Nat /\ \A z \in S : z \in Nat
      OBVIOUS
    <3>2. \A z \in S : z < x => z < y
      BY <1>3, <3>1
    <3> QED
      BY <3>2, Zenon DEF Below
  <2>2. x \in Below(S, y) /\ x \notin Below(S, x)
    BY <1>3 DEF Below
  <2>3. Rank(S, x) <= Rank(S, y) /\ Rank(S, x) # Rank(S, y)
    BY <1>1, <2>1, <2>2, FS_Subset DEF Rank
  <2> QED
    BY <1>1, <2>3
<1> QED
  BY <1>0, <1>1, <1>2, <1>3

LEMMA RankOnto ==
    ASSUME NEW S \in SUBSET Nat, IsFiniteSet(S), NEW i \in 0..(Cardinality(S) - 1)
    PROVE  \E x \in S : Rank(S, x) = i
<1> DEFINE n == Cardinality(S)
           R == [x \in S |-> Rank(S, x)]
           T == 0..(n - 1)
<1>1. n \in Nat
  BY FS_CardinalityType
<1>2. IsFiniteSet(T) /\ Cardinality(T) = n
  BY <1>1, FS_Interval
<1>3. R \in Injection(S, T)
  <2>1. R \in [S -> T]
    BY RankOrder
  <2>2. \A x, y \in S : R[x] = R[y] => x = y
    <3> SUFFICES ASSUME NEW x \in S, NEW y \in S, Rank(S, x) = Rank(S, y), x # y
                 PROVE  FALSE
      OBVIOUS
    <3>1. x < y \/ y < x
      OBVIOUS
    <3>2. Rank(S, x) < Rank(S, y) \/ Rank(S, y) < Rank(S, x)
      BY <3>1, RankOrder
    <3>3. Rank(S, x) \in Nat /\ Rank(S, y) \in Nat
      BY <1>1, RankOrder
    <3> QED
      BY <3>2, <3>3
  <2>3. \A x, y \in DOMAIN R : R[x] = R[y] => x = y
    BY <2>2
  <2> HIDE DEF R, T
  <2> QED
    BY <2>1, <2>3 DEF Injection, IsInjective
<1>4. R \in Surjection(S, T)
  <2> HIDE DEF R, T
  <2> QED
    BY <1>2, <1>3, FS_Injection
<1>5. \E x \in S : R[x] = i
  <2>1. i \in T
    OBVIOUS
  <2> HIDE DEF R, T
  <2> QED
    BY <1>4, <2>1 DEF Surjection
<1> QED
  BY <1>5

LEMMA AscendingOrder ==
    ASSUME NEW S \in SUBSET Nat, IsFiniteSet(S), NEW s, s = Ascending(S)
    PROVE  /\ Cardinality(S) \in Nat /\ Len(s) = Cardinality(S)
           /\ \A i \in 1..Len(s) : s[i] \in S /\ s[i] \in Nat
           /\ \A i, j \in 1..Len(s) : i < j => s[i] < s[j]
<1> DEFINE n == Cardinality(S)
<1>1. n \in Nat
  BY FS_CardinalityType
<1>2. s = [i \in 1..n |-> CHOOSE x \in S : Rank(S, x) = i - 1]
  BY DEF Ascending, Rank, Below
<1>3. ASSUME NEW i \in 1..n
      PROVE  s[i] \in S /\ Rank(S, s[i]) = i - 1
  <2>1. i - 1 \in 0..(n - 1)
    BY <1>1
  <2>2. \E x \in S : Rank(S, x) = i - 1
    BY <2>1, RankOnto
  <2>3. s[i] = CHOOSE x \in S : Rank(S, x) = i - 1
    BY <1>2
  <2> QED
    BY <2>2, <2>3, Zenon
<1>4. Len(s) = n
  <2>1. s \in [1..n -> S]
    BY <1>2, <1>3
  <2>2. s \in Seq(S)
    BY <1>1, <2>1, SeqDef
  <2> QED
    BY <1>1, <2>1, <2>2, LenProperties
<1>5. ASSUME NEW i \in 1..n, NEW j \in 1..n, i < j
      PROVE  s[i] < s[j]
  <2>1. s[i] \in S /\ s[j] \in S /\ Rank(S, s[i]) = i - 1 /\ Rank(S, s[j]) = j - 1
    BY <1>3
  <2>2. s[i] # s[j]
    BY <1>1, <1>5, <2>1
  <2>3. s[j] < s[i] => Rank(S, s[j]) < Rank(S, s[i])
    BY <2>1, RankOrder
  <2>4. s[i] \in Nat /\ s[j] \in Nat
    BY <2>1
  <2>5. i - 1 < j - 1
    BY <1>1, <1>5
  <2>6. ~(s[j] < s[i])
    BY <1>1, <2>1, <2>3, <2>5
  <2> QED
    BY <2>2, <2>4, <2>6
<1> HIDE DEF n
<1> QED
  BY <1>1, <1>3, <1>4, <1>5 DEF n

LEMMA LowestIn ==
    ASSUME NEW S \in SUBSET Nat, S # {}
    PROVE  Lowest(S) \in S
<1>1. \E f \in S : \A g \in S : f <= g
  BY MinNat
<1> QED
  BY <1>1, Zenon DEF Lowest

(* HeapAllocate finds pages if there are enough.                           *)
LEMMA HighestExist ==
    ASSUME NEW S \in SUBSET Nat, IsFiniteSet(S), NEW size \in Nat, size <= Cardinality(S)
    PROVE  HighestPages(S, size) \in SUBSET S /\ Cardinality(HighestPages(S, size)) = size
<1> DEFINE n == Cardinality(S)
           H == {x \in S : Rank(S, x) >= n - size}
           T == (n - size)..(n - 1)
           R == [x \in H |-> Rank(S, x)]
<1>1. n \in Nat
  BY FS_CardinalityType
<1>2. IsFiniteSet(T) /\ Cardinality(T) = size
  <2>1. n - size \in Int /\ n - 1 \in Int /\ size <= n
    BY <1>1
  <2>2. IsFiniteSet(T) /\ Cardinality(T) = IF n - size > n - 1 THEN 0 ELSE n - 1 - (n - size) + 1
    BY <2>1, FS_Interval
  <2>3. (IF n - size > n - 1 THEN 0 ELSE n - 1 - (n - size) + 1) = size
    BY <1>1
  <2> QED
    BY <2>2, <2>3
<1>3. \A x \in S : Rank(S, x) \in 0..(n - 1)
  BY RankOrder
<1>10. \A x \in H : Rank(S, x) \in T
  BY <1>1, <1>3
<1>4. \A x, y \in S : x < y => Rank(S, x) < Rank(S, y)
  BY RankOrder
<1>5. R \in Injection(H, T)
  <2>1. R \in [H -> T]
    BY <1>10, Zenon
  <2>2. \A x, y \in H : R[x] = R[y] => x = y
    <3> SUFFICES ASSUME NEW x \in S, NEW y \in S, Rank(S, x) = Rank(S, y), x # y
                 PROVE  FALSE
      OBVIOUS
    <3>1. x < y \/ y < x
      OBVIOUS
    <3>3. Rank(S, x) \in Nat /\ Rank(S, y) \in Nat
      BY <1>1, <1>3
    <3> QED
      BY <1>4, <3>1, <3>3
  <2>3. \A x, y \in DOMAIN R : R[x] = R[y] => x = y
    BY <2>2
  <2> HIDE DEF R, T, H
  <2> QED
    BY <2>1, <2>3 DEF Injection, IsInjective
<1>6. R \in Surjection(H, T)
  <2>1. R \in [H -> T]
    BY <1>10, Zenon
  <2>2. ASSUME NEW i \in T
        PROVE  \E x \in H : R[x] = i
    <3>1. i \in 0..(n - 1)
      BY <1>1
    <3>2. PICK x \in S : Rank(S, x) = i
      BY <3>1, RankOnto
    <3> QED
      BY <1>1, <3>2
  <2> HIDE DEF R, T, H
  <2> QED
    BY <2>1, <2>2 DEF Surjection
<1>7. Cardinality(H) = size
  <2> HIDE DEF R, T, H
  <2> QED
    BY <1>2, <1>5, <1>6, FS_Injection
<1>8. H \in SUBSET S /\ \A f \in H, g \in S \ H : f > g
  <2>1. ASSUME NEW f \in H, NEW g \in S \ H
        PROVE  f > g
    <3>1. f # g /\ Rank(S, g) < Rank(S, f)
      BY <1>1, <1>3
    <3>2. f < g => Rank(S, f) < Rank(S, g)
      BY <1>4
    <3>3. Rank(S, f) \in Nat /\ Rank(S, g) \in Nat
      BY <1>1, <1>3
    <3> QED
      BY <3>1, <3>2, <3>3
  <2> QED
    BY <2>1
<1> HIDE DEF H
<1>9. \E X \in SUBSET S : Cardinality(X) = size /\ \A f \in X, g \in S \ X : f > g
  BY <1>7, <1>8
<1> QED
  BY <1>9, Zenon DEF HighestPages

(***************************************************************************)
(* The blocks that are mapped: pages of FCRAM, or what is behind a range.  *)
(***************************************************************************)
LEMMA MakeSeq ==
    ASSUME NEW n \in Nat, NEW T, NEW s, s = [i \in 1..n |-> s[i]], \A i \in 1..n : s[i] \in T
    PROVE  s \in Seq(T) /\ Len(s) = n
<1>1. s \in [1..n -> T]
  OBVIOUS
<1>2. s \in Seq(T)
  BY <1>1, SeqDef
<1> QED
  BY <1>1, <1>2, LenProperties

LEMMA RowLength ==
    ASSUME NEW S \in SUBSET FCRAM, IsFiniteSet(S), NEW f \in S
    PROVE  \E n \in 1..Cardinality(S) : Span(f, n) \subseteq S /\ f + n \notin S
<1> DEFINE M == {m \in Nat : 1 <= m /\ f + m \notin S}
<1>0. f \in Nat /\ f < Frames /\ Frames \in Nat /\ \A x \in S : x \in Nat /\ x < Frames
  BY Numbers
<1>1. Frames \in M
  BY <1>0
<1>2. PICK n \in M : \A m \in M : n <= m
  <2>1. M \subseteq Nat /\ M # {}
    BY <1>1
  <2> HIDE DEF M
  <2> QED
    BY <2>1, MinNat
<1>3. n \in Nat /\ 1 <= n /\ f + n \notin S
  OBVIOUS
<1>4. Span(f, n) \subseteq S
  <2> SUFFICES ASSUME NEW x \in f..(f + n - 1), x \notin S
               PROVE  FALSE
    BY DEF Span
  <2>1. x # f /\ x \in Nat /\ x > f /\ x - f < n
    BY <1>0, <1>3
  <2>2. x - f \in M
    <3>1. f + (x - f) = x /\ x - f \in Nat /\ 1 <= x - f
      BY <1>0, <2>1
    <3> QED
      BY <3>1
  <2> HIDE DEF M
  <2>3. n <= x - f
    BY <1>2, <2>2
  <2> QED
    BY <1>0, <1>3, <2>1, <2>3
<1>5. Cardinality(Span(f, n)) = n
  BY <1>0, <1>3, FS_Interval DEF Span
<1>6. n <= Cardinality(S) /\ Cardinality(S) \in Nat
  BY <1>4, <1>5, FS_Subset, FS_CardinalityType
<1> QED
  BY <1>3, <1>4, <1>6

LEMMA RowRank ==
    ASSUME NEW S \in SUBSET Nat, IsFiniteSet(S), NEW f \in Nat, NEW n \in Nat, Span(f, n) \subseteq S
    PROVE  Rank(S, f) \in Nat /\ Cardinality(Below(S, f + n)) = Rank(S, f) + n
<1>1. IsFiniteSet(Below(S, f)) /\ Rank(S, f) \in Nat
  <2>1. Below(S, f) \in SUBSET S
    BY DEF Below
  <2> QED
    BY <2>1, FS_Subset, FS_CardinalityType DEF Rank
<1>2. Below(S, f + n) = Below(S, f) \cup Span(f, n)
  <2>1. \A y \in S : y < f + n <=> y < f \/ y \in Span(f, n)
    BY DEF Span
  <2> QED
    BY <2>1, Zenon DEF Below
<1>3. Below(S, f) \cap Span(f, n) = {}
  BY DEF Below, Span
<1>4. IsFiniteSet(Span(f, n)) /\ Cardinality(Span(f, n)) = n
  <2>1. IsFiniteSet(f..(f + n - 1)) /\ Cardinality(f..(f + n - 1)) = n
    BY FS_Interval
  <2> QED
    BY <2>1 DEF Span
<1>5. Cardinality(Below(S, f + n)) = Rank(S, f) + n - 0
  <2>1. Cardinality(Below(S, f) \cup Span(f, n))
           = Cardinality(Below(S, f)) + Cardinality(Span(f, n))
             - Cardinality(Below(S, f) \cap Span(f, n))
    BY <1>1, <1>4, FS_Union
  <2>2. Cardinality(Below(S, f) \cap Span(f, n)) = 0
    BY <1>3, FS_EmptySet
  <2> QED
    BY <1>1, <1>2, <1>4, <2>1, <2>2 DEF Rank
<1> QED
  BY <1>1, <1>5

(* Blocks of a set, each at its place in a row of the whole set.           *)
Ranked(blocks, S) ==
    \A i \in 1..Len(blocks) : /\ blocks[i].backing \in S
                              /\ blocks[i].at = Rank(S, blocks[i].backing)
                              /\ Span(blocks[i].backing, blocks[i].size) \subseteq S

LEMMA BlocksOfFit ==
    ASSUME NEW S \in SUBSET FCRAM
    PROVE  BlocksFit(BlocksOf(S), Cardinality(S)) /\ Ranked(BlocksOf(S), S)
<1> DEFINE St == {f \in S : f - 1 \notin S}
           starts == Ascending(St)
           length(f) == CHOOSE n \in 1..Cardinality(S) : Span(f, n) \subseteq S /\ f + n \notin S
           k == Len(starts)
           bs == BlocksOf(S)
<1>0. FCRAM \subseteq Nat /\ IsFiniteSet(FCRAM) /\ Frames \in Nat /\ \A x \in S : x \in Nat /\ x < Frames
  BY Numbers, FS_Interval
<1>1. IsFiniteSet(S) /\ Cardinality(S) \in Nat
  BY <1>0, FS_Subset, FS_CardinalityType
<1>2. St \in SUBSET Nat /\ IsFiniteSet(St)
  BY <1>0, <1>1, FS_Subset
<1>3. /\ k \in Nat /\ \A i \in 1..k : starts[i] \in St /\ starts[i] \in Nat
      /\ \A i, j \in 1..k : i < j => starts[i] < starts[j]
  <2> HIDE DEF St
  <2> QED
    BY <1>2, AscendingOrder
<1>4. bs = [i \in 1..k |-> [at |-> Rank(S, starts[i]), backing |-> starts[i],
                           size |-> length(starts[i])]]
  BY DEF BlocksOf, Rank, Below
<1> HIDE DEF starts, k
<1>5. \A f \in S : /\ length(f) \in 1..Cardinality(S)
                   /\ Span(f, length(f)) \subseteq S /\ f + length(f) \notin S
  BY <1>1, RowLength
<1> HIDE DEF length, bs
<1>6. \A i \in 1..k : /\ bs[i].at = Rank(S, starts[i]) /\ bs[i].backing = starts[i]
                      /\ bs[i].size = length(starts[i]) /\ starts[i] \in S
  BY <1>3, <1>4
<1>7. ASSUME NEW f \in S
      PROVE  /\ Rank(S, f) \in Nat /\ length(f) \in Nat /\ 1 <= length(f)
             /\ Rank(S, f) + length(f) = Cardinality(Below(S, f + length(f)))
             /\ f + length(f) <= Frames
  <2> DEFINE n == length(f)
  <2>1. n \in Nat /\ 1 <= n /\ f \in Nat /\ Span(f, n) \subseteq S
    BY <1>0, <1>1, <1>5
  <2> HIDE DEF n
  <2>2. Rank(S, f) \in Nat /\ Cardinality(Below(S, f + n)) = Rank(S, f) + n
    BY <1>0, <1>1, <2>1, RowRank
  <2>7. f + n - 1 \in S
    BY <2>1 DEF Span
  <2>8. f + n <= Frames
    BY <1>0, <2>1, <2>7
  <2> QED
    BY <2>1, <2>2, <2>8 DEF n
<1>8. ASSUME NEW i \in 1..k
      PROVE  /\ bs[i] \in Block /\ 1 <= bs[i].size
             /\ bs[i].at + bs[i].size <= Cardinality(S) /\ bs[i].backing + bs[i].size <= Frames
  <2>1. starts[i] \in S /\ starts[i] \in Nat
    BY <1>3
  <2>2. Below(S, starts[i] + length(starts[i])) \in SUBSET S
    BY DEF Below
  <2>3. Cardinality(Below(S, starts[i] + length(starts[i]))) <= Cardinality(S)
    BY <1>1, <2>2, FS_Subset
  <2>4. /\ Rank(S, starts[i]) \in Nat /\ length(starts[i]) \in Nat /\ 1 <= length(starts[i])
        /\ Rank(S, starts[i]) + length(starts[i]) <= Cardinality(S)
        /\ starts[i] + length(starts[i]) <= Frames
    BY <1>7, <2>1, <2>3
  <2>5. bs[i] = [at |-> Rank(S, starts[i]), backing |-> starts[i], size |-> length(starts[i])]
    BY <1>4
  <2> QED
    BY <1>6, <2>1, <2>4, <2>5 DEF Block
<1>9. ASSUME NEW i \in 1..k, NEW j \in 1..k, i < j
      PROVE  bs[i].at + bs[i].size <= bs[j].at
  <2> DEFINE f == starts[i]
             g == starts[j]
  <2>1. f \in S /\ g \in S /\ f \in Nat /\ g \in Nat /\ f < g /\ g - 1 \notin S
    BY <1>3, <1>9
  <2> HIDE DEF f, g
  <2>2. length(f) \in Nat /\ Span(f, length(f)) \subseteq S
    BY <1>5, <1>7, <2>1
  <2>3. ~(g < f + length(f))
    <3> SUFFICES ASSUME g < f + length(f)
                 PROVE  FALSE
      OBVIOUS
    <3>1. g - 1 \in Span(f, length(f))
      BY <2>1, <2>2 DEF Span
    <3> QED
      BY <2>1, <2>2, <3>1
  <2>4. Below(S, f + length(f)) \in SUBSET Below(S, g)
    <3>1. \A y \in S : y < f + length(f) => y < g
      BY <1>0, <2>1, <2>2, <2>3
    <3> QED
      BY <3>1, Zenon DEF Below
  <2>5. IsFiniteSet(Below(S, g))
    BY <1>1, FS_Subset DEF Below
  <2>6. Cardinality(Below(S, f + length(f))) <= Rank(S, g)
    BY <2>4, <2>5, FS_Subset DEF Rank
  <2>7. Rank(S, f) + length(f) = Cardinality(Below(S, f + length(f)))
    BY <1>7, <2>1
  <2>8. bs[i].at = Rank(S, f) /\ bs[i].size = length(f) /\ bs[j].at = Rank(S, g)
    BY <1>6 DEF f, g
  <2> QED
    BY <2>6, <2>7, <2>8
<1>10. bs \in Seq(Block) /\ Len(bs) = k
  <2>1. bs = [i \in 1..k |-> bs[i]] /\ \A i \in 1..k : bs[i] \in Block
    BY <1>4, <1>8
  <2> QED
    BY <1>3, <2>1, MakeSeq
<1>11. BlocksFit(bs, Cardinality(S))
  BY <1>8, <1>9, <1>10 DEF BlocksFit
<1>12. Ranked(bs, S)
  BY <1>5, <1>6, <1>10 DEF Ranked
<1> QED
  BY <1>11, <1>12 DEF bs

(* The pages of an automatic block are a single row.                       *)
LEMMA FirstOfRow ==
    ASSUME NEW f \in Nat, NEW size \in Nat, 1 <= size, Span(f, size) \subseteq FCRAM
    PROVE  BlocksOf(Span(f, size))[1].backing = f
<1> DEFINE S == Span(f, size)
           St == {g \in S : g - 1 \notin S}
           starts == Ascending(St)
<1>1. St = {f}
  BY DEF Span
<1>2. Cardinality(St) = 1 /\ IsFiniteSet(St) /\ St \in SUBSET Nat
  BY <1>1, FS_Singleton
<1>3. Len(starts) = 1 /\ \A i \in 1..Len(starts) : starts[i] \in St
  <2> HIDE DEF St
  <2> QED
    BY <1>2, AscendingOrder
<1>4. starts[1] = f
  <2> HIDE DEF starts
  <2> QED
    BY <1>1, <1>3
<1>5. BlocksOf(S)[1].backing = starts[1]
  BY <1>3 DEF BlocksOf
<1> QED
  BY <1>4, <1>5

(* What is behind a range that is in use.                                  *)
LEMMA BackingBlocksFit ==
    ASSUME NEW as, Tiled(as), NEW target \in Nat, NEW size \in Nat, 1 <= size,
           target + size <= MAX_ADDRESS,
           \A v \in Pages : InSpan(v, target, size) => ~FreePage(as, v)
    PROVE  BlocksFit(BackingBlocks(as, target, size), size)
<1> DEFINE I == {IF a.base < target THEN target ELSE a.base : a \in InRange(as, target, size)}
           intervals == Ascending(I)
           end(page) == IF EndOf(as, page) < target + size THEN EndOf(as, page)
                        ELSE target + size
           k == Len(intervals)
           bs == BackingBlocks(as, target, size)
<1>1. bs = [i \in 1..k |->
              [at |-> intervals[i] - target,
               backing |-> BackingOf(FindVMA(as, intervals[i]), intervals[i]),
               size |-> end(intervals[i]) - intervals[i]]]
  BY DEF BackingBlocks
<1>2. ASSUME NEW x \in I
      PROVE  /\ x \in Pages /\ x \in Nat /\ InSpan(x, target, size)
             /\ x = target \/ x \in Bounds(as)
  <2>1. PICK a \in InRange(as, target, size) : x = IF a.base < target THEN target ELSE a.base
    OBVIOUS
  <2>2. a \in as /\ Span(a.base, a.size) \cap Span(target, size) # {}
    BY <2>1 DEF InRange
  <2>3. a \in Area
    BY <2>2, TiledAreas
  <2>4. PICK v \in Span(target, size) : v \in Span(a.base, a.size)
    BY <2>2
  <2>5. a.base \in Nat /\ a.size \in Nat
    BY <2>3, AreaFields
  <2>6. v \in Int /\ target <= v /\ v < target + size /\ a.base <= v
    BY <2>4, <2>5 DEF Span
  <2>7. x \in Nat /\ target <= x /\ x < target + size
    BY <2>1, <2>5, <2>6
  <2>8. x = target \/ x \in Bounds(as)
    BY <2>1, <2>2 DEF Bounds
  <2>9. x \in Pages
    BY <2>7, Numbers DEF Pages
  <2>10. InSpan(x, target, size)
    BY <2>7 DEF InSpan
  <2> QED
    BY <2>7, <2>8, <2>9, <2>10, Zenon
<1> HIDE DEF I
<1>3. I \in SUBSET Nat /\ IsFiniteSet(I)
  <2>0. \A v \in Pages : v <= MAX_ADDRESS
    BY Numbers DEF Pages
  <2>1. I \in SUBSET Nat /\ \A x \in I : x <= MAX_ADDRESS
    BY <1>2, <2>0, Zenon
  <2> QED
    BY <2>1, Numbers, FS_BoundedSetOfNaturals
<1>4. /\ k \in Nat /\ \A i \in 1..k : intervals[i] \in I /\ intervals[i] \in Nat
      /\ \A i, j \in 1..k : i < j => intervals[i] < intervals[j]
  BY <1>3, AscendingOrder
<1> HIDE DEF intervals, k
<1>5. ASSUME NEW x \in I
      PROVE  /\ end(x) \in Nat /\ x < end(x) /\ end(x) <= target + size
             /\ BackingOf(FindVMA(as, x), x) \in Nat
             /\ BackingOf(FindVMA(as, x), x) + (end(x) - x) <= Frames
             /\ \A y \in Bounds(as) : x < y => end(x) <= y
  <2> DEFINE a == FindVMA(as, x)
             e == a.base + a.size
  <2>1. x \in Pages /\ x \in Nat /\ target <= x /\ x < target + size /\ ~FreePage(as, x)
    BY <1>2 DEF InSpan
  <2>2. a \in as /\ Holds(a, x)
    BY <2>1, Found
  <2>3. EndOf(as, x) = e
    BY DEF EndOf
  <2> HIDE DEF a
  <2>4. a \in Area /\ Sound(a)
    BY <2>2, TiledAreas
  <2>5. a.base \in Nat /\ a.size \in Nat /\ a.base <= x /\ x < a.base + a.size
    BY <2>2, <2>4, AreaFields DEF Holds
  <2>6. e \in Nat /\ x < e
    BY <2>5
  <2>7. end(x) \in Nat /\ x < end(x) /\ end(x) <= target + size /\ end(x) <= e
    <3> HIDE DEF e
    <3> QED
      BY <2>1, <2>3, <2>6
  <2>8. ~IsFree(a)
    BY <2>1, <2>2, PageIs
  <2>9. BackingOf(a, x) = a.backing + (x - a.base) /\ 0 <= BackingOf(a, x)
    BY <2>1, <2>2, <2>4, <2>8, BackingInside
  <2>10. a.backing \in Int /\ a.backing + a.size <= Frames
    BY <2>4, <2>8, AreaFields DEF Sound
  <2>11. BackingOf(a, x) \in Nat
    BY <2>1, <2>5, <2>9, <2>10
  <2> HIDE DEF end
  <2>12. BackingOf(a, x) + (end(x) - x) <= Frames
    BY <2>1, <2>5, <2>7, <2>9, <2>10, Numbers
  <2>13. ASSUME NEW y \in Bounds(as), x < y
         PROVE  end(x) <= y
    <3>1. y \in Nat
      <4>1. PICK b \in as : b.base = y
        BY DEF Bounds
      <4>2. b \in Area
        BY TiledAreas
      <4> QED
        BY <4>1, <4>2, AreaFields
    <3>2. ~(y < a.base + a.size)
      <4> SUFFICES ASSUME y < a.base + a.size
                   PROVE  FALSE
        OBVIOUS
      <4>1. a.base <= y
        BY <2>1, <2>5, <2>13, <3>1
      <4>2. y = a.base
        BY <2>2, <4>1, NoBoundInside
      <4> QED
        BY <2>1, <2>5, <2>13, <4>2
    <3> QED
      BY <2>5, <2>7, <3>1, <3>2
  <2> QED
    BY <2>7, <2>11, <2>12, <2>13 DEF a
<1> HIDE DEF end, bs
<1>6. \A i \in 1..k :
         bs[i] = [at |-> intervals[i] - target,
                  backing |-> BackingOf(FindVMA(as, intervals[i]), intervals[i]),
                  size |-> end(intervals[i]) - intervals[i]]
  BY <1>1
<1>7. ASSUME NEW i \in 1..k
      PROVE  /\ bs[i] \in Block /\ bs[i].at = intervals[i] - target
             /\ bs[i].size = end(intervals[i]) - intervals[i]
             /\ 1 <= bs[i].size /\ bs[i].at + bs[i].size <= size
             /\ bs[i].backing + bs[i].size <= Frames
  <2> DEFINE x == intervals[i]
             n == end(x) - x
             at == x - target
             backing == BackingOf(FindVMA(as, x), x)
  <2>1. x \in I /\ x \in Nat
    BY <1>4
  <2>2. target <= x
    BY <1>2, <2>1 DEF InSpan
  <2>3. /\ end(x) \in Nat /\ x < end(x) /\ end(x) <= target + size
        /\ backing \in Nat /\ backing + n <= Frames
    BY <1>5, <2>1
  <2>4. bs[i] = [at |-> at, backing |-> backing, size |-> n]
    BY <1>6
  <2>5. n \in Nat /\ 1 <= n /\ at \in Nat /\ at + n <= size
    BY <2>1, <2>2, <2>3
  <2>6. bs[i].at = at /\ bs[i].size = n /\ bs[i].backing = backing
    BY <2>4
  <2> HIDE DEF x, n, at, backing
  <2>7. bs[i] \in Block
    BY <2>3, <2>4, <2>5 DEF Block
  <2> QED
    BY <2>3, <2>5, <2>6, <2>7 DEF x, n, at
<1>8. ASSUME NEW i \in 1..k, NEW j \in 1..k, i < j
      PROVE  bs[i].at + bs[i].size <= bs[j].at
  <2>1. /\ intervals[i] \in I /\ intervals[i] \in Nat /\ intervals[j] \in I /\ intervals[j] \in Nat
        /\ intervals[i] < intervals[j]
    BY <1>4, <1>8
  <2>2. intervals[j] \in Bounds(as)
    <3>1. target <= intervals[i]
      BY <1>2, <2>1 DEF InSpan
    <3>2. intervals[j] # target
      BY <2>1, <3>1
    <3> QED
      BY <1>2, <2>1, <3>2
  <2>3. end(intervals[i]) \in Nat /\ end(intervals[i]) <= intervals[j]
    BY <1>5, <2>1, <2>2
  <2> QED
    BY <1>7, <2>1, <2>3
<1>9. bs \in Seq(Block) /\ Len(bs) = k
  <2>1. bs = [i \in 1..k |-> bs[i]] /\ \A i \in 1..k : bs[i] \in Block
    BY <1>1, <1>7
  <2> QED
    BY <1>4, <2>1, MakeSeq
<1>10. BlocksFit(bs, size)
  BY <1>7, <1>8, <1>9 DEF BlocksFit
<1> QED
  BY <1>10 DEF bs

(* What the conditions of the calls say of the pages of a range.           *)
LEMMA VacantPages ==
    ASSUME NEW as, Tiled(as), NEW target \in Pages, NEW size \in Nat, Vacant(as, target, size)
    PROVE  /\ target + size <= MAX_ADDRESS
           /\ \A v \in Pages : InSpan(v, target, size) => FreePage(as, v)
<1> DEFINE a == FindVMA(as, target)
<1>1. a \in as /\ Holds(a, target)
  BY Found
<1>2. IsFree(a) /\ target + size <= a.base + a.size
  BY DEF Vacant
<1> HIDE DEF a
<1>3. a \in Area /\ Sound(a)
  BY <1>1, TiledAreas
<1>4. a.base \in Nat /\ a.size \in Nat /\ a.base + a.size <= MAX_ADDRESS /\ a.base <= target
      /\ target \in Nat
  BY <1>1, <1>3, AreaFields, PageNumber DEF Holds, Sound
<1>5. ASSUME NEW v \in Pages, InSpan(v, target, size)
      PROVE  FreePage(as, v)
  <2>1. Holds(a, v)
    BY <1>2, <1>4, <1>5, PageNumber DEF InSpan, Holds
  <2> QED
    BY <1>1, <1>2, <2>1, PageIs
<1>6. target + size <= MAX_ADDRESS
  BY <1>2, <1>4, Numbers
<1> QED
  BY <1>5, <1>6, Zenon

LEMMA OccupiedPages ==
    ASSUME NEW as, Tiled(as), NEW target \in Nat, NEW size \in Nat, Occupied(as, target, size)
    PROVE  \A v \in Pages : InSpan(v, target, size) => ~FreePage(as, v)
<1> SUFFICES ASSUME NEW v \in Pages, InSpan(v, target, size)
             PROVE  ~FreePage(as, v)
  OBVIOUS
<1>1. v \in Nat
  BY PageNumber
<1>2. PICK a \in as : Holds(a, v)
  BY TiledCover
<1>3. a \in Area
  BY TiledAreas
<1>4. v \in Span(a.base, a.size)
  BY <1>1, <1>2, <1>3, HoldsSpan
<1>5. v \in Span(target, size)
  BY <1>1 DEF InSpan, Span
<1>6. a \in InRange(as, target, size)
  BY <1>4, <1>5 DEF InRange
<1>7. ~IsFree(a)
  BY <1>6 DEF Occupied
<1> QED
  BY <1>2, <1>7, PageIs

LEMMA MayChangeOccupied ==
    ASSUME NEW as, NEW target, NEW size, NEW state, NEW perms,
           MayChangeState(as, target, size, state, perms)
    PROVE  Occupied(as, target, size)
BY DEF MayChangeState, Occupied

LEMMA EmptySpaceTiled ==
    /\ Tiled(EmptySpace) /\ FreeMerged(EmptySpace)
    /\ \A v \in Pages : FreePage(EmptySpace, v)
<1> DEFINE a == FreeArea(0, MAX_ADDRESS)
<1>1. a = [base |-> 0, size |-> MAX_ADDRESS, backing |-> Unbacked, perms |-> "None",
           state |-> "Free"]
  BY DEF FreeArea
<1>2. a \in Area
  BY <1>1, Numbers, MakeArea DEF Perms
<1>3. a.base = 0 /\ a.size = MAX_ADDRESS /\ a.backing = Unbacked /\ a.perms = "None"
      /\ a.state = "Free"
  BY <1>1
<1>4. EmptySpace = {a}
  BY DEF EmptySpace
<1> HIDE DEF a
<1>5. IsFree(a) /\ Sound(a)
  BY <1>3, Numbers DEF IsFree, Sound
<1>6. \A v \in Pages : Holds(a, v)
  BY <1>3, PageNumber, Numbers DEF Holds
<1>7. Tiled(EmptySpace)
  BY <1>2, <1>4, <1>5, <1>6 DEF Tiled
<1>8. FreeMerged(EmptySpace)
  BY <1>3, <1>4 DEF FreeMerged, Bounds
<1>9. ASSUME NEW v \in Pages
      PROVE  FreePage(EmptySpace, v)
  BY <1>4, <1>5, <1>6, <1>7, PageIs
<1> QED
  BY <1>7, <1>8, <1>9

(***************************************************************************)
(* The invariant.                                                          *)
(***************************************************************************)
(* The page between the heap and the linear heap is never mapped, which    *)
(* keeps what is freed below it; those of thread-local storage are mapped  *)
(* one after the other.                                                    *)
Space(P) ==
    /\ Tiled(P.areas) /\ FreeMerged(P.areas)
    /\ FreePage(P.areas, HEAP_VADDR_END)
    /\ \A v \in Pages : v >= TLS_AREA_VADDR + Len(P.tls_slots) => FreePage(P.areas, v)

(* A slot that is in use is that of a thread.                              *)
SlotsOwned(p) ==
    \A n \in 1..Len(process[p].tls_slots) : \A i \in process[p].tls_slots[n] :
        \E t \in ThreadsOf(p) : thread[t].slot = <<n, i>>

(* Where a block may be mapped: an automatic one at the address that       *)
(* belongs to its first page, one of the heap anywhere below its end.      *)
BlockFits(b) ==
    /\ b \in SharedBlock /\ 1 <= b.size /\ BlocksFit(b.backing_blocks, b.size)
    /\ IF b.base_address = 0
       THEN b.backing_blocks[1].backing \in Nat /\ b.backing_blocks[1].backing + b.size <= Frames
       ELSE b.base_address + b.size <= HEAP_VADDR_END

BlockSound(s) ==
    LET b == shared_memory[s] IN
    BlockFits(b) /\ (b.owner_process # NoProcess => Exists(b.owner_process))

MemoryInv ==
    /\ process \in [Processes -> Process \cup {NoProcess}]
    /\ thread \in [Threads -> Thread \cup {NoThread}]
    /\ free_blocks \subseteq FCRAM
    /\ DOMAIN shared_memory = Blocks
    /\ \A p \in Live : Space(process[p]) /\ SlotsOwned(p)
    /\ \A s \in LiveBlocks : BlockSound(s)

LEMMA ProcessesStay ==
    ASSUME MemoryInv, UNCHANGED <<process, thread>>
    PROVE  /\ process' \in [Processes -> Process \cup {NoProcess}]
           /\ \A q \in Processes : Exists(q)' <=> Exists(q)
           /\ \A q \in Live' : Space(process'[q]) /\ SlotsOwned(q)'
<1>1. process' = process /\ thread' = thread
  OBVIOUS
<1>2. Live' = Live /\ \A q : Exists(q)' <=> Exists(q)
  BY <1>1 DEF Live, Exists
<1>3. \A q : ThreadsOf(q)' = ThreadsOf(q)
  BY <1>1 DEF ThreadsOf
<1>4. \A q : SlotsOwned(q) => SlotsOwned(q)'
  BY <1>1, <1>3 DEF SlotsOwned
<1> QED
  BY <1>1, <1>2, <1>4, Zenon DEF MemoryInv

LEMMA MemoryStays ==
    ASSUME MemoryInv, UNCHANGED <<process, free_blocks, thread, shared_memory>>
    PROVE  MemoryInv'
<1>1. /\ process' = process /\ thread' = thread /\ free_blocks' = free_blocks
      /\ shared_memory' = shared_memory
  OBVIOUS
<1>2. LiveBlocks' = LiveBlocks
  BY <1>1 DEF LiveBlocks
<1>3. \A s : BlockSound(s) => BlockSound(s)'
  BY <1>1 DEF BlockSound, Exists
<1>4. /\ process' \in [Processes -> Process \cup {NoProcess}]
      /\ \A q \in Live' : Space(process'[q]) /\ SlotsOwned(q)'
  BY ProcessesStay
<1> QED
  BY <1>1, <1>2, <1>3, <1>4, Zenon DEF MemoryInv

LEMMA Layout ==
    /\ HEAP_VADDR_END \in Nat /\ 1 <= HEAP_VADDR_END
    /\ SHARED_MEMORY_VADDR_END = HEAP_VADDR_END + 1 /\ LINEAR_HEAP_VADDR = HEAP_VADDR_END + 1
    /\ TLS_AREA_VADDR = LINEAR_HEAP_VADDR + Frames /\ TLS_AREA_VADDR \in Nat
    /\ Cardinality(Threads) \in Nat /\ TLS_AREA_VADDR + Cardinality(Threads) <= MAX_ADDRESS
    /\ APPLICATION_PAGES \in Nat /\ APPLICATION_PAGES <= Frames
    /\ APPLICATION \in SUBSET FCRAM /\ BASE \in SUBSET FCRAM
<1>1. Cardinality(Threads) \in Nat
  BY BoundsAssumption, FS_CardinalityType
<1>2. HEAP_PAGES \in Nat /\ APPLICATION_PAGES \in Nat /\ BASE_PAGES \in Nat
  BY BoundsAssumption
<1>3. TLS_AREA_VADDR = LINEAR_HEAP_VADDR + Frames
  BY <1>2 DEF TLS_AREA_VADDR, Frames, LINEAR_HEAP_VADDR, SHARED_MEMORY_VADDR_END, HEAP_VADDR_END,
              HEAP_VADDR
<1>4. APPLICATION \in SUBSET FCRAM /\ BASE \in SUBSET FCRAM
  BY DEF FCRAM
<1> QED
  BY <1>1, <1>2, <1>3, <1>4, TlsAssumption
     DEF Frames, LINEAR_HEAP_VADDR, SHARED_MEMORY_VADDR_END, HEAP_VADDR_END, HEAP_VADDR

(* The pages that no call of a guest may map: they keep the heap apart from *)
(* the linear heap, and the room behind the TLS pages free.                *)
Reserved(v) == v = HEAP_VADDR_END \/ v >= TLS_AREA_VADDR

(* A range outside of what is reserved.                                    *)
Usable(target, size) ==
    /\ target \in Nat /\ size \in Nat /\ 1 <= size /\ target + size <= MAX_ADDRESS
    /\ \A v \in Pages : InSpan(v, target, size) => ~Reserved(v)

(* What each operation owes to Space.                                      *)
KeepsSpace(as, r) ==
    /\ Tiled(r) /\ FreeMerged(r)
    /\ \A v \in Pages : Reserved(v) /\ FreePage(as, v) => FreePage(r, v)

LEMMA HeapUsable ==
    ASSUME NEW target \in Nat, NEW size \in Nat, 1 <= size, target + size <= HEAP_VADDR_END
    PROVE  Usable(target, size) /\ target \in Pages
BY Layout, Numbers, PageNumber DEF Usable, Reserved, InSpan, Pages

LEMMA LinearUsable ==
    ASSUME NEW f \in Nat, NEW size \in Nat, 1 <= size, f + size <= Frames
    PROVE  Usable(LINEAR_HEAP_VADDR + f, size) /\ LINEAR_HEAP_VADDR + f \in Pages
BY Layout, Numbers, PageNumber DEF Usable, Reserved, InSpan, Pages

LEMMA CallSizes ==
    ASSUME NEW size \in Sizes
    PROVE  /\ size \in Nat /\ 1 <= size
           /\ \A v \in Heap(size) : v \in Nat /\ 1 <= v /\ v + size <= HEAP_VADDR_END
           /\ \A v \in LinearHeap(size) :
                 /\ v - LINEAR_HEAP_VADDR \in Nat
                 /\ (v - LINEAR_HEAP_VADDR) + size <= Frames
                 /\ v = LINEAR_HEAP_VADDR + (v - LINEAR_HEAP_VADDR)
<1>1. size \in Nat /\ 1 <= size
  BY BoundsAssumption DEF Sizes
<1>2. \A v \in Heap(size) : v \in Nat /\ 1 <= v /\ v + size <= HEAP_VADDR_END
  BY Layout DEF Heap, HEAP_VADDR
<1>3. ASSUME NEW v \in LinearHeap(size)
      PROVE  /\ v - LINEAR_HEAP_VADDR \in Nat /\ (v - LINEAR_HEAP_VADDR) + size <= Frames
             /\ v = LINEAR_HEAP_VADDR + (v - LINEAR_HEAP_VADDR)
  <2>1. PICK f \in APPLICATION : f + size <= APPLICATION_PAGES /\ v = LINEAR_HEAP_VADDR + f
    BY DEF LinearHeap
  <2>2. f \in Nat /\ f + size <= Frames
    BY <1>1, <2>1, Layout, Numbers DEF APPLICATION
  <2>3. v - LINEAR_HEAP_VADDR = f
    BY <2>1, <2>2, Layout
  <2> QED
    BY <2>1, <2>2, <2>3
<1> QED
  BY <1>1, <1>2, <1>3

LEMMA BlocksKept ==
    ASSUME NEW as, Tiled(as), FreeMerged(as), NEW target, NEW size, Usable(target, size),
           \A v \in Pages : InSpan(v, target, size) => FreePage(as, v),
           NEW blocks, BlocksFit(blocks, size), NEW state \in Used, NEW perms \in Perms,
           NEW r, r = MapBlocks(as, target, blocks, state, perms)
    PROVE  KeepsSpace(as, r)
<1>1. target \in Nat /\ size \in Nat /\ target + size <= MAX_ADDRESS
  BY DEF Usable
<1>2. /\ Tiled(r) /\ FreeMerged(r)
      /\ \A v \in Pages : ~InSpan(v, target, size) => (FreePage(r, v) <=> FreePage(as, v))
  <2>1. Placed(r, as, target, size)
    BY <1>1, BlocksMapped
  <2> QED
    BY <2>1 DEF Placed
<1> QED
  BY <1>2 DEF KeepsSpace, Usable

LEMMA UnmapKept ==
    ASSUME NEW as, Tiled(as), FreeMerged(as), NEW target \in Nat, NEW size \in Nat, 1 <= size,
           target + size <= MAX_ADDRESS, Occupied(as, target, size),
           NEW r, r = UnmapRange(as, target, size)
    PROVE  KeepsSpace(as, r)
<1>1. r = Walk(as, target, size, "None", "Free")
  BY DEF UnmapRange
<1>2. \A v \in Pages : InSpan(v, target, size) => ~FreePage(as, v)
  BY OccupiedPages
<1>3. Tiled(r) /\ FreeMerged(r) /\ \A v \in Pages : FreePage(as, v) => FreePage(r, v)
  <2>1. "None" \in Perms
    BY DEF Perms
  <2> QED
    BY <1>1, <1>2, <2>1, WalkPages DEF Walked
<1> QED
  BY <1>3 DEF KeepsSpace

(* Pages change permissions or state, and none becomes free or is taken.   *)
Reused(as, r) ==
    KeepsSpace(as, r) /\ \A v \in Pages : FreePage(r, v) <=> FreePage(as, v)

LEMMA ChangeKept ==
    ASSUME NEW as, Tiled(as), FreeMerged(as), NEW target \in Nat, NEW size \in Nat, 1 <= size,
           target + size <= MAX_ADDRESS, Occupied(as, target, size),
           NEW perms \in Perms, NEW state \in Used \cup {Kept},
           NEW r, r = Walk(as, target, size, perms, state)
    PROVE  Reused(as, r)
<1>1. \A v \in Pages : InSpan(v, target, size) => ~FreePage(as, v)
  BY OccupiedPages
<1>2. state # "Free"
  BY DEF Used, Kept
<1>3. /\ Tiled(r) /\ FreeMerged(r)
      /\ \A v \in Pages : FreePage(as, v) => FreePage(r, v)
      /\ state # "Free" => \A v \in Pages : FreePage(r, v) => FreePage(as, v)
  <2>1. Walked(r, as, state)
    BY <1>1, WalkPages
  <2> QED
    BY <2>1 DEF Walked
<1> QED
  BY <1>2, <1>3 DEF KeepsSpace, Reused

(***************************************************************************)
(* Values of a process.                                                    *)
(***************************************************************************)
LEMMA NewAreas ==
    ASSUME NEW P \in Process, NEW as, Tiled(as), NEW Q, Q = [P EXCEPT !.areas = as]
    PROVE  Q \in Process /\ Q.areas = as /\ Q.tls_slots = P.tls_slots
<1>1. as \in SUBSET Area
  BY Zenon DEF Tiled
<1> QED
  BY <1>1 DEF Process

(* What calls change of a process: the books, or areas and books.          *)
Using(P, n) == [P EXCEPT !.memory_used = n]

LEMMA NewUsed ==
    ASSUME NEW P \in Process, NEW n \in Int, NEW Q, Q = Using(P, n)
    PROVE  Q \in Process /\ Q.areas = P.areas /\ Q.tls_slots = P.tls_slots
BY DEF Process, Using

Holding(P, as, S, n) ==
    [P EXCEPT !.areas = as, !.holding_memory = S, !.memory_used = n]

Stands(P, Q, as) == Q \in Process /\ Q.areas = as /\ Q.tls_slots = P.tls_slots

LEMMA NewMemory ==
    ASSUME NEW P \in Process, NEW as, Tiled(as), NEW S \in SUBSET FCRAM, NEW n \in Int
    PROVE  Stands(P, Holding(P, as, S, n), as)
<1>1. as \in SUBSET Area
  BY Zenon DEF Tiled
<1> QED
  BY <1>1 DEF Process, Holding, Stands

LEMMA ProcessFields ==
    ASSUME NEW P \in Process
    PROVE  /\ P.areas \in SUBSET Area /\ P.holding_memory \in SUBSET FCRAM
           /\ P.holding_tls_memory \in SUBSET FCRAM /\ P.memory_used \in Int
           /\ P.tls_slots \in Seq(SUBSET (0..(TLS_ENTRIES - 1))) /\ P # NoProcess
BY NullAssumption DEF Process

(* Memory is mapped where there is room.                                   *)
LEMMA WithMemoryKept ==
    ASSUME NEW P \in Process, Space(P), NEW target \in Pages, NEW size, Usable(target, size),
           Vacant(P.areas, target, size), NEW S \in SUBSET FCRAM, Cardinality(S) = size,
           NEW state \in Used, NEW perms \in Perms,
           NEW Q, Q = WithMemory(P, target, S, state, perms)
    PROVE  Q \in Process /\ Q.tls_slots = P.tls_slots /\ KeepsSpace(P.areas, Q.areas)
<1> DEFINE as == MapBlocks(P.areas, target, BlocksOf(S), state, perms)
           held == P.holding_memory \cup S
           n == P.memory_used + Cardinality(S)
<1>1. Q = Holding(P, as, held, n)
  BY DEF WithMemory, Holding
<1>2. Tiled(P.areas) /\ FreeMerged(P.areas)
  BY DEF Space
<1>3. size \in Nat
  BY DEF Usable
<1>4. \A v \in Pages : InSpan(v, target, size) => FreePage(P.areas, v)
  BY <1>2, <1>3, VacantPages
<1>5. BlocksFit(BlocksOf(S), size)
  BY BlocksOfFit
<1>6. KeepsSpace(P.areas, as)
  BY <1>2, <1>4, <1>5, BlocksKept
<1>7. held \in SUBSET FCRAM /\ n \in Int
  BY <1>3, ProcessFields
<1> HIDE DEF as, held, n
<1>8. Q \in Process /\ Q.areas = as /\ Q.tls_slots = P.tls_slots
  <2>1. Tiled(as)
    BY <1>6 DEF KeepsSpace
  <2> QED
    <3>1. Stands(P, Holding(P, as, held, n), as)
      BY <1>7, <2>1, NewMemory
    <3> QED
      BY <1>1, <3>1 DEF Stands
<1> QED
  BY <1>6, <1>8

LEMMA WithoutMemoryKept ==
    ASSUME NEW P \in Process, Space(P), NEW target \in Nat, NEW size \in Nat, 1 <= size,
           target + size <= MAX_ADDRESS, Occupied(P.areas, target, size), NEW S,
           NEW Q, Q = WithoutMemory(P, target, size, S)
    PROVE  Q \in Process /\ Q.tls_slots = P.tls_slots /\ KeepsSpace(P.areas, Q.areas)
<1> DEFINE as == UnmapRange(P.areas, target, size)
           held == P.holding_memory \ S
           n == P.memory_used - size
<1>1. Q = Holding(P, as, held, n)
  BY DEF WithoutMemory, Holding
<1>2. Tiled(P.areas) /\ FreeMerged(P.areas)
  BY DEF Space
<1>3. KeepsSpace(P.areas, as)
  BY <1>2, UnmapKept
<1>4. held \in SUBSET FCRAM /\ n \in Int
  BY ProcessFields
<1> HIDE DEF as, held, n
<1>5. Q \in Process /\ Q.areas = as /\ Q.tls_slots = P.tls_slots
  <2>1. Tiled(as)
    BY <1>3 DEF KeepsSpace
  <2> QED
    <3>1. Stands(P, Holding(P, as, held, n), as)
      BY <1>4, <2>1, NewMemory
    <3> QED
      BY <1>1, <3>1 DEF Stands
<1> QED
  BY <1>3, <1>5

(* The areas of a process change, and nothing of them that is reserved.    *)
LEMMA SpaceKept ==
    ASSUME NEW P \in Process, NEW Q \in Process, Space(P), KeepsSpace(P.areas, Q.areas),
           Q.tls_slots = P.tls_slots
    PROVE  Space(Q)
<1>1. Len(P.tls_slots) \in Nat
  BY ProcessFields, LenProperties
<1>2. HEAP_VADDR_END \in Pages
  BY Layout, Numbers DEF Pages
<1>3. FreePage(Q.areas, HEAP_VADDR_END)
  BY <1>2 DEF KeepsSpace, Space, Reserved
<1>4. ASSUME NEW v \in Pages, v >= TLS_AREA_VADDR + Len(P.tls_slots)
      PROVE  FreePage(Q.areas, v)
  <2>1. Reserved(v)
    BY <1>1, <1>4, Layout, PageNumber DEF Reserved
  <2> QED
    BY <1>4, <2>1 DEF KeepsSpace, Space
<1> QED
  BY <1>3, <1>4 DEF KeepsSpace, Space

LEMMA MemoryChanged ==
    ASSUME MemoryInv, NEW p \in Processes, Exists(p), NEW Q \in Process,
           process' = [process EXCEPT ![p] = Q], Q.tls_slots = process[p].tls_slots,
           KeepsSpace(process[p].areas, Q.areas), UNCHANGED thread
    PROVE  /\ process' \in [Processes -> Process \cup {NoProcess}]
           /\ \A q \in Processes : Exists(q)' <=> Exists(q)
           /\ \A q \in Live' : Space(process'[q]) /\ SlotsOwned(q)'
<1>1. process \in [Processes -> Process \cup {NoProcess}] /\ process[p] \in Process
  BY DEF MemoryInv, Exists
<1>2. process' \in [Processes -> Process \cup {NoProcess}] /\ process'[p] = Q
      /\ \A q \in Processes : q # p => process'[q] = process[q]
  BY <1>1
<1>3. \A q \in Processes : Exists(q)' <=> Exists(q)
  <2>1. Q # NoProcess
    BY ProcessFields
  <2> QED
    BY <1>2, <2>1 DEF Exists
<1>4. Space(Q)
  BY <1>1, SpaceKept DEF MemoryInv, Live
<1>5. ASSUME NEW q \in Live'
      PROVE  Space(process'[q]) /\ SlotsOwned(q)'
  <2>1. q \in Processes /\ Exists(q) /\ q \in Live
    BY <1>3 DEF Live
  <2>2. Space(process[q]) /\ SlotsOwned(q)
    BY <2>1 DEF MemoryInv
  <2>3. process'[q].tls_slots = process[q].tls_slots
    BY <1>2, <2>1
  <2>4. ThreadsOf(q)' = ThreadsOf(q)
    BY DEF ThreadsOf
  <2>5. SlotsOwned(q)'
    BY <2>2, <2>3, <2>4 DEF SlotsOwned
  <2>6. Space(process'[q])
    BY <1>2, <1>4, <2>1, <2>2
  <2> QED
    BY <2>5, <2>6
<1> QED
  BY <1>2, <1>3, <1>5

(* A block that a step leaves alone.                                       *)
LEMMA BlockStays ==
    ASSUME MemoryInv, \A q \in Processes : Exists(q) => Exists(q)',
           NEW s \in LiveBlocks, shared_memory'[s] = shared_memory[s]
    PROVE  BlockSound(s)'
<1>1. BlockSound(s)
  BY DEF MemoryInv
<1>2. shared_memory[s].owner_process \in Processes \cup {NoProcess}
  BY <1>1 DEF BlockSound, BlockFits, SharedBlock
<1>3. BlockFits(shared_memory'[s])
  BY <1>1 DEF BlockSound
<1>4. (shared_memory[s].owner_process # NoProcess => Exists(shared_memory[s].owner_process))'
  BY <1>1, <1>2 DEF BlockSound
<1> QED
  BY <1>3, <1>4 DEF BlockSound

LEMMA BlocksStay ==
    ASSUME MemoryInv, UNCHANGED shared_memory,
           \A q \in Processes : Exists(q) => Exists(q)'
    PROVE  DOMAIN shared_memory' = Blocks /\ \A s \in LiveBlocks' : BlockSound(s)'
<1>1. ASSUME NEW s \in LiveBlocks'
      PROVE  BlockSound(s)'
  <2>1. s \in LiveBlocks
    BY DEF LiveBlocks
  <2> QED
    BY <2>1, BlockStays
<1> QED
  BY <1>1 DEF MemoryInv

(* One block comes or goes.                                                *)
LEMMA BlockChanged ==
    ASSUME MemoryInv, NEW s \in Blocks, NEW b,
           shared_memory' = [shared_memory EXCEPT ![s] = b],
           \A q \in Processes : Exists(q) => Exists(q)',
           b # NoBlock => BlockFits(b) /\ (b.owner_process # NoProcess => Exists(b.owner_process)')
    PROVE  DOMAIN shared_memory' = Blocks /\ \A x \in LiveBlocks' : BlockSound(x)'
<1>1. DOMAIN shared_memory = Blocks
  BY DEF MemoryInv
<1>2. /\ DOMAIN shared_memory' = Blocks /\ shared_memory'[s] = b
      /\ \A x \in Blocks : x # s => shared_memory'[x] = shared_memory[x]
  BY <1>1
<1>3. ASSUME NEW x \in LiveBlocks'
      PROVE  BlockSound(x)'
  <2>1. x \in Blocks /\ shared_memory'[x] # NoBlock
    BY DEF LiveBlocks
  <2>2. CASE x = s
    <3>1. b # NoBlock
      BY <1>2, <2>1, <2>2
    <3>2. BlockFits(shared_memory'[s])
      BY <1>2, <3>1
    <3>3. (shared_memory[s].owner_process # NoProcess => Exists(shared_memory[s].owner_process))'
      BY <1>2, <3>1
    <3> QED
      BY <2>2, <3>2, <3>3 DEF BlockSound
  <2>3. CASE x # s
    <3>1. shared_memory'[x] = shared_memory[x]
      BY <1>2, <2>1, <2>3
    <3>2. x \in LiveBlocks
      BY <2>1, <3>1 DEF LiveBlocks
    <3> QED
      BY <3>1, <3>2, BlockStays
  <2> QED
    BY <2>2, <2>3
<1> QED
  BY <1>2, <1>3

(* A step that changes the memory of a process, and no block.              *)
LEMMA MemoryStep ==
    ASSUME MemoryInv, NEW p \in Processes, Exists(p), NEW Q \in Process,
           process' = [process EXCEPT ![p] = Q], Q.tls_slots = process[p].tls_slots,
           KeepsSpace(process[p].areas, Q.areas), UNCHANGED <<thread, shared_memory>>,
           free_blocks' \subseteq FCRAM
    PROVE  MemoryInv'
<1>1. /\ process' \in [Processes -> Process \cup {NoProcess}]
      /\ \A q \in Processes : Exists(q)' <=> Exists(q)
      /\ \A q \in Live' : Space(process'[q]) /\ SlotsOwned(q)'
  BY MemoryChanged
<1>2. DOMAIN shared_memory' = Blocks /\ \A s \in LiveBlocks' : BlockSound(s)'
  BY <1>1, BlocksStay
<1>3. thread' \in [Threads -> Thread \cup {NoThread}]
  BY DEF MemoryInv
<1> QED
  BY <1>1, <1>2, <1>3 DEF MemoryInv

LEMMA LiveProcess ==
    ASSUME MemoryInv, NEW p \in Processes, Exists(p)
    PROVE  process[p] \in Process /\ Space(process[p]) /\ SlotsOwned(p)
           /\ Tiled(process[p].areas) /\ FreeMerged(process[p].areas)
BY DEF MemoryInv, Exists, Live, Space

LEMMA PermissionsOf == \A perms \in Permissions : perms \in Perms
BY PermissionsAssumption DEF Perms

(***************************************************************************)
(* One lemma per action.                                                   *)
(***************************************************************************)
LEMMA HeapAllocateInv ==
    ASSUME MemoryInv, NEW p \in Processes, NEW size \in Sizes, NEW target \in Heap(size),
           NEW perms \in Permissions, HeapAllocate(p, target, size, perms)
    PROVE  MemoryInv'
<1> DEFINE A == free_blocks \cap APPLICATION
           S == HighestPages(A, size)
           P == process[p]
           Q == WithMemory(P, target, S, "Private", perms)
<1>1. /\ Exists(p) /\ Vacant(P.areas, target, size) /\ Cardinality(A) >= size
      /\ process' = [process EXCEPT ![p] = Q] /\ Taken(S) /\ UNCHANGED <<thread, shared_memory>>
  BY DEF HeapAllocate, Running
<1>2. P \in Process /\ Space(P)
  BY <1>1, LiveProcess
<1>3. size \in Nat /\ Usable(target, size) /\ target \in Pages
  BY CallSizes, HeapUsable
<1>4. A \in SUBSET FCRAM /\ A \in SUBSET Nat /\ IsFiniteSet(A)
  <2>1. A \in SUBSET FCRAM
    BY Layout
  <2>2. FCRAM \in SUBSET Nat /\ IsFiniteSet(FCRAM)
    BY Numbers, FS_Interval
  <2> QED
    BY <2>1, <2>2, FS_Subset
<1> HIDE DEF A, P
<1>5. S \in SUBSET A /\ Cardinality(S) = size
  <2>1. Cardinality(A) \in Nat
    BY <1>4, FS_CardinalityType
  <2>2. size <= Cardinality(A)
    BY <1>1, <1>3, <2>1
  <2> QED
    BY <1>3, <1>4, <2>2, HighestExist
<1> HIDE DEF S
<1>6. "Private" \in Used /\ perms \in Perms
  BY PermissionsOf DEF Used
<1>7. S \in SUBSET FCRAM
  BY <1>4, <1>5
<1>8. Q \in Process /\ Q.tls_slots = P.tls_slots /\ KeepsSpace(P.areas, Q.areas)
  BY <1>1, <1>2, <1>3, <1>5, <1>6, <1>7, WithMemoryKept
<1>9. free_blocks' \subseteq FCRAM
  BY <1>1 DEF Taken, MemoryInv
<1> HIDE DEF Q
<1> QED
  BY <1>1, <1>8, <1>9, MemoryStep DEF P

LEMMA LinearAllocateInv ==
    ASSUME MemoryInv, NEW p \in Processes, NEW size \in Sizes,
           LinearAllocate(p, size, "ReadWrite")
    PROVE  MemoryInv'
<1> DEFINE A == free_blocks \cap APPLICATION
           f == Lowest(Rows(A, size))
           target == LINEAR_HEAP_VADDR + f
           P == process[p]
           Q == WithMemory(P, target, Span(f, size), "Continuous", "ReadWrite")
<1>1. /\ Exists(p) /\ Rows(A, size) # {} /\ UNCHANGED <<thread, shared_memory>>
      /\ IF Vacant(P.areas, target, size)
         THEN process' = [process EXCEPT ![p] = Q] /\ Taken(Span(f, size))
         ELSE UNCHANGED <<process, free_blocks>>
  BY DEF LinearAllocate, Running
<1>2. P \in Process /\ Space(P)
  BY <1>1, LiveProcess
<1>3. size \in Nat /\ 1 <= size
  BY CallSizes
<1>4. A \in SUBSET FCRAM
  BY Layout
<1> HIDE DEF A, P
<1>5. f \in Nat /\ Span(f, size) \in SUBSET FCRAM
  <2>1. Rows(A, size) \in SUBSET Nat
    <3>1. A \in SUBSET Nat
      BY <1>4, Numbers
    <3>2. Rows(A, size) \in SUBSET A
      BY DEF Rows
    <3> QED
      BY <3>1, <3>2
  <2>2. f \in Rows(A, size)
    BY <1>1, <2>1, LowestIn
  <2> HIDE DEF f
  <2> QED
    BY <1>4, <2>1, <2>2 DEF Rows
<1> HIDE DEF f
<1>6. f + size <= Frames
  <2>1. f + size - 1 \in Span(f, size)
    BY <1>3, <1>5 DEF Span
  <2>2. f + size - 1 < Frames
    BY <1>5, <2>1, Numbers
  <2> QED
    BY <1>3, <1>5, <2>2, Numbers
<1>7. Usable(target, size) /\ target \in Pages
  BY <1>3, <1>5, <1>6, LinearUsable
<1>8. Cardinality(Span(f, size)) = size
  BY <1>3, <1>5, FS_Interval DEF Span
<1> HIDE DEF target
<1>9. CASE Vacant(P.areas, target, size)
  <2>1. process' = [process EXCEPT ![p] = Q] /\ Taken(Span(f, size))
    BY <1>1, <1>9
  <2>2. "Continuous" \in Used /\ "ReadWrite" \in Perms
    BY DEF Used, Perms
  <2>3. Q \in Process /\ Q.tls_slots = P.tls_slots /\ KeepsSpace(P.areas, Q.areas)
    BY <1>2, <1>5, <1>7, <1>8, <1>9, <2>2, WithMemoryKept
  <2>4. free_blocks' \subseteq FCRAM
    BY <2>1 DEF Taken, MemoryInv
  <2> HIDE DEF Q
  <2> QED
    BY <1>1, <2>1, <2>3, <2>4, MemoryStep DEF P
<1>10. CASE ~Vacant(P.areas, target, size)
  <2>1. UNCHANGED <<process, free_blocks, thread, shared_memory>>
    BY <1>1, <1>10
  <2> QED
    BY <2>1, MemoryStays
<1> QED
  BY <1>9, <1>10

(* Memory is given back.                                                   *)
LEMMA GivenBack ==
    ASSUME MemoryInv, NEW p \in Processes, Exists(p), NEW target \in Nat, NEW size \in Nat,
           1 <= size, target + size <= MAX_ADDRESS, Occupied(process[p].areas, target, size),
           NEW S \in SUBSET FCRAM,
           process' = [process EXCEPT ![p] = WithoutMemory(@, target, size, S)],
           Free(S), UNCHANGED <<thread, shared_memory>>
    PROVE  MemoryInv'
<1> DEFINE P == process[p]
           Q == WithoutMemory(P, target, size, S)
<1>1. P \in Process /\ Space(P)
  BY LiveProcess
<1>2. process' = [process EXCEPT ![p] = Q]
  OBVIOUS
<1> HIDE DEF P
<1>3. Q \in Process /\ Q.tls_slots = P.tls_slots /\ KeepsSpace(P.areas, Q.areas)
  BY <1>1, WithoutMemoryKept DEF P
<1>4. free_blocks' \subseteq FCRAM
  BY DEF Free, MemoryInv
<1> HIDE DEF Q
<1> QED
  BY <1>2, <1>3, <1>4, MemoryStep DEF P

LEMMA HeapFreeInv ==
    ASSUME MemoryInv, NEW p \in Processes, NEW size \in Sizes, NEW target \in Heap(size),
           HeapFree(p, target, size)
    PROVE  MemoryInv'
<1> DEFINE as == process[p].areas
           S == BackingPages(as, target, size)
<1>1. /\ Exists(p) /\ Occupied(as, target, size) /\ Free(S) /\ UNCHANGED <<thread, shared_memory>>
      /\ process' = [process EXCEPT ![p] = WithoutMemory(@, target, size, S)]
  BY DEF HeapFree, Running
<1>2. Tiled(as)
  BY <1>1, LiveProcess
<1>3. size \in Nat /\ 1 <= size /\ Usable(target, size) /\ target \in Nat
      /\ target + size <= MAX_ADDRESS
  BY CallSizes, HeapUsable DEF Usable
<1>4. S \in SUBSET FCRAM
  <2> HIDE DEF as
  <2> SUFFICES ASSUME NEW v \in Span(target, size)
               PROVE  At(as, v).backing \in FCRAM
    BY DEF BackingPages
  <2> DEFINE a == FindVMA(as, v)
  <2>1. v \in Pages /\ v \in Int /\ InSpan(v, target, size)
    BY <1>3, Numbers DEF Span, Pages, InSpan
  <2>2. a \in as /\ Holds(a, v)
    BY <1>2, <2>1, Found
  <2>3. At(as, v).backing = BackingOf(a, v)
    BY DEF At
  <2> HIDE DEF a
  <2>4. a \in Area /\ Sound(a)
    BY <1>2, <2>2, TiledAreas
  <2>5. ~FreePage(as, v)
    BY <1>1, <1>2, <1>3, <2>1, OccupiedPages
  <2>6. ~IsFree(a)
    BY <1>2, <2>1, <2>2, <2>5, PageIs
  <2>7. BackingOf(a, v) \in Int /\ 0 <= BackingOf(a, v) /\ BackingOf(a, v) < Frames
    BY <2>1, <2>2, <2>4, <2>6, BackingInside
  <2> QED
    BY <2>3, <2>7, Numbers
<1> HIDE DEF S
<1> QED
  BY <1>1, <1>3, <1>4, GivenBack

LEMMA LinearFreeInv ==
    ASSUME MemoryInv, NEW p \in Processes, NEW size \in Sizes, NEW target \in LinearHeap(size),
           LinearFree(p, target, size)
    PROVE  MemoryInv'
<1> DEFINE f == target - LINEAR_HEAP_VADDR
           S == Span(f, size)
<1>1. /\ Exists(p) /\ Occupied(process[p].areas, target, size) /\ Free(S)
      /\ UNCHANGED <<thread, shared_memory>>
      /\ process' = [process EXCEPT ![p] = WithoutMemory(@, target, size, S)]
  BY DEF LinearFree, Running
<1>2. size \in Nat /\ 1 <= size /\ f \in Nat /\ f + size <= Frames /\ target = LINEAR_HEAP_VADDR + f
  BY CallSizes
<1> HIDE DEF f
<1>3. target \in Nat /\ target + size <= MAX_ADDRESS
  BY <1>2, LinearUsable DEF Usable
<1>4. S \in SUBSET FCRAM
  BY <1>2, Numbers DEF Span
<1> HIDE DEF S
<1> QED
  BY <1>1, <1>2, <1>3, <1>4, GivenBack

(* The areas of a process change, and nothing else.                        *)
LEMMA AreasChanged ==
    ASSUME MemoryInv, NEW p \in Processes, Exists(p), NEW as, KeepsSpace(process[p].areas, as),
           process' = [process EXCEPT ![p].areas = as],
           UNCHANGED <<free_blocks, thread, shared_memory>>
    PROVE  MemoryInv'
<1> DEFINE P == process[p]
           Q == [P EXCEPT !.areas = as]
<1>1. P \in Process
  BY LiveProcess
<1>2. process' = [process EXCEPT ![p] = Q]
  OBVIOUS
<1>3. Tiled(as)
  BY DEF KeepsSpace
<1> HIDE DEF P
<1>4. Q \in Process /\ Q.areas = as /\ Q.tls_slots = P.tls_slots
  BY <1>1, <1>3, NewAreas
<1>5. free_blocks' \subseteq FCRAM
  BY DEF MemoryInv
<1> HIDE DEF Q
<1> QED
  BY <1>2, <1>4, <1>5, MemoryStep DEF P

LEMMA KeepsTwice ==
    ASSUME NEW as, NEW b, NEW c, KeepsSpace(as, b), KeepsSpace(b, c)
    PROVE  KeepsSpace(as, c)
BY DEF KeepsSpace

LEMMA TargetUsable ==
    ASSUME NEW size \in Sizes, NEW target \in Targets(size)
    PROVE  Usable(target, size) /\ target \in Pages /\ target \in Nat
<1>1. target \in Heap(size) \/ target \in LinearHeap(size)
  BY DEF Targets
<1>2. CASE target \in Heap(size)
  BY <1>2, CallSizes, HeapUsable
<1>3. CASE target \in LinearHeap(size)
  <2> DEFINE f == target - LINEAR_HEAP_VADDR
  <2>1. size \in Nat /\ 1 <= size /\ f \in Nat /\ f + size <= Frames
        /\ target = LINEAR_HEAP_VADDR + f
    BY <1>3, CallSizes
  <2> HIDE DEF f
  <2> QED
    BY <2>1, LinearUsable DEF Usable
<1> QED
  BY <1>1, <1>2, <1>3

LEMMA MapInv ==
    ASSUME MemoryInv, NEW p \in Processes, NEW size \in Sizes, NEW source \in Heap(size),
           NEW target \in Targets(size), Map(p, target, source, size, "ReadWrite")
    PROVE  MemoryInv'
<1> DEFINE as == process[p].areas
           marked == ChangeMemoryState(as, source, size, "Aliased", "ReadWrite")
           blocks == BackingBlocks(marked, source, size)
           r == MapBlocks(marked, target, blocks, "Alias", "ReadWrite")
<1>1. /\ Exists(p) /\ Vacant(as, target, size)
      /\ MayChangeState(as, source, size, "Private", "ReadWrite")
      /\ process' = [process EXCEPT ![p].areas = r]
      /\ UNCHANGED <<free_blocks, thread, shared_memory>>
  BY DEF Map, Running
<1>2. Tiled(as) /\ FreeMerged(as)
  BY <1>1, LiveProcess
<1>3. size \in Nat /\ 1 <= size /\ source \in Nat /\ source + size <= MAX_ADDRESS
  BY CallSizes, HeapUsable DEF Usable
<1>4. Usable(target, size) /\ target \in Pages
  BY TargetUsable
<1>5. Occupied(as, source, size)
  BY <1>1, MayChangeOccupied
<1> HIDE DEF as
<1>6. KeepsSpace(as, marked) /\ \A v \in Pages : FreePage(marked, v) <=> FreePage(as, v)
  <2>1. marked = Walk(as, source, size, "ReadWrite", "Aliased")
    BY DEF ChangeMemoryState
  <2>2. "ReadWrite" \in Perms /\ "Aliased" \in Used \cup {Kept}
    BY DEF Perms, Used
  <2> HIDE DEF marked
  <2> QED
    <3>1. Reused(as, marked)
      BY <1>2, <1>3, <1>5, <2>1, <2>2, ChangeKept
    <3> QED
      BY <3>1 DEF Reused
<1>7. Tiled(marked) /\ FreeMerged(marked)
  BY <1>6 DEF KeepsSpace
<1> HIDE DEF marked
<1>8. BlocksFit(blocks, size)
  <2>1. \A v \in Pages : InSpan(v, source, size) => ~FreePage(marked, v)
    BY <1>2, <1>3, <1>5, <1>6, OccupiedPages
  <2> QED
    BY <1>3, <1>7, <2>1, BackingBlocksFit
<1>9. \A v \in Pages : InSpan(v, target, size) => FreePage(marked, v)
  BY <1>1, <1>2, <1>3, <1>4, <1>6, VacantPages
<1>10. KeepsSpace(marked, r)
  <2>1. "ReadWrite" \in Perms /\ "Alias" \in Used
    BY DEF Perms, Used
  <2> HIDE DEF blocks
  <2> QED
    BY <1>4, <1>7, <1>8, <1>9, <2>1, BlocksKept
<1> HIDE DEF r
<1>11. KeepsSpace(as, r)
  BY <1>6, <1>10, KeepsTwice
<1> QED
  BY <1>1, <1>11, AreasChanged DEF as

LEMMA UnmapInv ==
    ASSUME MemoryInv, NEW p \in Processes, NEW size \in Sizes, NEW source \in Heap(size),
           NEW target \in Targets(size), Unmap(p, target, source, size, "ReadWrite")
    PROVE  MemoryInv'
<1> DEFINE as == process[p].areas
           unmapped == UnmapRange(as, target, size)
           may == MayChangeState(unmapped, source, size, "Aliased", "None")
           r == IF may THEN ChangeMemoryState(unmapped, source, size, "Private", "ReadWrite")
                ELSE unmapped
<1>1. /\ Exists(p) /\ Occupied(as, target, size) /\ process' = [process EXCEPT ![p].areas = r]
      /\ UNCHANGED <<free_blocks, thread, shared_memory>>
  BY DEF Unmap, Running
<1>2. Tiled(as) /\ FreeMerged(as)
  BY <1>1, LiveProcess
<1>3. size \in Nat /\ 1 <= size /\ source \in Nat /\ source + size <= MAX_ADDRESS
  BY CallSizes, HeapUsable DEF Usable
<1>4. target \in Nat /\ target + size <= MAX_ADDRESS
  BY TargetUsable DEF Usable
<1> HIDE DEF as
<1>5. KeepsSpace(as, unmapped)
  BY <1>1, <1>2, <1>3, <1>4, UnmapKept
<1>6. Tiled(unmapped) /\ FreeMerged(unmapped)
  BY <1>5 DEF KeepsSpace
<1> HIDE DEF unmapped
<1>7. KeepsSpace(as, r)
  <2>1. CASE may
    <3>1. r = Walk(unmapped, source, size, "ReadWrite", "Private")
      BY <2>1 DEF ChangeMemoryState
    <3>2. Occupied(unmapped, source, size)
      BY <2>1, MayChangeOccupied
    <3>3. "ReadWrite" \in Perms /\ "Private" \in Used \cup {Kept}
      BY DEF Perms, Used
    <3> HIDE DEF r, may
    <3>4. KeepsSpace(unmapped, r)
      BY <1>3, <1>6, <3>1, <3>2, <3>3, ChangeKept DEF Reused
    <3> QED
      BY <1>5, <3>4, KeepsTwice
  <2>2. CASE ~may
    BY <1>5, <2>2
  <2> QED
    BY <2>1, <2>2
<1> HIDE DEF r
<1> QED
  BY <1>1, <1>7, AreasChanged DEF as

LEMMA ProtectInv ==
    ASSUME MemoryInv, NEW p \in Processes, NEW size \in Sizes, NEW target \in Heap(size),
           NEW perms \in Permissions, Protect(p, target, size, perms)
    PROVE  MemoryInv'
<1> DEFINE as == process[p].areas
           r == ReprotectRange(as, target, size, perms)
<1>1. /\ Exists(p) /\ Occupied(as, target, size) /\ process' = [process EXCEPT ![p].areas = r]
      /\ UNCHANGED <<free_blocks, thread, shared_memory>>
  BY DEF Protect, Running
<1>2. Tiled(as) /\ FreeMerged(as)
  BY <1>1, LiveProcess
<1>3. size \in Nat /\ 1 <= size /\ target \in Nat /\ target + size <= MAX_ADDRESS
  BY CallSizes, HeapUsable DEF Usable
<1>4. r = Walk(as, target, size, perms, Kept)
  BY DEF ReprotectRange
<1>5. perms \in Perms /\ Kept \in Used \cup {Kept}
  BY PermissionsOf
<1> HIDE DEF as, r
<1>6. KeepsSpace(as, r)
  <2>1. Occupied(as, target, size)
    BY <1>1
  <2>2. Reused(as, r)
    BY <1>2, <1>3, <1>4, <1>5, <2>1, ChangeKept
  <2> QED
    BY <2>2 DEF Reused
<1> QED
  BY <1>1, <1>6, AreasChanged DEF as, r

(* Blocks of shared memory.                                                *)
LEMMA CreateAutomaticInv ==
    ASSUME MemoryInv, NEW p \in Processes, NEW s \in Blocks, NEW size \in Sizes,
           CreateAutomatic(p, s, size)
    PROVE  MemoryInv'
<1> DEFINE A == Rows(FreeBase, size)
           f == Lowest(A)
           S == Span(f, size)
           b == [owner_process |-> p, base_address |-> 0, size |-> size, holding_memory |-> S,
                 backing_blocks |-> BlocksOf(S)]
           P == process[p]
           Q == [P EXCEPT !.memory_used = P.memory_used + size]
<1>1. /\ Exists(p) /\ A # {} /\ Taken(S) /\ UNCHANGED thread
      /\ shared_memory' = [shared_memory EXCEPT ![s] = b]
      /\ process' = [process EXCEPT ![p] = Q]
  BY DEF CreateAutomatic, Running
<1>2. size \in Nat /\ 1 <= size
  BY CallSizes
<1>3. FreeBase \in SUBSET FCRAM
  BY Layout DEF FreeBase
<1>4. f \in Nat /\ S \in SUBSET FCRAM
  <2>1. A \in SUBSET Nat
    <3>1. FreeBase \in SUBSET Nat
      BY <1>3, Numbers
    <3>2. A \in SUBSET FreeBase
      BY DEF Rows
    <3> QED
      BY <3>1, <3>2
  <2>2. f \in A
    BY <1>1, <2>1, LowestIn
  <2> HIDE DEF f
  <2> QED
    BY <1>3, <2>1, <2>2 DEF Rows
<1> HIDE DEF A, f
<1>5. f + size <= Frames /\ Cardinality(S) = size
  <2>1. f + size - 1 \in S
    BY <1>2, <1>4 DEF Span
  <2>2. f + size - 1 < Frames
    BY <1>4, <2>1, Numbers
  <2>3. Cardinality(S) = size
    BY <1>2, <1>4, FS_Interval DEF Span
  <2> QED
    BY <1>2, <1>4, <2>2, <2>3, Numbers
<1>6. BlocksOf(S)[1].backing = f
  BY <1>2, <1>4, FirstOfRow
<1>7. BlocksFit(BlocksOf(S), size)
  BY <1>4, <1>5, BlocksOfFit
<1> HIDE DEF S
<1>8. BlockFits(b) /\ b.owner_process = p
  <2>1. BlocksOf(S) \in Seq(Block)
    BY <1>7 DEF BlocksFit
  <2>2. b \in SharedBlock
    BY <1>2, <1>4, <2>1 DEF SharedBlock
  <2> QED
    BY <1>2, <1>4, <1>5, <1>6, <1>7, <2>2 DEF BlockFits
<1>9. P \in Process /\ Tiled(P.areas) /\ FreeMerged(P.areas)
  BY <1>1, LiveProcess
<1> HIDE DEF P
<1>10. Q \in Process /\ Q.areas = P.areas /\ Q.tls_slots = P.tls_slots
  <2>1. Q = Using(P, P.memory_used + size)
    BY DEF Using
  <2>2. P.memory_used + size \in Int
    BY <1>2, <1>9, ProcessFields
  <2> HIDE DEF Q
  <2> QED
    BY <1>9, <2>1, <2>2, NewUsed
<1>11. KeepsSpace(P.areas, Q.areas)
  BY <1>9, <1>10 DEF KeepsSpace
<1> HIDE DEF Q, b
<1>12. /\ process' \in [Processes -> Process \cup {NoProcess}]
       /\ \A q \in Processes : Exists(q)' <=> Exists(q)
       /\ \A q \in Live' : Space(process'[q]) /\ SlotsOwned(q)'
  BY <1>1, <1>10, <1>11, MemoryChanged DEF P
<1>13. DOMAIN shared_memory' = Blocks /\ \A x \in LiveBlocks' : BlockSound(x)'
  BY <1>1, <1>8, <1>12, BlockChanged
<1>14. free_blocks' \subseteq FCRAM /\ thread' \in [Threads -> Thread \cup {NoThread}]
  BY <1>1 DEF Taken, MemoryInv
<1> QED
  BY <1>12, <1>13, <1>14 DEF MemoryInv

LEMMA CreateFromHeapInv ==
    ASSUME MemoryInv, NEW p \in Processes, NEW s \in Blocks, NEW size \in Sizes,
           NEW address \in Heap(size), CreateFromHeap(p, s, address, size, "ReadWrite")
    PROVE  MemoryInv'
<1> DEFINE P == process[p]
           may == MayChangeState(P.areas, address, size, "Private", "ReadWrite")
           lent == ChangeMemoryState(P.areas, address, size, "Locked", "ReadWrite")
           b == [owner_process |-> p, base_address |-> address, size |-> size,
                 holding_memory |-> {}, backing_blocks |-> BackingBlocks(lent, address, size)]
           Q == IF may THEN [P EXCEPT !.areas = lent]
                ELSE [P EXCEPT !.memory_used = P.memory_used - size]
<1>1. /\ Exists(p) /\ UNCHANGED <<free_blocks, thread>>
      /\ process' = [process EXCEPT ![p] = Q]
      /\ shared_memory' = IF may THEN [shared_memory EXCEPT ![s] = b] ELSE shared_memory
  BY DEF CreateFromHeap, Running
<1>2. P \in Process /\ Tiled(P.areas) /\ FreeMerged(P.areas)
  BY <1>1, LiveProcess
<1>3. size \in Nat /\ 1 <= size /\ address \in Nat /\ 1 <= address
      /\ address + size <= HEAP_VADDR_END /\ address + size <= MAX_ADDRESS
  BY CallSizes, HeapUsable DEF Usable
<1> HIDE DEF P
<1>4. /\ Q \in Process /\ Q.tls_slots = P.tls_slots /\ KeepsSpace(P.areas, Q.areas)
      /\ may => BlockFits(b) /\ b.owner_process = p
  <2>1. CASE may
    <3>1. lent = Walk(P.areas, address, size, "ReadWrite", "Locked")
      BY DEF ChangeMemoryState
    <3>2. "ReadWrite" \in Perms /\ "Locked" \in Used \cup {Kept}
      BY DEF Perms, Used
    <3>3. Occupied(P.areas, address, size)
      BY <2>1, MayChangeOccupied
    <3> HIDE DEF lent
    <3>4. KeepsSpace(P.areas, lent) /\ \A v \in Pages : FreePage(lent, v) <=> FreePage(P.areas, v)
      BY <1>2, <1>3, <3>1, <3>2, <3>3, ChangeKept DEF Reused
    <3>5. Tiled(lent)
      BY <3>4 DEF KeepsSpace
    <3>6. \A v \in Pages : InSpan(v, address, size) => ~FreePage(lent, v)
      BY <1>2, <1>3, <3>3, <3>4, OccupiedPages
    <3>7. BlocksFit(BackingBlocks(lent, address, size), size)
      BY <1>3, <3>5, <3>6, BackingBlocksFit
    <3>8. BlockFits(b) /\ b.owner_process = p
      <4> DEFINE bs == BackingBlocks(lent, address, size)
      <4> HIDE DEF bs
      <4>1. bs \in Seq(Block) /\ BlocksFit(bs, size)
        BY <3>7 DEF BlocksFit, bs
      <4>2. b = [owner_process |-> p, base_address |-> address, size |-> size,
                 holding_memory |-> {}, backing_blocks |-> bs]
        BY DEF bs
      <4> HIDE DEF b
      <4>3. b \in SharedBlock
        BY <1>3, <4>1, <4>2 DEF SharedBlock
      <4> QED
        BY <1>3, <4>1, <4>2, <4>3 DEF BlockFits
    <3>9. Q = [P EXCEPT !.areas = lent]
      BY <2>1
    <3> HIDE DEF Q, b, may
    <3>10. Q \in Process /\ Q.areas = lent /\ Q.tls_slots = P.tls_slots
      BY <1>2, <3>5, <3>9, NewAreas
    <3> QED
      BY <3>4, <3>8, <3>10
  <2>2. CASE ~may
    <3>1. Q = Using(P, P.memory_used - size)
      BY <2>2 DEF Using
    <3> HIDE DEF Q
    <3>2. P.memory_used - size \in Int
      BY <1>2, <1>3, ProcessFields
    <3>3. Q \in Process /\ Q.areas = P.areas /\ Q.tls_slots = P.tls_slots
      BY <1>2, <3>1, <3>2, NewUsed
    <3> QED
      BY <1>2, <2>2, <3>3 DEF KeepsSpace
  <2> QED
    BY <2>1, <2>2
<1> HIDE DEF Q, b, may
<1>5. /\ process' \in [Processes -> Process \cup {NoProcess}]
      /\ \A q \in Processes : Exists(q)' <=> Exists(q)
      /\ \A q \in Live' : Space(process'[q]) /\ SlotsOwned(q)'
  BY <1>1, <1>4, MemoryChanged DEF P
<1>6. DOMAIN shared_memory' = Blocks /\ \A x \in LiveBlocks' : BlockSound(x)'
  <2>1. CASE may
    BY <1>1, <1>4, <1>5, <2>1, BlockChanged
  <2>2. CASE ~may
    BY <1>1, <1>5, <2>2, BlocksStay
  <2> QED
    BY <2>1, <2>2
<1>7. free_blocks' \subseteq FCRAM /\ thread' \in [Threads -> Thread \cup {NoThread}]
  BY <1>1 DEF MemoryInv
<1> QED
  BY <1>5, <1>6, <1>7 DEF MemoryInv

LEMMA MapBlockInv ==
    ASSUME MemoryInv, NEW p \in Processes, NEW s \in Blocks, NEW address \in Heap(1) \cup {0},
           MapBlock(p, s, address, "ReadWrite")
    PROVE  MemoryInv'
<1> DEFINE as == process[p].areas
           b == shared_memory[s]
           target == IF b.base_address = 0 /\ address = 0
                     THEN LINEAR_HEAP_VADDR + b.backing_blocks[1].backing ELSE address
           r == MapBlocks(as, target, b.backing_blocks, "Shared", "ReadWrite")
<1>1. /\ Exists(p) /\ b # NoBlock /\ target # 0 /\ Vacant(as, target, b.size)
      /\ address # 0 => address + b.size < SHARED_MEMORY_VADDR_END
      /\ process' = [process EXCEPT ![p].areas = r]
      /\ UNCHANGED <<free_blocks, thread, shared_memory>>
  BY DEF MapBlock, Running, Automatic
<1>2. Tiled(as) /\ FreeMerged(as)
  BY <1>1, LiveProcess
<1>3. BlockFits(b)
  BY <1>1 DEF MemoryInv, LiveBlocks, BlockSound
<1>4. b.size \in Nat /\ 1 <= b.size /\ BlocksFit(b.backing_blocks, b.size)
  BY <1>3 DEF BlockFits, SharedBlock
<1>5. address \in Nat
  <2>1. \A v \in Heap(1) : v \in Nat
    BY Layout DEF Heap, HEAP_VADDR
  <2> QED
    BY <2>1
<1> HIDE DEF as
<1>6. Usable(target, b.size) /\ target \in Pages
  <2>1. CASE b.base_address = 0 /\ address = 0
    <3> DEFINE f == b.backing_blocks[1].backing
    <3>1. f \in Nat /\ f + b.size <= Frames /\ target = LINEAR_HEAP_VADDR + f
      BY <1>3, <2>1 DEF BlockFits
    <3> HIDE DEF f, target, b
    <3> QED
      BY <1>4, <3>1, LinearUsable
  <2>2. CASE ~(b.base_address = 0 /\ address = 0)
    <3>1. target = address /\ address # 0
      BY <1>1, <2>2
    <3>2. address + b.size < SHARED_MEMORY_VADDR_END
      BY <1>1, <3>1
    <3> HIDE DEF target, b
    <3>3. address + b.size <= HEAP_VADDR_END
      BY <1>4, <1>5, <3>2, Layout
    <3> QED
      BY <1>4, <1>5, <3>1, <3>3, HeapUsable
  <2> QED
    BY <2>1, <2>2
<1> HIDE DEF target, b
<1>7. \A v \in Pages : InSpan(v, target, b.size) => FreePage(as, v)
  BY <1>1, <1>2, <1>4, <1>6, VacantPages
<1>8. "Shared" \in Used /\ "ReadWrite" \in Perms
  BY DEF Used, Perms
<1>9. KeepsSpace(as, r)
  BY <1>2, <1>4, <1>6, <1>7, <1>8, BlocksKept
<1> HIDE DEF r
<1> QED
  BY <1>1, <1>9, AreasChanged DEF as

(* What is unmapped ends below the page that is never mapped.              *)
LEMMA UnmapBlockInv ==
    ASSUME MemoryInv, NEW p \in Processes, NEW s \in Blocks, NEW address \in Heap(1),
           UnmapBlock(p, s, address)
    PROVE  MemoryInv'
<1> DEFINE as == process[p].areas
           size == shared_memory[s].size
           r == UnmapRange(as, address, size)
<1>1. /\ Exists(p) /\ shared_memory[s] # NoBlock /\ Occupied(as, address, size)
      /\ process' = [process EXCEPT ![p].areas = r]
      /\ UNCHANGED <<free_blocks, thread, shared_memory>>
  BY DEF UnmapBlock, Running
<1>2. Tiled(as) /\ FreeMerged(as) /\ FreePage(as, HEAP_VADDR_END)
  BY <1>1, LiveProcess DEF Space
<1>3. size \in Nat /\ 1 <= size
  <2>1. BlockFits(shared_memory[s])
    BY <1>1 DEF MemoryInv, LiveBlocks, BlockSound
  <2> QED
    BY <2>1 DEF BlockFits, SharedBlock
<1>4. address \in Nat /\ address < HEAP_VADDR_END
  BY Layout DEF Heap, HEAP_VADDR
<1> HIDE DEF as, size
<1>5. HEAP_VADDR_END \in Pages /\ HEAP_VADDR_END < MAX_ADDRESS
  BY Layout, Numbers DEF Pages
<1>6. ~InSpan(HEAP_VADDR_END, address, size)
  BY <1>1, <1>2, <1>3, <1>4, <1>5, OccupiedPages
<1>7. address + size <= MAX_ADDRESS
  BY <1>3, <1>4, <1>5, <1>6, Layout, Numbers DEF InSpan
<1>8. KeepsSpace(as, r)
  BY <1>1, <1>2, <1>3, <1>4, <1>7, UnmapKept
<1> HIDE DEF r
<1> QED
  BY <1>1, <1>8, AreasChanged DEF as

LEMMA ReturnedKept ==
    ASSUME NEW P \in Process, Tiled(P.areas), FreeMerged(P.areas), NEW b, BlockFits(b),
           NEW Q, Q = Returned(P, b)
    PROVE  Q \in Process /\ Q.tls_slots = P.tls_slots /\ KeepsSpace(P.areas, Q.areas)
<1> DEFINE address == b.base_address
           size == b.size
           may == MayChangeState(P.areas, address, size, "Locked", "None")
<1>1. address \in Nat /\ size \in Nat /\ 1 <= size
      /\ (address # 0 => address + size <= HEAP_VADDR_END)
  BY DEF BlockFits, SharedBlock
<1>2. CASE address = 0
  <2>1. Q = Using(P, P.memory_used - size)
    BY <1>2 DEF Returned, Using
  <2> HIDE DEF size
  <2>3. P.memory_used - size \in Int
    BY <1>1, ProcessFields
  <2>2. Q \in Process /\ Q.areas = P.areas /\ Q.tls_slots = P.tls_slots
    BY <2>1, <2>3, NewUsed
  <2> QED
    BY <2>2 DEF KeepsSpace
<1>3. CASE address # 0 /\ may
  <2> DEFINE as == ChangeMemoryState(P.areas, address, size, "Private", "ReadWrite")
  <2>1. Q = [P EXCEPT !.areas = as]
    BY <1>3 DEF Returned
  <2>2. as = Walk(P.areas, address, size, "ReadWrite", "Private")
    BY DEF ChangeMemoryState
  <2>3. "ReadWrite" \in Perms /\ "Private" \in Used \cup {Kept}
    BY DEF Perms, Used
  <2>4. Occupied(P.areas, address, size)
    BY <1>3, MayChangeOccupied
  <2> HIDE DEF as, address, size
  <2>5. address + size <= MAX_ADDRESS
    BY <1>1, <1>3, HeapUsable DEF Usable
  <2>6. KeepsSpace(P.areas, as)
    BY <1>1, <2>2, <2>3, <2>4, <2>5, ChangeKept DEF Reused
  <2>7. Tiled(as)
    BY <2>6 DEF KeepsSpace
  <2>8. Q \in Process /\ Q.areas = as /\ Q.tls_slots = P.tls_slots
    BY <2>1, <2>7, NewAreas
  <2> QED
    BY <2>6, <2>8
<1>4. CASE address # 0 /\ ~may
  <2>1. Q = P
    BY <1>4 DEF Returned
  <2> QED
    BY <2>1 DEF KeepsSpace
<1> QED
  BY <1>2, <1>3, <1>4

LEMMA DestroyBlockInv ==
    ASSUME MemoryInv, NEW s \in Blocks, DestroyBlock(s)
    PROVE  MemoryInv'
<1> DEFINE b == shared_memory[s]
           p == b.owner_process
           P == process[p]
           Q == Returned(P, b)
<1>1. /\ b # NoBlock /\ Free(b.holding_memory) /\ UNCHANGED thread
      /\ shared_memory' = [shared_memory EXCEPT ![s] = NoBlock]
      /\ process' = IF p = NoProcess THEN process ELSE [process EXCEPT ![p] = Q]
  BY DEF DestroyBlock
<1>2. BlockFits(b) /\ (p # NoProcess => Exists(p))
  BY <1>1 DEF MemoryInv, LiveBlocks, BlockSound
<1>3. p \in Processes \cup {NoProcess} /\ b.holding_memory \in SUBSET FCRAM
  BY <1>2 DEF BlockFits, SharedBlock
<1> HIDE DEF b, p
<1>4. /\ process' \in [Processes -> Process \cup {NoProcess}]
      /\ \A q \in Processes : Exists(q)' <=> Exists(q)
      /\ \A q \in Live' : Space(process'[q]) /\ SlotsOwned(q)'
  <2>1. CASE p = NoProcess
    <3>1. UNCHANGED <<process, thread>>
      BY <1>1, <2>1
    <3> QED
      BY <3>1, ProcessesStay
  <2>2. CASE p # NoProcess
    <3>1. p \in Processes /\ Exists(p)
      BY <1>2, <1>3, <2>2
    <3>2. P \in Process /\ Tiled(P.areas) /\ FreeMerged(P.areas)
      BY <3>1, LiveProcess
    <3>3. process' = [process EXCEPT ![p] = Q]
      BY <1>1, <2>2
    <3> HIDE DEF P
    <3>4. Q \in Process /\ Q.tls_slots = P.tls_slots /\ KeepsSpace(P.areas, Q.areas)
      BY <1>2, <3>2, ReturnedKept
    <3> HIDE DEF Q
    <3> QED
      BY <1>1, <3>1, <3>3, <3>4, MemoryChanged DEF P
  <2> QED
    BY <2>1, <2>2
<1>5. DOMAIN shared_memory' = Blocks /\ \A x \in LiveBlocks' : BlockSound(x)'
  BY <1>1, <1>4, BlockChanged
<1>6. free_blocks' \subseteq FCRAM /\ thread' \in [Threads -> Thread \cup {NoThread}]
  BY <1>1, <1>3 DEF Free, MemoryInv
<1> QED
  BY <1>4, <1>5, <1>6 DEF MemoryInv

(***************************************************************************)
(* Thread-local storage.                                                   *)
(***************************************************************************)
IsUsed(P, n, i) == n \in 1..Len(P.tls_slots) /\ i \in P.tls_slots[n]

LEMMA SlotSets ==
    ASSUME NEW P \in Process
    PROVE  /\ Len(P.tls_slots) \in Nat
           /\ \A n \in 1..Len(P.tls_slots) : P.tls_slots[n] \in SUBSET (0..(TLS_ENTRIES - 1))
BY ProcessFields, LenProperties, ElementOfSeq

(* A slot is free in a page that is there, or every page is in use.        *)
LEMMA TlsSlotFits ==
    ASSUME NEW P \in Process
    PROVE  /\ NeedsTlsPage(P) => /\ TlsSlot(P) = <<Len(P.tls_slots) + 1, 0>>
                                 /\ \A n \in 1..Len(P.tls_slots) : P.tls_slots[n] # {}
           /\ ~NeedsTlsPage(P) => \E n \in 1..Len(P.tls_slots), i \in 0..(TLS_ENTRIES - 1) :
                                      TlsSlot(P) = <<n, i>> /\ i \notin P.tls_slots[n]
<1> DEFINE slots == P.tls_slots
           E == 0..(TLS_ENTRIES - 1)
           free == {n \in 1..Len(slots) : Cardinality(slots[n]) < TLS_ENTRIES}
           n == Lowest(free)
           i == Lowest(E \ slots[n])
<1>1. TLS_ENTRIES \in Nat /\ TLS_ENTRIES > 0 /\ Cardinality(E) = TLS_ENTRIES
  BY BoundsAssumption, FS_Interval
<1>2. Len(slots) \in Nat /\ \A m \in 1..Len(slots) : slots[m] \in SUBSET E
  BY SlotSets
<1>3. TlsSlot(P) = IF free = {} THEN <<Len(slots) + 1, 0>> ELSE <<n, i>>
  BY DEF TlsSlot
<1>4. CASE free = {}
  <2>1. TlsSlot(P) = <<Len(slots) + 1, 0>>
    BY <1>3, <1>4
  <2> HIDE DEF slots
  <2>2. TlsSlot(P)[1] = Len(slots) + 1
    BY <2>1
  <2>3. NeedsTlsPage(P)
    BY <1>2, <2>2 DEF NeedsTlsPage, slots
  <2>4. ASSUME NEW m \in 1..Len(slots)
        PROVE  slots[m] # {}
    <3>1. ~(Cardinality(slots[m]) < TLS_ENTRIES)
      BY <1>4
    <3> QED
      BY <1>1, <3>1, FS_EmptySet
  <2> QED
    BY <2>1, <2>3, <2>4 DEF slots
<1>5. CASE free # {}
  <2> HIDE DEF slots, E
  <2>1. n \in free
    <3>1. free \in SUBSET Nat
      BY <1>2
    <3> HIDE DEF free
    <3> QED
      BY <1>5, <3>1, LowestIn
  <2>2. n \in 1..Len(slots) /\ Cardinality(slots[n]) < TLS_ENTRIES
    <3> HIDE DEF n
    <3> QED
      BY <2>1
  <2> HIDE DEF free, n
  <2>3. i \in E /\ i \notin slots[n]
    <3>1. E \ slots[n] # {}
      <4> SUFFICES ASSUME slots[n] = E
                   PROVE  FALSE
        BY <1>2, <2>2
      <4> QED
        BY <1>1, <2>2
    <3>2. E \ slots[n] \in SUBSET Nat
      BY <1>1 DEF E
    <3> QED
      BY <3>1, <3>2, LowestIn
  <2> HIDE DEF i
  <2>4. TlsSlot(P) = <<n, i>>
    BY <1>3, <1>5
  <2>5. TlsSlot(P)[1] = n
    BY <2>4
  <2>6. ~NeedsTlsPage(P)
    BY <1>2, <2>2, <2>5 DEF NeedsTlsPage, slots
  <2> QED
    BY <2>2, <2>3, <2>4, <2>6 DEF slots, E
<1> QED
  BY <1>4, <1>5

(* With a slot more, in a new page if it has to be.                        *)
LEMMA TlsKept ==
    ASSUME NEW P \in Process, Space(P), NEW f,
           NeedsTlsPage(P) => f \in FCRAM /\ Len(P.tls_slots) < Cardinality(Threads),
           NEW Q, Q = WithTls(P, f)
    PROVE  /\ Q \in Process /\ Space(Q) /\ TlsSlot(P) \in Nat \X Nat
           /\ \A n, i : IsUsed(Q, n, i) <=> IsUsed(P, n, i) \/ TlsSlot(P) = <<n, i>>
           /\ \A n, i : TlsSlot(P) = <<n, i>> => ~IsUsed(P, n, i)
<1> DEFINE slots == P.tls_slots
           E == 0..(TLS_ENTRIES - 1)
<1>1. TLS_ENTRIES \in Nat /\ TLS_ENTRIES > 0
  BY BoundsAssumption
<1>2. /\ Len(slots) \in Nat /\ slots \in Seq(SUBSET E)
      /\ \A m \in 1..Len(slots) : slots[m] \in SUBSET E
  BY SlotSets, ProcessFields
<1>3. CASE NeedsTlsPage(P)
  <2> DEFINE target == TLS_AREA_VADDR + Len(slots)
             as == MapBackingMemory(P.areas, target, f, 1, "Locked")
             held == P.holding_tls_memory \cup {f}
             used == P.memory_used + 1
             longer == Append(slots, {0})
  <2>1. TlsSlot(P) = <<Len(slots) + 1, 0>>
    BY <1>3, TlsSlotFits
  <2>2. Q = [P EXCEPT !.holding_tls_memory = held, !.memory_used = used, !.tls_slots = longer,
                      !.areas = as]
    BY <1>3 DEF WithTls
  <2>3. longer \in Seq(SUBSET E) /\ Len(longer) = Len(slots) + 1
        /\ longer[Len(slots) + 1] = {0} /\ \A m \in 1..Len(slots) : longer[m] = slots[m]
    <3>1. {0} \in SUBSET E
      BY <1>1
    <3> HIDE DEF E, slots
    <3> QED
      BY <1>2, <3>1, AppendProperties
  <2>4. held \in SUBSET FCRAM /\ used \in Int
    BY <1>3, ProcessFields
  <2>5. /\ f \in Nat /\ f + 1 <= Frames /\ target \in Nat /\ target + 1 <= MAX_ADDRESS
        /\ target > HEAP_VADDR_END
    <3>1. f \in Nat /\ f + 1 <= Frames
      BY <1>3, Numbers
    <3>2. Len(slots) < Cardinality(Threads)
      BY <1>3
    <3> HIDE DEF slots
    <3> QED
      BY <1>2, <3>1, <3>2, Layout, Numbers
  <2>6. \A v \in Pages : v >= target => FreePage(P.areas, v)
    BY DEF Space
  <2> HIDE DEF target
  <2>7. /\ Tiled(as) /\ FreeMerged(as)
        /\ \A v \in Pages : FreePage(as, v) <=> FreePage(P.areas, v) /\ ~InSpan(v, target, 1)
    <3>1. \A v \in Pages : InSpan(v, target, 1) => FreePage(P.areas, v)
      BY <2>6 DEF InSpan
    <3>2. Tiled(P.areas) /\ FreeMerged(P.areas) /\ "Locked" \in Used
      BY DEF Space, Used
    <3>3. 1 \in Nat /\ 1 <= 1
      OBVIOUS
    <3> QED
      BY <2>5, <3>1, <3>2, <3>3, MapPages DEF Filled
  <2> HIDE DEF as, held, used, longer
  <2>8. as \in SUBSET Area
    BY <2>7, Zenon DEF Tiled
  <2>9. Q \in Process /\ Q.areas = as /\ Q.tls_slots = longer
    BY <2>2, <2>3, <2>4, <2>8 DEF Process
  <2>10. Space(Q)
    <3>1. HEAP_VADDR_END \in Pages
      BY Layout, Numbers DEF Pages
    <3>2. FreePage(as, HEAP_VADDR_END)
      <4>1. FreePage(P.areas, HEAP_VADDR_END)
        BY DEF Space
      <4>2. ~InSpan(HEAP_VADDR_END, target, 1)
        BY <2>5, Layout DEF InSpan
      <4> QED
        BY <2>7, <3>1, <4>1, <4>2
    <3>3. ASSUME NEW v \in Pages, v >= TLS_AREA_VADDR + Len(longer)
          PROVE  FreePage(as, v)
      <4>1. v >= target + 1 /\ v \in Nat
        BY <1>2, <2>3, <3>3, Layout, PageNumber DEF target
      <4>2. v >= target /\ ~InSpan(v, target, 1)
        BY <2>5, <4>1 DEF InSpan
      <4> QED
        BY <2>6, <2>7, <4>2
    <3> QED
      BY <2>7, <2>9, <3>2, <3>3 DEF Space
  <2>11. ASSUME NEW n, NEW i, IsUsed(Q, n, i)
         PROVE  IsUsed(P, n, i) \/ TlsSlot(P) = <<n, i>>
    <3>1. n \in 1..(Len(slots) + 1) /\ i \in longer[n]
      BY <2>3, <2>9, <2>11 DEF IsUsed
    <3>2. CASE n = Len(slots) + 1
      <4>1. i = 0
        BY <2>3, <3>1, <3>2
      <4> QED
        BY <2>1, <3>2, <4>1
    <3>3. CASE n # Len(slots) + 1
      <4>1. n \in 1..Len(slots)
        BY <1>2, <3>1, <3>3
      <4> QED
        BY <2>3, <3>1, <4>1 DEF IsUsed
    <3> QED
      BY <3>2, <3>3
  <2>12. TlsSlot(P) \in Nat \X Nat
    BY <1>2, <2>1
  <2>13. ASSUME NEW n, NEW i, IsUsed(P, n, i) \/ TlsSlot(P) = <<n, i>>
         PROVE  IsUsed(Q, n, i)
    <3>1. CASE IsUsed(P, n, i)
      <4>1. n \in 1..Len(slots) /\ i \in slots[n]
        BY <3>1 DEF IsUsed
      <4> HIDE DEF slots
      <4>2. n \in 1..(Len(slots) + 1) /\ i \in longer[n]
        BY <1>2, <2>3, <4>1
      <4> QED
        BY <2>3, <2>9, <4>2 DEF IsUsed
    <3>2. CASE TlsSlot(P) = <<n, i>>
      <4>1. n = Len(slots) + 1 /\ i = 0
        BY <2>1, <3>2
      <4> HIDE DEF slots
      <4>2. n \in 1..(Len(slots) + 1) /\ i \in longer[n]
        BY <1>2, <2>3, <4>1
      <4> QED
        BY <2>3, <2>9, <4>2 DEF IsUsed
    <3> QED
      BY <2>13, <3>1, <3>2
  <2>14. ASSUME NEW n, NEW i, TlsSlot(P) = <<n, i>>
         PROVE  ~IsUsed(P, n, i)
    <3>1. n = Len(slots) + 1
      BY <2>1, <2>14
    <3> QED
      BY <1>2, <3>1 DEF IsUsed
  <2> QED
    BY <2>9, <2>10, <2>11, <2>12, <2>13, <2>14
<1>4. CASE ~NeedsTlsPage(P)
  <2>1. PICK n \in 1..Len(slots), i \in E : TlsSlot(P) = <<n, i>> /\ i \notin slots[n]
    BY <1>4, TlsSlotFits
  <2> DEFINE more == [slots EXCEPT ![n] = slots[n] \cup {i}]
  <2>2. Q = [P EXCEPT !.tls_slots = more]
    BY <1>4, <2>1 DEF WithTls
  <2>3. more \in Seq(SUBSET E) /\ Len(more) = Len(slots) /\ more[n] = slots[n] \cup {i}
        /\ \A m \in 1..Len(slots) : m # n => more[m] = slots[m]
    <3>1. slots[n] \cup {i} \in SUBSET E
      BY <1>2
    <3> HIDE DEF E, slots
    <3> QED
      BY <1>2, <3>1, ExceptSeq
  <2> HIDE DEF more
  <2>4. Q \in Process /\ Q.areas = P.areas /\ Q.tls_slots = more
    BY <2>2, <2>3 DEF Process
  <2>5. Space(Q)
    BY <2>3, <2>4 DEF Space
  <2>6. ASSUME NEW m, NEW j, IsUsed(Q, m, j)
        PROVE  IsUsed(P, m, j) \/ TlsSlot(P) = <<m, j>>
    <3>1. m \in 1..Len(slots) /\ j \in more[m]
      BY <2>3, <2>4, <2>6 DEF IsUsed
    <3>2. CASE m = n
      BY <2>1, <2>3, <3>1, <3>2 DEF IsUsed
    <3>3. CASE m # n
      BY <2>3, <3>1, <3>3 DEF IsUsed
    <3> QED
      BY <3>2, <3>3
  <2>7. TlsSlot(P) \in Nat \X Nat
    BY <1>1, <1>2, <2>1
  <2>8. ASSUME NEW m, NEW j, IsUsed(P, m, j) \/ TlsSlot(P) = <<m, j>>
        PROVE  IsUsed(Q, m, j)
    <3>1. CASE IsUsed(P, m, j)
      <4>1. m \in 1..Len(slots) /\ j \in slots[m]
        BY <3>1 DEF IsUsed
      <4> HIDE DEF slots
      <4>2. j \in more[m]
        BY <2>3, <4>1
      <4> QED
        BY <2>3, <2>4, <4>1, <4>2 DEF IsUsed
    <3>2. CASE TlsSlot(P) = <<m, j>>
      <4>1. m = n /\ j = i
        BY <2>1, <3>2
      <4> QED
        BY <2>3, <2>4, <4>1 DEF IsUsed
    <3> QED
      BY <2>8, <3>1, <3>2
  <2>9. ASSUME NEW m, NEW j, TlsSlot(P) = <<m, j>>
        PROVE  ~IsUsed(P, m, j)
    <3>1. m = n /\ j = i
      BY <2>1, <2>9
    <3> QED
      BY <2>1, <3>1 DEF IsUsed
  <2> QED
    BY <2>4, <2>5, <2>6, <2>7, <2>8, <2>9
<1> QED
  BY <1>3, <1>4

(* A page for every thread is enough: one is added when all slots of the   *)
(* others are in use, and a page in use is that of a thread.               *)
LEMMA TlsRoom ==
    ASSUME MemoryInv, NEW p \in Processes, Exists(p), NEW t \in Threads, thread[t] = NoThread,
           NeedsTlsPage(process[p])
    PROVE  Len(process[p].tls_slots) < Cardinality(Threads)
<1> DEFINE slots == process[p].tls_slots
           k == Len(slots)
           T == Threads \ {t}
           g == [n \in 1..k |-> CHOOSE u \in ThreadsOf(p) : thread[u].slot[1] = n]
<1>1. process[p] \in Process /\ SlotsOwned(p)
  BY LiveProcess
<1>2. k \in Nat /\ \A n \in 1..k : slots[n] # {}
  BY <1>1, SlotSets, TlsSlotFits
<1>3. \A u \in ThreadsOf(p) : u \in T
  BY DEF ThreadsOf
<1>4. ASSUME NEW n \in 1..k
      PROVE  g[n] \in ThreadsOf(p) /\ thread[g[n]].slot[1] = n
  <2>1. PICK i : i \in slots[n]
    BY <1>2
  <2>2. PICK u \in ThreadsOf(p) : thread[u].slot = <<n, i>>
    BY <1>1, <2>1 DEF SlotsOwned
  <2>3. thread[u].slot[1] = n
    BY <2>2
  <2>4. g[n] = CHOOSE w \in ThreadsOf(p) : thread[w].slot[1] = n
    OBVIOUS
  <2> QED
    BY <2>3, <2>4, Zenon
<1>5. g = [n \in 1..k |-> g[n]]
  OBVIOUS
<1> HIDE DEF g, k
<1>6. g \in Injection(1..k, T)
  <2>1. g \in [1..k -> T]
    BY <1>3, <1>4, <1>5
  <2>2. \A m, n \in 1..k : g[m] = g[n] => m = n
    BY <1>4
  <2> QED
    BY <2>1, <2>2 DEF Injection, IsInjective
<1>7. IsFiniteSet(T) /\ Cardinality(T) = Cardinality(Threads) - 1 /\ Cardinality(Threads) \in Nat
  BY BoundsAssumption, FS_RemoveElement, FS_CardinalityType
<1>8. Cardinality(1..k) = k
  BY <1>2, FS_Interval
<1>9. k <= Cardinality(T)
  BY <1>6, <1>7, <1>8, FS_Injection
<1> QED
  BY <1>2, <1>7, <1>9 DEF k

(* Slots stay in use by threads that stay what they are.                   *)
LEMMA SlotsStayOwned ==
    ASSUME NEW q, SlotsOwned(q), process'[q].tls_slots = process[q].tls_slots,
           \A u \in ThreadsOf(q) : u \in ThreadsOf(q)' /\ thread'[u] = thread[u]
    PROVE  SlotsOwned(q)'
BY DEF SlotsOwned

(* A thread is made, in a process P that is there or is just being made.   *)
LEMMA ThreadAdded ==
    ASSUME MemoryInv, NEW p \in Processes, NEW t \in Threads, thread[t] = NoThread,
           NEW P \in Process, Space(P), NEW f,
           NeedsTlsPage(P) => f \in FCRAM /\ Len(P.tls_slots) < Cardinality(Threads),
           \A n, i : IsUsed(P, n, i) => \E u \in ThreadsOf(p) : thread[u].slot = <<n, i>>,
           process' = [process EXCEPT ![p] = WithTls(P, f)],
           thread' = [thread EXCEPT ![t] = [process |-> p, slot |-> TlsSlot(P)]],
           UNCHANGED shared_memory, free_blocks' \subseteq FCRAM
    PROVE  MemoryInv'
<1> DEFINE Q == WithTls(P, f)
           th == [process |-> p, slot |-> TlsSlot(P)]
<1>1. /\ Q \in Process /\ Space(Q) /\ TlsSlot(P) \in Nat \X Nat
      /\ \A n, i : IsUsed(Q, n, i) => IsUsed(P, n, i) \/ TlsSlot(P) = <<n, i>>
  BY TlsKept
<1>2. process' = [process EXCEPT ![p] = Q] /\ thread' = [thread EXCEPT ![t] = th]
  OBVIOUS
<1>3. th \in Thread /\ th.process = p /\ th.slot = TlsSlot(P) /\ th # NoThread
  BY <1>1, NullAssumption DEF Thread
<1> HIDE DEF Q, th
<1>4. /\ process' \in [Processes -> Process \cup {NoProcess}] /\ process'[p] = Q
      /\ \A q \in Processes : q # p => process'[q] = process[q]
  BY <1>1, <1>2 DEF MemoryInv
<1>5. /\ thread' \in [Threads -> Thread \cup {NoThread}] /\ thread'[t] = th
      /\ \A u \in Threads : u # t => thread'[u] = thread[u]
  BY <1>2, <1>3 DEF MemoryInv
<1>6. \A q : \A u \in ThreadsOf(q) : u \in ThreadsOf(q)' /\ thread'[u] = thread[u]
  BY <1>5 DEF ThreadsOf
<1>7. Q # NoProcess
  BY <1>1, ProcessFields
<1>8. \A q \in Processes : Exists(q) => Exists(q)'
  BY <1>4, <1>7 DEF Exists
<1>9. SlotsOwned(p)'
  <2> SUFFICES ASSUME NEW n \in 1..Len(Q.tls_slots), NEW i \in Q.tls_slots[n]
               PROVE  \E u \in ThreadsOf(p)' : thread'[u].slot = <<n, i>>
    BY <1>4 DEF SlotsOwned
  <2>1. IsUsed(Q, n, i)
    BY DEF IsUsed
  <2>2. CASE IsUsed(P, n, i)
    <3>1. PICK u \in ThreadsOf(p) : thread[u].slot = <<n, i>>
      BY <2>2
    <3> QED
      BY <1>6, <3>1
  <2>3. CASE TlsSlot(P) = <<n, i>>
    <3>1. t \in ThreadsOf(p)'
      BY <1>3, <1>5 DEF ThreadsOf
    <3> QED
      BY <1>3, <1>5, <2>3, <3>1
  <2> QED
    BY <1>1, <2>1, <2>2, <2>3
<1>10. ASSUME NEW q \in Live'
       PROVE  Space(process'[q]) /\ SlotsOwned(q)'
  <2>1. q \in Processes /\ process'[q] # NoProcess
    BY DEF Live, Exists
  <2>2. CASE q = p
    BY <1>1, <1>4, <1>9, <2>2
  <2>3. CASE q # p
    <3>1. process'[q] = process[q]
      BY <1>4, <2>1, <2>3
    <3>2. Space(process[q]) /\ SlotsOwned(q)
      BY <2>1, <3>1 DEF MemoryInv, Live, Exists
    <3>3. SlotsOwned(q)'
      BY <1>6, <3>1, <3>2, SlotsStayOwned
    <3> QED
      BY <3>1, <3>2, <3>3
  <2> QED
    BY <2>2, <2>3
<1>11. DOMAIN shared_memory' = Blocks /\ \A x \in LiveBlocks' : BlockSound(x)'
  BY <1>8, BlocksStay
<1> QED
  BY <1>4, <1>5, <1>10, <1>11 DEF MemoryInv

LEMMA RunInv ==
    ASSUME MemoryInv, NEW p \in Processes, NEW t \in Threads, Run(p, t)
    PROVE  MemoryInv'
<1> DEFINE A == free_blocks \cap APPLICATION
           S == IF A = {} THEN {} ELSE HighestPages(A, 1)
           f == Lowest(FreeBase)
           P == IF S = {} THEN EmptyProcess
                ELSE WithMemory(EmptyProcess, PROCESS_IMAGE_VADDR, S, "Code", "ReadExecute")
<1>1. /\ thread[t] = NoThread /\ FreeBase # {}
      /\ process' = [process EXCEPT ![p] = WithTls(P, f)]
      /\ thread' = [thread EXCEPT ![t] = [process |-> p, slot |-> TlsSlot(P)]]
      /\ Taken(S \cup {f}) /\ UNCHANGED shared_memory
  BY DEF Run
<1>2. A \in SUBSET FCRAM /\ A \in SUBSET Nat /\ IsFiniteSet(A) /\ FreeBase \in SUBSET FCRAM
      /\ FreeBase \in SUBSET Nat
  <2>1. A \in SUBSET FCRAM /\ FreeBase \in SUBSET FCRAM
    BY Layout DEF FreeBase
  <2>2. FCRAM \in SUBSET Nat /\ IsFiniteSet(FCRAM)
    BY Numbers, FS_Interval
  <2> QED
    BY <2>1, <2>2, FS_Subset
<1> HIDE DEF A
<1>3. S \in SUBSET A /\ (S # {} => Cardinality(S) = 1)
  <2> SUFFICES ASSUME A # {}
               PROVE  HighestPages(A, 1) \in SUBSET A /\ Cardinality(HighestPages(A, 1)) = 1
    OBVIOUS
  <2>1. Cardinality(A) \in Nat /\ Cardinality(A) # 0
    BY <1>2, FS_CardinalityType, FS_EmptySet
  <2>2. 1 \in Nat /\ 1 <= Cardinality(A)
    BY <2>1
  <2> QED
    BY <1>2, <2>2, HighestExist
<1>4. f \in FCRAM
  <2>1. f \in FreeBase
    BY <1>1, <1>2, LowestIn
  <2> QED
    BY <1>2, <2>1
<1> HIDE DEF S, f
<1>5. EmptyProcess \in Process /\ EmptyProcess.areas = EmptySpace /\ EmptyProcess.tls_slots = <<>>
  <2>1. EmptySpace \in SUBSET Area
    BY EmptySpaceTiled, Zenon DEF Tiled
  <2> QED
    BY <2>1 DEF EmptyProcess, Process
<1>6. Space(EmptyProcess)
  <2>1. HEAP_VADDR_END \in Pages
    BY Layout, Numbers DEF Pages
  <2> QED
    BY <1>5, <2>1, EmptySpaceTiled DEF Space
<1>7. P \in Process /\ P.tls_slots = <<>> /\ Space(P)
  <2> SUFFICES ASSUME S # {}
               PROVE  P \in Process /\ P.tls_slots = <<>> /\ Space(P)
    BY <1>5, <1>6
  <2>1. PROCESS_IMAGE_VADDR = 0 /\ 0 + 1 <= HEAP_VADDR_END /\ 0 \in Nat /\ 1 \in Nat
    BY Layout DEF PROCESS_IMAGE_VADDR
  <2>2. Usable(PROCESS_IMAGE_VADDR, 1) /\ PROCESS_IMAGE_VADDR \in Pages
    BY <2>1, HeapUsable
  <2>3. Vacant(EmptySpace, PROCESS_IMAGE_VADDR, 1)
    <3> DEFINE a == FindVMA(EmptySpace, PROCESS_IMAGE_VADDR)
    <3>1. a \in EmptySpace
      BY <2>2, EmptySpaceTiled, Found
    <3>2. a = FreeArea(0, MAX_ADDRESS)
      BY <3>1 DEF EmptySpace
    <3> HIDE DEF a
    <3>3. IsFree(a) /\ a.base = 0 /\ a.size = MAX_ADDRESS
      BY <3>2 DEF FreeArea, IsFree
    <3> QED
      BY <2>1, <3>3, Numbers DEF Vacant, a
  <2>4. S \in SUBSET FCRAM /\ "Code" \in Used /\ "ReadExecute" \in Perms
    BY <1>2, <1>3 DEF Used, Perms
  <2>5. /\ P \in Process /\ P.tls_slots = EmptyProcess.tls_slots
        /\ KeepsSpace(EmptyProcess.areas, P.areas)
    <3>1. P = WithMemory(EmptyProcess, PROCESS_IMAGE_VADDR, S, "Code", "ReadExecute")
      OBVIOUS
    <3> HIDE DEF P
    <3> QED
      BY <1>3, <1>5, <1>6, <2>2, <2>3, <2>4, <3>1, WithMemoryKept
  <2> HIDE DEF P
  <2> QED
    BY <1>5, <1>6, <2>5, SpaceKept
<1> HIDE DEF P
<1>8. Len(P.tls_slots) = 0 /\ \A n, i : ~IsUsed(P, n, i)
  BY <1>7 DEF IsUsed
<1>9. 0 < Cardinality(Threads)
  BY BoundsAssumption, FS_CardinalityType, FS_EmptySet
<1>10. free_blocks' \subseteq FCRAM
  BY <1>1 DEF Taken, MemoryInv
<1> QED
  BY <1>1, <1>4, <1>7, <1>8, <1>9, <1>10, ThreadAdded

LEMMA CreateThreadInv ==
    ASSUME MemoryInv, NEW p \in Processes, NEW t \in Threads, CreateThread(p, t)
    PROVE  MemoryInv'
<1> DEFINE P == process[p]
           full == NeedsTlsPage(P) /\ FreeBase = {}
           f == IF NeedsTlsPage(P) THEN {Lowest(FreeBase)} ELSE {}
           page == IF f = {} THEN 0 ELSE Lowest(f)
<1>1. /\ Exists(p) /\ thread[t] = NoThread /\ UNCHANGED shared_memory
      /\ IF full
         THEN /\ thread' = [thread EXCEPT ![t] = [process |-> p, slot |-> <<0, 0>>]]
              /\ UNCHANGED <<process, free_blocks>>
         ELSE /\ process' = [process EXCEPT ![p] = WithTls(P, page)]
              /\ thread' = [thread EXCEPT ![t] = [process |-> p, slot |-> TlsSlot(P)]]
              /\ Taken(f)
  BY DEF CreateThread, Running
<1>2. P \in Process /\ Space(P) /\ SlotsOwned(p)
  BY <1>1, LiveProcess
<1>3. CASE full
  <2> DEFINE th == [process |-> p, slot |-> <<0, 0>>]
  <2>1. th \in Thread
    BY DEF Thread
  <2>2. thread' = [thread EXCEPT ![t] = th] /\ UNCHANGED <<process, free_blocks, shared_memory>>
    BY <1>1, <1>3
  <2> HIDE DEF th
  <2>3. /\ thread' \in [Threads -> Thread \cup {NoThread}]
        /\ \A u \in Threads : u # t => thread'[u] = thread[u]
    BY <2>1, <2>2 DEF MemoryInv
  <2>4. \A q : \A u \in ThreadsOf(q) : u \in ThreadsOf(q)' /\ thread'[u] = thread[u]
    BY <1>1, <2>3 DEF ThreadsOf
  <2>5. ASSUME NEW q \in Live'
        PROVE  Space(process'[q]) /\ SlotsOwned(q)'
    <3>1. Space(process[q]) /\ SlotsOwned(q)
      BY <2>2 DEF MemoryInv, Live, Exists
    <3> QED
      BY <2>2, <2>4, <3>1, SlotsStayOwned
  <2>6. DOMAIN shared_memory' = Blocks /\ \A x \in LiveBlocks' : BlockSound(x)'
    BY <2>2, BlocksStay DEF Exists
  <2> QED
    BY <2>2, <2>3, <2>5, <2>6 DEF MemoryInv
<1>4. CASE ~full
  <2>1. /\ process' = [process EXCEPT ![p] = WithTls(P, page)]
        /\ thread' = [thread EXCEPT ![t] = [process |-> p, slot |-> TlsSlot(P)]] /\ Taken(f)
    BY <1>1, <1>4
  <2>2. NeedsTlsPage(P) => page \in FCRAM /\ Len(P.tls_slots) < Cardinality(Threads)
    <3> SUFFICES ASSUME NeedsTlsPage(P)
                 PROVE  page \in FCRAM /\ Len(P.tls_slots) < Cardinality(Threads)
      OBVIOUS
    <3>1. Len(P.tls_slots) < Cardinality(Threads)
      BY <1>1, TlsRoom
    <3>2. FreeBase # {} /\ FreeBase \in SUBSET FCRAM /\ FreeBase \in SUBSET Nat
      <4>1. FreeBase \in SUBSET FCRAM
        BY Layout DEF FreeBase
      <4> QED
        BY <1>4, <4>1, Numbers
    <3>3. Lowest(FreeBase) \in FreeBase
      BY <3>2, LowestIn
    <3>4. f = {Lowest(FreeBase)} /\ page = Lowest(f) /\ f \in SUBSET Nat /\ f # {}
      BY <3>2, <3>3
    <3>5. page \in f
      <4> HIDE DEF f
      <4> QED
        BY <3>4, LowestIn
    <3> QED
      BY <3>1, <3>2, <3>3, <3>4, <3>5
  <2>3. \A n, i : IsUsed(P, n, i) => \E u \in ThreadsOf(p) : thread[u].slot = <<n, i>>
    BY <1>2 DEF IsUsed, SlotsOwned
  <2>4. free_blocks' \subseteq FCRAM
    BY <2>1 DEF Taken, MemoryInv
  <2> HIDE DEF P, page, f
  <2> QED
    BY <1>1, <1>2, <2>1, <2>2, <2>3, <2>4, ThreadAdded
<1> QED
  BY <1>3, <1>4

(* Threads end, one or all of a process.                                   *)
LEMMA StopInv ==
    ASSUME MemoryInv, NEW p \in Processes, Exists(p), NEW S \in SUBSET ThreadsOf(p),
           NEW status \in {"Running", "Exited"}, Stop(p, S, status)
    PROVE  MemoryInv'
<1> DEFINE P == process[p]
           k == Len(P.tls_slots)
           gone(n) == {thread[t].slot[2] : t \in {u \in S : thread[u].slot[1] = n}}
           slots == [n \in 1..k |-> P.tls_slots[n] \ gone(n)]
           Q == [P EXCEPT !.tls_slots = slots, !.status = status]
<1>1. /\ process' = [process EXCEPT ![p] = Q]
      /\ thread' = [t \in Threads |-> IF t \in S THEN NoThread ELSE thread[t]]
      /\ UNCHANGED <<free_blocks, shared_memory>>
  BY DEF Stop, SlotsReset
<1>2. P \in Process /\ Space(P) /\ SlotsOwned(p)
  BY LiveProcess
<1>3. k \in Nat /\ \A n \in 1..k : P.tls_slots[n] \in SUBSET (0..(TLS_ENTRIES - 1))
  BY <1>2, SlotSets
<1>4. /\ slots \in Seq(SUBSET (0..(TLS_ENTRIES - 1))) /\ Len(slots) = k
      /\ \A n \in 1..k : slots[n] = P.tls_slots[n] \ gone(n)
  <2>1. \A n \in 1..k : slots[n] = P.tls_slots[n] \ gone(n)
    OBVIOUS
  <2>2. slots = [n \in 1..k |-> slots[n]]
    OBVIOUS
  <2> HIDE DEF slots, gone, k
  <2>3. \A n \in 1..k : slots[n] \in SUBSET (0..(TLS_ENTRIES - 1))
    BY <1>3, <2>1
  <2> QED
    BY <1>3, <2>1, <2>2, <2>3, MakeSeq
<1> HIDE DEF slots, P
<1>5. Q \in Process /\ Q.areas = P.areas /\ Q.tls_slots = slots /\ Q # NoProcess
  <2>1. Q \in Process /\ Q.areas = P.areas /\ Q.tls_slots = slots
    BY <1>2, <1>4 DEF Process
  <2> HIDE DEF Q
  <2> QED
    BY <2>1, ProcessFields
<1> HIDE DEF Q
<1>6. Space(Q)
  BY <1>2, <1>4, <1>5 DEF Space
<1>7. /\ process' \in [Processes -> Process \cup {NoProcess}] /\ process'[p] = Q
      /\ \A q \in Processes : q # p => process'[q] = process[q]
  BY <1>1, <1>5 DEF MemoryInv
<1>8. \A q \in Processes : Exists(q) => Exists(q)'
  BY <1>5, <1>7 DEF Exists
<1>9. /\ thread' \in [Threads -> Thread \cup {NoThread}]
      /\ \A u \in Threads \ S : thread'[u] = thread[u]
  BY <1>1 DEF MemoryInv
<1>10. SlotsOwned(p)'
  <2> SUFFICES ASSUME NEW n \in 1..k, NEW i \in slots[n]
               PROVE  \E u \in ThreadsOf(p)' : thread'[u].slot = <<n, i>>
    BY <1>4, <1>5, <1>7 DEF SlotsOwned
  <2>1. i \in P.tls_slots[n] /\ i \notin gone(n)
    BY <1>4
  <2>2. PICK u \in ThreadsOf(p) : thread[u].slot = <<n, i>>
    BY <1>2, <2>1 DEF SlotsOwned, P
  <2>3. u \notin S
    <3>1. thread[u].slot[1] = n /\ thread[u].slot[2] = i
      BY <2>2
    <3> QED
      BY <2>1, <3>1
  <2>4. u \in Threads /\ thread'[u] = thread[u]
    BY <1>9, <2>3 DEF ThreadsOf
  <2>5. u \in ThreadsOf(p)'
    BY <2>4 DEF ThreadsOf
  <2> QED
    BY <2>2, <2>4, <2>5
<1>11. ASSUME NEW q \in Live'
       PROVE  Space(process'[q]) /\ SlotsOwned(q)'
  <2>1. q \in Processes /\ process'[q] # NoProcess
    BY DEF Live, Exists
  <2>2. CASE q = p
    BY <1>6, <1>7, <1>10, <2>2
  <2>3. CASE q # p
    <3>1. process'[q] = process[q]
      BY <1>7, <2>1, <2>3
    <3>2. Space(process[q]) /\ SlotsOwned(q)
      BY <2>1, <3>1 DEF MemoryInv, Live, Exists
    <3>3. ASSUME NEW u \in ThreadsOf(q)
          PROVE  u \in ThreadsOf(q)' /\ thread'[u] = thread[u]
      <4>1. u \in Threads \ S
        BY <2>3 DEF ThreadsOf
      <4>2. thread'[u] = thread[u]
        BY <1>9, <4>1
      <4> QED
        BY <4>2 DEF ThreadsOf
    <3>4. SlotsOwned(q)'
      BY <3>1, <3>2, <3>3, SlotsStayOwned
    <3> QED
      BY <3>1, <3>2, <3>4
  <2> QED
    BY <2>2, <2>3
<1>12. DOMAIN shared_memory' = Blocks /\ \A x \in LiveBlocks' : BlockSound(x)'
  BY <1>1, <1>8, BlocksStay
<1>13. free_blocks' \subseteq FCRAM
  BY <1>1 DEF MemoryInv
<1> QED
  BY <1>7, <1>9, <1>11, <1>12, <1>13 DEF MemoryInv

(* What closing a block of another process leaves to it.                   *)
LEMMA NoneReturning ==
    ASSUME MemoryInv, NEW closed \in SUBSET Blocks, \A s \in closed : shared_memory[s] # NoBlock,
           NEW q \in Processes, ~Exists(q)
    PROVE  Returning(q, closed) = {}
<1> SUFFICES ASSUME NEW s \in closed, shared_memory[s].owner_process = q
             PROVE  FALSE
  BY DEF Returning
<1>1. BlockSound(s)
  BY DEF MemoryInv, LiveBlocks
<1>2. q = NoProcess
  BY <1>1 DEF BlockSound
<1> QED
  BY <1>2, NullAssumption

LEMMA SettledKept ==
    ASSUME MemoryInv, NEW closed \in SUBSET Blocks, \A s \in closed : shared_memory[s] # NoBlock,
           NEW q \in Processes, Exists(q), NEW Q, Q = Settled(q, closed)
    PROVE  /\ Q \in Process /\ Q.tls_slots = process[q].tls_slots
           /\ KeepsSpace(process[q].areas, Q.areas)
<1> DEFINE P == process[q]
<1>1. P \in Process /\ Tiled(P.areas) /\ FreeMerged(P.areas)
  BY LiveProcess
<1>2. CASE Returning(q, closed) = {}
  <2>1. Q = P
    BY <1>2 DEF Settled
  <2> QED
    BY <1>1, <2>1 DEF KeepsSpace
<1>3. CASE Returning(q, closed) # {}
  <2>1. PICK s \in Returning(q, closed) : Q = Returned(P, shared_memory[s])
    BY <1>3 DEF Settled
  <2>2. BlockFits(shared_memory[s])
    BY <2>1 DEF Returning, MemoryInv, LiveBlocks, BlockSound
  <2> HIDE DEF P
  <2> QED
    BY <1>1, <2>1, <2>2, ReturnedKept DEF P
<1> QED
  BY <1>2, <1>3

LEMMA DestroyProcessInv ==
    ASSUME MemoryInv, NEW p \in Processes, NEW closed \in SUBSET Blocks,
           DestroyProcess(p, closed)
    PROVE  MemoryInv'
<1> DEFINE P == process[p]
           S == P.holding_memory \cup P.holding_tls_memory
           gone == UNION {shared_memory[s].holding_memory : s \in closed}
<1>1. /\ Exists(p) /\ Free(S \cup gone) /\ \A s \in closed : shared_memory[s] # NoBlock
      /\ process' = [q \in Processes |-> IF q = p THEN NoProcess ELSE Settled(q, closed)]
      /\ UNCHANGED thread
      /\ shared_memory' = [s \in Blocks |->
            IF s \in closed THEN NoBlock
            ELSE IF shared_memory[s] # NoBlock /\ shared_memory[s].owner_process = p
            THEN [shared_memory[s] EXCEPT !.owner_process = NoProcess] ELSE shared_memory[s]]
  BY DEF DestroyProcess
<1>2. ASSUME NEW q \in Processes, q # p
      PROVE  Exists(q)' <=> Exists(q)
  <2>1. process'[q] = Settled(q, closed)
    BY <1>1, <1>2
  <2>2. CASE Exists(q)
    <3>1. Settled(q, closed) \in Process
      BY <1>1, <2>2, SettledKept
    <3> QED
      BY <2>1, <2>2, <3>1, ProcessFields DEF Exists
  <2>3. CASE ~Exists(q)
    <3>1. Returning(q, closed) = {}
      BY <1>1, <2>3, NoneReturning
    <3> QED
      BY <2>1, <2>3, <3>1 DEF Settled, Exists
  <2> QED
    BY <2>2, <2>3
<1>3. ASSUME NEW q \in Live'
      PROVE  process'[q] \in Process /\ Space(process'[q]) /\ SlotsOwned(q)'
  <2>1. q \in Processes /\ q # p /\ process'[q] = Settled(q, closed)
    BY <1>1 DEF Live, Exists
  <2>2. Exists(q)
    BY <1>2, <2>1 DEF Live
  <2> DEFINE Q == Settled(q, closed)
  <2>3. /\ Q \in Process /\ Q.tls_slots = process[q].tls_slots
        /\ KeepsSpace(process[q].areas, Q.areas)
    BY <1>1, <2>1, <2>2, SettledKept
  <2>4. process[q] \in Process /\ Space(process[q]) /\ SlotsOwned(q)
    BY <2>1, <2>2, LiveProcess
  <2> HIDE DEF Q
  <2>5. Space(Q)
    BY <2>3, <2>4, SpaceKept
  <2>6. SlotsOwned(q)'
    <3>1. \A u \in ThreadsOf(q) : u \in ThreadsOf(q)' /\ thread'[u] = thread[u]
      BY <1>1 DEF ThreadsOf
    <3> QED
      BY <2>1, <2>3, <2>4, <3>1, SlotsStayOwned DEF Q
  <2> QED
    BY <2>1, <2>3, <2>5, <2>6 DEF Q
<1>8. process' \in [Processes -> Process \cup {NoProcess}]
  BY <1>1, <1>3 DEF Live, Exists
<1>4. ASSUME NEW s \in LiveBlocks'
      PROVE  BlockSound(s)'
  <2>1. s \in Blocks /\ shared_memory'[s] # NoBlock
    BY DEF LiveBlocks
  <2>2. s \notin closed /\ shared_memory[s] # NoBlock
    BY <1>1, <2>1
  <2>3. BlockSound(s)
    BY <2>1, <2>2 DEF MemoryInv, LiveBlocks
  <2>4. CASE shared_memory[s].owner_process = p
    <3> DEFINE b == shared_memory[s]
               c == [b EXCEPT !.owner_process = NoProcess]
    <3>1. shared_memory'[s] = c
      BY <1>1, <2>1, <2>2, <2>4
    <3>2. BlockFits(b) /\ b \in SharedBlock
      BY <2>3 DEF BlockSound, BlockFits
    <3> HIDE DEF b
    <3>3. /\ c \in SharedBlock /\ c.owner_process = NoProcess /\ c.base_address = b.base_address
          /\ c.size = b.size /\ c.backing_blocks = b.backing_blocks
      BY <3>2 DEF SharedBlock
    <3> HIDE DEF c
    <3>4. BlockFits(c)
      BY <3>2, <3>3 DEF BlockFits
    <3> QED
      BY <3>1, <3>3, <3>4 DEF BlockSound
  <2>5. CASE shared_memory[s].owner_process # p
    <3>1. shared_memory'[s] = shared_memory[s]
      BY <1>1, <2>1, <2>2, <2>5
    <3>2. shared_memory[s].owner_process \in Processes \cup {NoProcess}
      BY <2>3 DEF BlockSound, BlockFits, SharedBlock
    <3>3. (shared_memory[s].owner_process # NoProcess => Exists(shared_memory[s].owner_process))'
      BY <1>2, <2>3, <2>5, <3>1, <3>2 DEF BlockSound
    <3>4. BlockFits(shared_memory'[s])
      BY <2>3, <3>1 DEF BlockSound
    <3> QED
      BY <3>3, <3>4 DEF BlockSound
  <2> QED
    BY <2>4, <2>5
<1>5. DOMAIN shared_memory' = Blocks
  BY <1>1
<1>6. free_blocks' \subseteq FCRAM
  <2>1. S \in SUBSET FCRAM
    <3>1. P \in Process
      BY <1>1, LiveProcess
    <3> QED
      BY <3>1, ProcessFields
  <2>2. gone \in SUBSET FCRAM
    <3> SUFFICES ASSUME NEW s \in closed
                 PROVE  shared_memory[s].holding_memory \in SUBSET FCRAM
      OBVIOUS
    <3>1. s \in LiveBlocks
      BY <1>1 DEF LiveBlocks
    <3>2. BlockSound(s)
      BY <3>1 DEF MemoryInv
    <3> QED
      BY <3>2 DEF BlockSound, BlockFits, SharedBlock
  <2> HIDE DEF S, gone
  <2> QED
    BY <1>1, <2>1, <2>2 DEF Free, MemoryInv
<1>7. thread' \in [Threads -> Thread \cup {NoThread}]
  BY <1>1 DEF MemoryInv
<1> QED
  BY <1>3, <1>4, <1>5, <1>6, <1>7, <1>8 DEF MemoryInv

(***************************************************************************)
(* The theorem.                                                            *)
(***************************************************************************)
(* What the invariant says of pages, as AreasTile says it of areas.        *)
LEMMA TiledAreasTile == MemoryInv => AreasTile
<1> SUFFICES ASSUME MemoryInv, NEW p \in Live
             PROVE  LET areas == process[p].areas IN
                    /\ UNION {Span(a.base, a.size) : a \in areas} = 0..(MAX_ADDRESS - 1)
                    /\ \A a, b \in areas : a # b => Span(a.base, a.size) \cap Span(b.base, b.size) = {}
                    /\ \A a, b \in areas : IsFree(a) => ~CanBeMergedWith(a, b)
  BY DEF AreasTile
<1> DEFINE areas == process[p].areas
<1>1. Tiled(areas) /\ FreeMerged(areas)
  BY DEF MemoryInv, Space
<1> HIDE DEF areas
<1>2. ASSUME NEW a \in areas
      PROVE  /\ a.base \in Nat /\ a.size \in Nat /\ 1 <= a.size /\ a.base + a.size <= MAX_ADDRESS
             /\ \A v : v \in Span(a.base, a.size) <=> v \in Pages /\ Holds(a, v)
  <2>1. a \in Area /\ Sound(a)
    BY <1>1, TiledAreas
  <2>2. a.base \in Nat /\ a.size \in Nat /\ 1 <= a.size /\ a.base + a.size <= MAX_ADDRESS
    BY <2>1, AreaFields DEF Sound
  <2>3. \A v : v \in Span(a.base, a.size) <=> v \in Pages /\ Holds(a, v)
    BY <2>2, Numbers DEF Span, Pages, Holds
  <2> QED
    BY <2>2, <2>3
<1>3. UNION {Span(a.base, a.size) : a \in areas} = 0..(MAX_ADDRESS - 1)
  <2>1. ASSUME NEW v
        PROVE  (\E a \in areas : v \in Span(a.base, a.size)) <=> v \in Pages
    BY <1>1, <1>2, TiledCover
  <2> QED
    BY <2>1 DEF Pages
<1>4. ASSUME NEW a \in areas, NEW b \in areas, a # b
      PROVE  Span(a.base, a.size) \cap Span(b.base, b.size) = {}
  <2> SUFFICES ASSUME NEW v, v \in Span(a.base, a.size), v \in Span(b.base, b.size)
               PROVE  FALSE
    OBVIOUS
  <2>1. v \in Pages /\ Holds(a, v) /\ Holds(b, v)
    BY <1>2
  <2>2. v \in Int
    BY <2>1, PageNumber
  <2> QED
    BY <1>1, <1>4, <2>1, <2>2, OneHolds
<1>5. ASSUME NEW a \in areas, NEW b \in areas, IsFree(a), CanBeMergedWith(a, b)
      PROVE  FALSE
  <2> DEFINE v == b.base
  <2>1. a.base + a.size = v /\ IsFree(b)
    BY <1>5 DEF CanBeMergedWith
  <2>2. v \in Span(b.base, b.size)
    BY <1>2 DEF Span
  <2>3. v \in Pages /\ Holds(b, v)
    BY <1>2, <2>2
  <2>4. v - 1 \in Span(a.base, a.size)
    BY <1>2, <2>1 DEF Span
  <2>5. v - 1 \in Pages /\ Holds(a, v - 1) /\ v # 0
    BY <1>2, <2>1, <2>4
  <2>6. FreePage(areas, v) /\ FreePage(areas, v - 1)
    BY <1>1, <1>5, <2>1, <2>3, <2>5, PageIs
  <2>7. v \in Bounds(areas)
    BY DEF Bounds
  <2> QED
    BY <1>1, <2>5, <2>6, <2>7 DEF FreeMerged
<1> QED
  BY <1>3, <1>4, <1>5 DEF areas

LEMMA MemoryInit == Init => MemoryInv
BY DEF Init, MemoryInv, Live, Exists, LiveBlocks

LEMMA MemoryNext == MemoryInv /\ [Next]_vars => MemoryInv'
<1> SUFFICES ASSUME MemoryInv, [Next]_vars
             PROVE  MemoryInv'
  OBVIOUS
<1>1. ASSUME NEW p \in Processes, NEW size \in Sizes, NEW v \in Heap(size),
             NEW perms \in Permissions,
             HeapAllocate(p, v, size, perms) \/ Protect(p, v, size, perms)
      PROVE  MemoryInv'
  BY <1>1, HeapAllocateInv, ProtectInv
<1>2. ASSUME NEW p \in Processes, NEW size \in Sizes, NEW v \in Heap(size),
             HeapFree(p, v, size)
      PROVE  MemoryInv'
  BY <1>2, HeapFreeInv
<1>3. ASSUME NEW p \in Processes, NEW size \in Sizes, NEW v \in Heap(size), NEW s \in Blocks,
             CreateFromHeap(p, s, v, size, "ReadWrite")
      PROVE  MemoryInv'
  BY <1>3, CreateFromHeapInv
<1>4. ASSUME NEW p \in Processes, NEW size \in Sizes, NEW v \in Heap(size),
             NEW w \in Targets(size),
             Map(p, w, v, size, "ReadWrite") \/ Unmap(p, w, v, size, "ReadWrite")
      PROVE  MemoryInv'
  BY <1>4, MapInv, UnmapInv
<1>5. ASSUME NEW p \in Processes, NEW size \in Sizes,
             \/ LinearAllocate(p, size, "ReadWrite")
             \/ \E v \in LinearHeap(size) : LinearFree(p, v, size)
             \/ \E s \in Blocks : CreateAutomatic(p, s, size)
      PROVE  MemoryInv'
  BY <1>5, LinearAllocateInv, LinearFreeInv, CreateAutomaticInv
<1>6. ASSUME NEW p \in Processes, NEW s \in Blocks,
             \/ \E v \in Heap(1) \cup {0} : MapBlock(p, s, v, "ReadWrite")
             \/ \E v \in Heap(1) : UnmapBlock(p, s, v)
      PROVE  MemoryInv'
  BY <1>6, MapBlockInv, UnmapBlockInv
<1>7. ASSUME NEW s \in Blocks, DestroyBlock(s)
      PROVE  MemoryInv'
  BY <1>7, DestroyBlockInv
<1>8. ASSUME NEW p \in Processes, NEW t \in Threads,
             Run(p, t) \/ CreateThread(p, t) \/ ExitThread(p, t)
      PROVE  MemoryInv'
  <2>1. CASE ExitThread(p, t)
    BY <2>1, StopInv DEF ExitThread, Running
  <2> QED
    BY <1>8, <2>1, RunInv, CreateThreadInv
<1>9. ASSUME NEW p \in Processes, TerminateProcess(p)
      PROVE  MemoryInv'
  BY <1>9, StopInv DEF TerminateProcess, Running
<1>10. ASSUME NEW p \in Processes, NEW closed \in SUBSET Blocks, DestroyProcess(p, closed)
       PROVE  MemoryInv'
  BY <1>10, DestroyProcessInv
<1>11. CASE UNCHANGED vars
  <2>1. UNCHANGED <<process, free_blocks, thread, shared_memory>>
    BY <1>11 DEF vars
  <2> QED
    BY <2>1, MemoryStays
<1> QED
  BY <1>1, <1>2, <1>3, <1>4, <1>5, <1>6, <1>7, <1>8, <1>9, <1>10, <1>11 DEF Next

(* Whatever guests do, the areas of every address space cover each page    *)
(* once, and free memory is in one area (vm_manager.h:108, vm_manager.cpp: *)
(* 271): for every size of the heap, of FCRAM and of a call, for any       *)
(* number of processes, threads and blocks, and for every Misuse.          *)
THEOREM AreasAlwaysTile == Spec => []AreasTile
<1>1. Init => MemoryInv
  BY MemoryInit
<1>2. MemoryInv /\ [Next]_vars => MemoryInv'
  BY MemoryNext
<1>3. MemoryInv => AreasTile
  BY TiledAreasTile
<1> QED
  BY <1>1, <1>2, <1>3, PTL DEF Spec

(***************************************************************************)
(* Pages of its own: those of the heap and of the linear heap that a       *)
(* process pays for.  Each is backed by a page that the process holds, and *)
(* no two by the same one; a page of the linear heap by the one that       *)
(* belongs to its address.                                                 *)
(***************************************************************************)
Own == {"Private", "Aliased", "Locked"}
IsLinear(v) == InSpan(v, LINEAR_HEAP_VADDR, APPLICATION_PAGES)
OwnPage(as, v) ==
    \/ v < HEAP_VADDR_END /\ At(as, v).state \in Own
    \/ IsLinear(v) /\ ~FreePage(as, v)

InMemory(as, M) == \A v \in Pages : OwnPage(as, v) => At(as, v).backing \in M
OnceEach(as) ==
    \A v, w \in Pages :
        OwnPage(as, v) /\ OwnPage(as, w) /\ At(as, v).backing = At(as, w).backing => v = w
InPlace(as) ==
    \A v \in Pages : IsLinear(v) /\ OwnPage(as, v) => At(as, v).backing = v - LINEAR_HEAP_VADDR
Backed(as, M) == InMemory(as, M) /\ OnceEach(as) /\ InPlace(as)

(* The pages of its own in r are some of those in as.                      *)
Shrunk(r, as) ==
    \A v \in Pages : OwnPage(r, v) => OwnPage(as, v) /\ At(r, v).backing = At(as, v).backing

LEMMA LinearOwn ==
    ASSUME NEW as, NEW v \in Pages, IsLinear(v)
    PROVE  OwnPage(as, v) <=> ~FreePage(as, v)
<1>1. ~(v < HEAP_VADDR_END)
  BY Layout, PageNumber DEF IsLinear, InSpan
<1> QED
  BY <1>1 DEF OwnPage

LEMMA ShrunkBacked ==
    ASSUME NEW as, NEW r, NEW M, Shrunk(r, as), Backed(as, M)
    PROVE  Backed(r, M)
<1>1. \A v \in Pages : OwnPage(r, v) => OwnPage(as, v) /\ At(r, v).backing = At(as, v).backing
  BY DEF Shrunk
<1>2. InMemory(as, M) /\ OnceEach(as) /\ InPlace(as)
  BY DEF Backed
<1>3. InMemory(r, M)
  BY <1>1, <1>2 DEF InMemory
<1>4. OnceEach(r)
  BY <1>1, <1>2 DEF OnceEach
<1>5. InPlace(r)
  BY <1>1, <1>2 DEF InPlace
<1> QED
  BY <1>3, <1>4, <1>5 DEF Backed

LEMMA ShrunkTwice ==
    ASSUME NEW as, NEW c, NEW r, Shrunk(c, as), Shrunk(r, c)
    PROVE  Shrunk(r, as)
BY DEF Shrunk

LEMMA SameShrunk == \A as : Shrunk(as, as)
BY DEF Shrunk

LEMMA FreeState ==
    ASSUME NEW as, Tiled(as), NEW v \in Pages
    PROVE  FreePage(as, v) <=> At(as, v).state = "Free"
<1>1. PICK a \in as : Holds(a, v)
  BY TiledCover
<1>2. a \in Area /\ Sound(a)
  BY <1>1, TiledAreas
<1>3. At(as, v).state = a.state /\ (FreePage(as, v) <=> IsFree(a))
  <2>1. Page(as, v) = PageOf(a, v) /\ (FreePage(as, v) <=> IsFree(a))
    BY <1>1, PageIs
  <2>2. At(as, v).state = Page(as, v).state
    BY AtPage
  <2>3. Page(as, v).state = a.state
    BY <2>1 DEF PageOf
  <2> QED
    BY <2>1, <2>2, <2>3
<1> QED
  BY <1>2, <1>3 DEF Sound

(* Unmapping; a change of state within the heap, or of permissions only.   *)
LEMMA UnmapShrinks ==
    ASSUME NEW as, NEW target, NEW size, NEW r, Rewritten(r, as, target, size, "Free")
    PROVE  Shrunk(r, as)
<1> SUFFICES ASSUME NEW v \in Pages, OwnPage(r, v)
             PROVE  OwnPage(as, v) /\ At(r, v).backing = At(as, v).backing
  BY DEF Shrunk
<1>1. CASE InSpan(v, target, size)
  <2>1. Became(At(r, v), At(as, v), "Free")
    BY <1>1 DEF Rewritten
  <2>2. At(r, v).backing = Unbacked /\ At(r, v).state = "Free"
    BY <2>1 DEF Became, Kept
  <2>3. FreePage(r, v)
    BY <2>2, AtPage
  <2> QED
    BY <2>2, <2>3 DEF OwnPage, Own
<1>2. CASE ~InSpan(v, target, size)
  <2>1. At(r, v) = At(as, v)
    BY <1>2 DEF Rewritten
  <2>2. FreePage(r, v) <=> FreePage(as, v)
    BY <2>1, AtPage
  <2> QED
    BY <2>1, <2>2 DEF OwnPage
<1> QED
  BY <1>1, <1>2

LEMMA ChangeShrinks ==
    ASSUME NEW as, NEW target, NEW size, NEW state, state # "Free", NEW r,
           Rewritten(r, as, target, size, state),
           state = Kept \/ \A v \in Pages : InSpan(v, target, size) =>
                              v < HEAP_VADDR_END /\ At(as, v).state \in Own
    PROVE  Shrunk(r, as)
<1> SUFFICES ASSUME NEW v \in Pages, OwnPage(r, v)
             PROVE  OwnPage(as, v) /\ At(r, v).backing = At(as, v).backing
  BY DEF Shrunk
<1>1. CASE InSpan(v, target, size)
  <2>1. Became(At(r, v), At(as, v), state)
    BY <1>1 DEF Rewritten
  <2>2. At(r, v).backing = At(as, v).backing /\ (state = Kept => At(r, v).state = At(as, v).state)
    BY <2>1 DEF Became
  <2>3. FreePage(r, v) <=> FreePage(as, v)
    BY <2>2, AtPage
  <2> QED
    BY <1>1, <2>2, <2>3 DEF OwnPage
<1>2. CASE ~InSpan(v, target, size)
  <2>1. At(r, v) = At(as, v)
    BY <1>2 DEF Rewritten
  <2>2. FreePage(r, v) <=> FreePage(as, v)
    BY <2>1, AtPage
  <2> QED
    BY <2>1, <2>2 DEF OwnPage
<1> QED
  BY <1>1, <1>2

(* Blocks that are no memory of its own, outside of the linear heap.       *)
LEMMA MapShrinks ==
    ASSUME NEW as, NEW target \in Nat, NEW size \in Nat, NEW blocks, BlocksFit(blocks, size),
           NEW state, state \notin Own,
           \A v \in Pages : InSpan(v, target, size) => ~IsLinear(v), NEW r,
           MappedUpTo(r, as, target, blocks, Len(blocks), state)
    PROVE  Shrunk(r, as)
<1> SUFFICES ASSUME NEW v \in Pages, OwnPage(r, v)
             PROVE  OwnPage(as, v) /\ At(r, v).backing = At(as, v).backing
  BY DEF Shrunk
<1>1. CASE \E j \in 1..Len(blocks) : FromBlock(r, v, target, blocks[j], state)
  <2>1. PICK j \in 1..Len(blocks) : FromBlock(r, v, target, blocks[j], state)
    BY <1>1
  <2>2. blocks[j] \in Block /\ blocks[j].at + blocks[j].size <= size
    BY LenProperties, ElementOfSeq DEF BlocksFit
  <2>3. At(r, v).state = state /\ InSpan(v, target + blocks[j].at, blocks[j].size)
    BY <2>1 DEF FromBlock
  <2>4. InSpan(v, target, size)
    BY <2>2, <2>3, PageNumber DEF InSpan, Block
  <2> QED
    BY <2>3, <2>4 DEF OwnPage
<1>2. CASE At(r, v) = At(as, v)
  <2>1. FreePage(r, v) <=> FreePage(as, v)
    BY <1>2, AtPage
  <2> QED
    BY <1>2, <2>1 DEF OwnPage
<1> QED
  BY <1>1, <1>2 DEF MappedUpTo

(* Pages of a set, each in its place from target on.                       *)
Seated(r, as, target, S, state) ==
    \A v \in Pages :
        \/ At(r, v) = At(as, v)
        \/ /\ InSpan(v, target, Cardinality(S)) /\ At(r, v).state = state
           /\ At(r, v).backing \in S /\ Rank(S, At(r, v).backing) = v - target

LEMMA BlocksSeated ==
    ASSUME NEW S \in SUBSET FCRAM, NEW as, NEW target \in Nat, NEW state, NEW blocks,
           blocks = BlocksOf(S), NEW r, MappedUpTo(r, as, target, blocks, Len(blocks), state)
    PROVE  Seated(r, as, target, S, state)
<1>1. S \in SUBSET Nat /\ IsFiniteSet(S) /\ Cardinality(S) \in Nat
  <2>1. FCRAM \in SUBSET Nat /\ IsFiniteSet(FCRAM)
    BY Numbers, FS_Interval
  <2> QED
    BY <2>1, FS_Subset, FS_CardinalityType
<1>2. BlocksFit(blocks, Cardinality(S)) /\ Ranked(blocks, S)
  BY BlocksOfFit
<1> SUFFICES ASSUME NEW v \in Pages, At(r, v) # At(as, v)
             PROVE  /\ InSpan(v, target, Cardinality(S)) /\ At(r, v).state = state
                    /\ At(r, v).backing \in S /\ Rank(S, At(r, v).backing) = v - target
  BY DEF Seated
<1>3. PICK j \in 1..Len(blocks) : FromBlock(r, v, target, blocks[j], state)
  BY DEF MappedUpTo
<1> DEFINE b == blocks[j]
           k == v - (target + b.at)
<1>4. /\ b.at \in Nat /\ b.size \in Nat /\ b.backing \in Nat /\ b.at + b.size <= Cardinality(S)
  <2>1. blocks \in Seq(Block) /\ b.at + b.size <= Cardinality(S)
    BY <1>2 DEF BlocksFit
  <2>2. b \in Block
    BY <2>1, ElementOfSeq
  <2> QED
    BY <2>1, <2>2 DEF Block
<1>5. b.backing \in S /\ b.at = Rank(S, b.backing) /\ Span(b.backing, b.size) \subseteq S
  BY <1>2 DEF Ranked
<1>6. InSpan(v, target + b.at, b.size)
  BY <1>3 DEF FromBlock
<1>7. At(r, v).backing = b.backing + k /\ At(r, v).state = state
  BY <1>3 DEF FromBlock
<1> HIDE DEF b
<1>8. k \in Nat /\ k < b.size /\ v = target + (b.at + k) /\ v \in Nat
  BY <1>4, <1>6, PageNumber DEF InSpan
<1> HIDE DEF k
<1>9. b.backing + k \in S /\ Span(b.backing, k) \subseteq S
  <2> DEFINE f == b.backing
             n == b.size
  <2>1. f \in Nat /\ n \in Nat /\ Span(f, n) \subseteq S
    BY <1>4, <1>5
  <2> HIDE DEF f, n
  <2>2. f + k \in Span(f, n) /\ Span(f, k) \subseteq Span(f, n)
    BY <1>8, <2>1 DEF Span, n
  <2> QED
    BY <2>1, <2>2 DEF f
<1>10. Rank(S, b.backing + k) = b.at + k
  BY <1>1, <1>4, <1>5, <1>8, <1>9, RowRank DEF Rank
<1>11. InSpan(v, target, Cardinality(S))
  BY <1>1, <1>4, <1>8 DEF InSpan
<1> QED
  BY <1>4, <1>7, <1>8, <1>9, <1>10, <1>11

(* In a row of pages, the place says which page it is.                     *)
LEMMA RankInRow ==
    ASSUME NEW f \in Nat, NEW size \in Nat, NEW x \in Span(f, size)
    PROVE  Rank(Span(f, size), x) = x - f
<1>1. Below(Span(f, size), x) = f..(x - 1)
  BY DEF Below, Span
<1>2. x \in Nat /\ f <= x
  BY DEF Span
<1>3. Cardinality(f..(x - 1)) = x - f
  <2>1. f \in Int /\ x - 1 \in Int
    BY <1>2
  <2>2. Cardinality(f..(x - 1)) = IF f > x - 1 THEN 0 ELSE (x - 1) - f + 1
    BY <2>1, FS_Interval
  <2> QED
    BY <1>2, <2>2
<1> QED
  BY <1>1, <1>3 DEF Rank

(* New memory, of pages that were not the process's yet.                   *)
LEMMA Grown ==
    ASSUME NEW as, NEW M, Backed(as, M), NEW S \in SUBSET FCRAM, S \cap M = {},
           NEW target \in Nat, NEW state, NEW r, Seated(r, as, target, S, state),
           \A v \in Pages : IsLinear(v) /\ InSpan(v, target, Cardinality(S)) =>
               \A x \in S : Rank(S, x) = v - target => x = v - LINEAR_HEAP_VADDR
    PROVE  Backed(r, M \cup S)
<1> DEFINE Same(v) == At(r, v) = At(as, v)
           New(v) == /\ InSpan(v, target, Cardinality(S)) /\ At(r, v).backing \in S
                     /\ Rank(S, At(r, v).backing) = v - target
<1>1. \A v \in Pages : Same(v) \/ New(v)
  BY DEF Seated
<1>2. InMemory(as, M) /\ OnceEach(as) /\ InPlace(as)
  BY DEF Backed
<1>3. ASSUME NEW v \in Pages, Same(v), OwnPage(r, v)
      PROVE  OwnPage(as, v) /\ At(r, v).backing = At(as, v).backing /\ At(r, v).backing \in M
  <2>1. FreePage(r, v) <=> FreePage(as, v)
    BY <1>3, AtPage
  <2>2. OwnPage(as, v)
    BY <1>3, <2>1 DEF OwnPage
  <2> QED
    BY <1>2, <1>3, <2>2 DEF InMemory
<1>4. \A v \in Pages : New(v) => At(r, v).backing \in S /\ Rank(S, At(r, v).backing) = v - target
  OBVIOUS
<1>5. \A v \in Pages : IsLinear(v) /\ New(v) => At(r, v).backing = v - LINEAR_HEAP_VADDR
  OBVIOUS
<1> HIDE DEF Same, New
<1>6. InMemory(r, M \cup S)
  BY <1>1, <1>3, <1>4 DEF InMemory
<1>7. InPlace(r)
  BY <1>1, <1>2, <1>3, <1>5 DEF InPlace
<1>8. ASSUME NEW v \in Pages, NEW w \in Pages, OwnPage(r, v), OwnPage(r, w),
             At(r, v).backing = At(r, w).backing
      PROVE  v = w
  <2>1. CASE Same(v) /\ Same(w)
    BY <1>2, <1>3, <1>8, <2>1 DEF OnceEach
  <2>2. CASE New(v) /\ New(w)
    <3>1. v - target = w - target
      BY <1>4, <1>8, <2>2
    <3> QED
      BY <3>1, PageNumber
  <2>3. CASE (Same(v) /\ New(w)) \/ (New(v) /\ Same(w))
    BY <1>3, <1>4, <1>8, <2>3
  <2> QED
    BY <1>1, <2>1, <2>2, <2>3
<1>9. OnceEach(r)
  BY <1>8 DEF OnceEach
<1> QED
  BY <1>6, <1>7, <1>9 DEF Backed

(* Memory that is freed: the pages behind a range of its own.              *)
LEMMA Freed ==
    ASSUME NEW as, NEW M, Backed(as, M), NEW target \in Nat, NEW size \in Nat, 1 <= size,
           target + size <= MAX_ADDRESS,
           \A v \in Pages : InSpan(v, target, size) => OwnPage(as, v),
           NEW S, S = BackingPages(as, target, size),
           NEW r, Rewritten(r, as, target, size, "Free")
    PROVE  /\ Backed(r, M \ S) /\ S \in SUBSET M
           /\ IsFiniteSet(S) /\ Cardinality(S) = size
<1> DEFINE I == target..(target + size - 1)
           B == [v \in I |-> At(as, v).backing]
<1>1. \A v : v \in I <=> v \in Pages /\ InSpan(v, target, size)
  BY Numbers DEF InSpan, Pages
<1>2. InMemory(as, M) /\ OnceEach(as) /\ InPlace(as)
  BY DEF Backed
<1>3. IsFiniteSet(I) /\ Cardinality(I) = size
  BY FS_Interval
<1>4. S = {At(as, v).backing : v \in I}
  BY DEF BackingPages, Span
<1> HIDE DEF I
<1>5. \A v \in I : v \in Pages /\ OwnPage(as, v)
  BY <1>1
<1>6. S \in SUBSET M
  BY <1>2, <1>4, <1>5 DEF InMemory
<1>7. B \in Surjection(I, S) /\ B \in Injection(I, S)
  <2>1. B \in Surjection(I, S)
    BY <1>4 DEF Surjection
  <2>2. B \in Injection(I, S)
    <3>1. B \in [I -> S]
      BY <1>4
    <3>2. \A v, w \in I : B[v] = B[w] => v = w
      BY <1>2, <1>5 DEF OnceEach
    <3> HIDE DEF B
    <3> QED
      BY <3>1, <3>2 DEF Injection, IsInjective
  <2> QED
    BY <2>1, <2>2
<1> HIDE DEF B
<1>8. IsFiniteSet(S) /\ Cardinality(S) = size
  BY <1>3, <1>7, FS_Surjection
<1>9. Shrunk(r, as)
  BY UnmapShrinks
<1>10. Backed(r, M)
  BY <1>9, ShrunkBacked
<1>11. ASSUME NEW v \in Pages, OwnPage(r, v)
       PROVE  At(r, v).backing \notin S
  <2>1. OwnPage(as, v) /\ At(r, v).backing = At(as, v).backing
    BY <1>9, <1>11 DEF Shrunk
  <2>2. ~InSpan(v, target, size)
    <3> SUFFICES ASSUME InSpan(v, target, size)
                 PROVE  FALSE
      OBVIOUS
    <3>1. Became(At(r, v), At(as, v), "Free")
      BY DEF Rewritten
    <3>2. At(r, v).backing = Unbacked /\ At(r, v).state = "Free"
      BY <3>1 DEF Became, Kept
    <3>3. FreePage(r, v)
      BY <3>2, AtPage
    <3> QED
      BY <1>11, <3>2, <3>3 DEF OwnPage, Own
  <2> SUFFICES ASSUME NEW w \in I, At(as, w).backing = At(as, v).backing
               PROVE  FALSE
    BY <1>4, <2>1
  <2>3. w = v
    BY <1>2, <1>5, <2>1 DEF OnceEach
  <2> QED
    BY <1>1, <2>2, <2>3
<1>12. InMemory(r, M \ S)
  BY <1>10, <1>11 DEF Backed, InMemory
<1> QED
  BY <1>6, <1>8, <1>10, <1>12 DEF Backed

(* Free pages in a row are free memory that calls find.                    *)
LEMMA FreeVacant ==
    ASSUME NEW as, Tiled(as), FreeMerged(as), NEW target \in Nat, NEW size \in Nat, 1 <= size,
           target + size <= MAX_ADDRESS,
           \A v \in Pages : InSpan(v, target, size) => FreePage(as, v)
    PROVE  Vacant(as, target, size)
<1> DEFINE a == FindVMA(as, target)
<1>1. target \in Pages /\ InSpan(target, target, size)
  BY Numbers DEF Pages, InSpan
<1>2. a \in as /\ Holds(a, target)
  BY <1>1, Found
<1>3. FreePage(as, target) <=> IsFree(a)
  BY <1>1, <1>2, PageIs
<1>4. Vacant(as, target, size) <=> IsFree(a) /\ target + size <= a.base + a.size
  BY DEF Vacant
<1> HIDE DEF a
<1>5. a \in Area /\ Sound(a)
  BY <1>2, TiledAreas
<1>6. a.base \in Nat /\ a.size \in Nat /\ a.base + a.size <= MAX_ADDRESS
      /\ a.base <= target /\ target < a.base + a.size
  BY <1>2, <1>5, AreaFields DEF Holds, Sound
<1>7. ~(a.base + a.size < target + size)
  <2> SUFFICES ASSUME a.base + a.size < target + size
               PROVE  FALSE
    OBVIOUS
  <2> DEFINE e == a.base + a.size
  <2>1. e \in Pages /\ e \in Bounds(as)
    <3>1. e # MAX_ADDRESS
      BY <1>6, Numbers
    <3> QED
      BY <1>2, <3>1, NextArea
  <2>2. e \in Nat /\ e # 0 /\ e - 1 \in Pages /\ target < e /\ e < target + size
    BY <1>6, <2>1, Numbers DEF Pages
  <2> HIDE DEF e
  <2>3. FreePage(as, e) /\ FreePage(as, e - 1)
    <3>1. InSpan(e, target, size) /\ InSpan(e - 1, target, size)
      BY <2>2 DEF InSpan
    <3> QED
      BY <2>1, <2>2, <3>1
  <2> QED
    BY <2>1, <2>2, <2>3 DEF FreeMerged
<1>8. IsFree(a)
  BY <1>1, <1>3
<1>9. target + size <= a.base + a.size
  BY <1>6, <1>7
<1> QED
  BY <1>4, <1>8, <1>9

(***************************************************************************)
(* The invariant: who holds each page, what the books say, and which       *)
(* thread uses each slot.                                                  *)
(***************************************************************************)
Holders == {<<"free", NoProcess>>} \cup ({"process"} \X Processes) \cup ({"block"} \X Blocks)
OfProcess(p) ==
    IF Exists(p) THEN process[p].holding_memory \cup process[p].holding_tls_memory ELSE {}
OfBlock(s) == IF shared_memory[s] # NoBlock THEN shared_memory[s].holding_memory ELSE {}
HeldBy(h) ==
    IF h[1] = "free" THEN free_blocks
    ELSE IF h[1] = "process" THEN OfProcess(h[2]) ELSE OfBlock(h[2])

(* Each page is free or held, once.                                        *)
Parted ==
    /\ \A h \in Holders : HeldBy(h) \subseteq FCRAM
    /\ \A f \in FCRAM : \E h \in Holders : f \in HeldBy(h)
    /\ \A f \in FCRAM : \A h, g \in Holders : f \in HeldBy(h) /\ f \in HeldBy(g) => h = g

ProcessHolds(P) ==
    /\ Backed(P.areas, P.holding_memory)
    /\ P.holding_memory \subseteq APPLICATION /\ P.holding_tls_memory \subseteq BASE

(* An automatic block holds its memory, one of the heap holds none.        *)
BlockHolds(b) ==
    IF b.base_address = 0
    THEN /\ b.holding_memory \subseteq BASE /\ Cardinality(b.holding_memory) = b.size
         /\ b.backing_blocks[1].backing \in BASE
    ELSE b.holding_memory = {}

HoldingsInv ==
    /\ \A p \in Live : ProcessHolds(process[p])
    /\ \A s \in LiveBlocks : BlockHolds(shared_memory[s])
    /\ Parted

(* Blocks that still count for the process that made them.                 *)
Counted == {s \in LiveBlocks : shared_memory[s].owner_process # NoProcess}

NumbersInv ==
    /\ limit \in [{"Commit", "Thread", "SharedMemory"} -> Int]
    /\ \A p \in Live : process[p].memory_used = Cardinality(Charged(p))
    /\ limit.Commit = Cardinality(UNION {process[p].holding_memory : p \in Live})
    /\ IsFiniteSet(Counted) /\ limit.SharedMemory >= Cardinality(Counted)

(* A thread is that of a process that runs, and its slot is in use; no two *)
(* threads have the same.                                                  *)
SlotsMatch(p) ==
    /\ \A t \in ThreadsOf(p) : \E n, i : thread[t].slot = <<n, i>> /\ IsUsed(process[p], n, i)
    /\ \A t, u \in ThreadsOf(p) : thread[t].slot = thread[u].slot => t = u

TlsInv ==
    /\ \A p \in Live : SlotsMatch(p)
    /\ \A t \in Threads : thread[t] # NoThread => Running(thread[t].process)
    /\ limit.Thread = Cardinality({t \in Threads : thread[t] # NoThread})

BooksInv == HoldingsInv /\ NumbersInv /\ TlsInv /\ failed = FALSE

(***************************************************************************)
(* A step that changes one process, and neither its slots nor its status.  *)
(***************************************************************************)
Alike(P, Q) ==
    /\ Q.status = P.status /\ Q.tls_slots = P.tls_slots
    /\ Q.holding_tls_memory = P.holding_tls_memory

OneProcess(p, Q) ==
    /\ p \in Processes /\ Exists(p) /\ process[p] \in Process /\ Q \in Process
    /\ Alike(process[p], Q) /\ process' = [process EXCEPT ![p] = Q]

LEMMA OneProcessStep ==
    ASSUME MemoryInv, NEW p, NEW Q, OneProcess(p, Q)
    PROVE  /\ p \in Live /\ process'[p] = Q /\ Live' = Live
           /\ \A q \in Processes : q # p => process'[q] = process[q]
           /\ \A q \in Processes : (Exists(q)' <=> Exists(q)) /\ (Running(q)' <=> Running(q))
<1>1. p \in Processes /\ Exists(p) /\ Q \in Process /\ Alike(process[p], Q)
      /\ process' = [process EXCEPT ![p] = Q]
  BY DEF OneProcess
<1>2. /\ process'[p] = Q /\ \A q \in Processes : q # p => process'[q] = process[q]
  BY <1>1 DEF MemoryInv
<1>3. Q # NoProcess /\ Q.status = process[p].status
  BY <1>1, ProcessFields DEF Alike
<1>4. \A q \in Processes : (Exists(q)' <=> Exists(q)) /\ (Running(q)' <=> Running(q))
  BY <1>1, <1>2, <1>3 DEF Exists, Running
<1> QED
  BY <1>1, <1>2, <1>4 DEF Live

LEMMA TlsStays ==
    ASSUME MemoryInv, TlsInv, UNCHANGED thread, limit'.Thread = limit.Thread,
           \A q \in Live' : q \in Live /\ process'[q].tls_slots = process[q].tls_slots,
           \A q \in Processes : Running(q) => Running(q)'
    PROVE  TlsInv'
<1>1. ASSUME NEW q \in Live'
      PROVE  SlotsMatch(q)'
  <2>1. q \in Live /\ process'[q].tls_slots = process[q].tls_slots
    OBVIOUS
  <2>2. SlotsMatch(q) /\ ThreadsOf(q)' = ThreadsOf(q)
    BY <2>1 DEF TlsInv, ThreadsOf
  <2>3. \A n, i : IsUsed(process[q], n, i) <=> IsUsed(process'[q], n, i)
    BY <2>1 DEF IsUsed
  <2> QED
    BY <2>2, <2>3 DEF SlotsMatch
<1>2. ASSUME NEW t \in Threads, thread'[t] # NoThread
      PROVE  Running(thread[t].process)'
  <2>1. thread'[t] = thread[t] /\ thread[t] \in Thread
    BY <1>2 DEF MemoryInv
  <2>2. thread[t].process \in Processes /\ Running(thread[t].process)
    BY <1>2, <2>1 DEF TlsInv, Thread
  <2> QED
    BY <2>1, <2>2
<1>3. (limit.Thread = Cardinality({t \in Threads : thread[t] # NoThread}))'
  BY DEF TlsInv
<1> QED
  BY <1>1, <1>2, <1>3 DEF TlsInv

LEMMA OneProcessTls ==
    ASSUME MemoryInv, TlsInv, NEW p, NEW Q, OneProcess(p, Q), UNCHANGED thread,
           limit'.Thread = limit.Thread
    PROVE  TlsInv'
<1>1. /\ process'[p] = Q /\ Live' = Live
      /\ \A q \in Processes : q # p => process'[q] = process[q]
      /\ \A q \in Processes : Running(q)' <=> Running(q)
  BY OneProcessStep
<1>2. Q.tls_slots = process[p].tls_slots
  BY DEF OneProcess, Alike
<1>3. \A q \in Live' : q \in Live /\ process'[q].tls_slots = process[q].tls_slots
  BY <1>1, <1>2 DEF Live
<1> QED
  BY <1>1, <1>3, TlsStays

(***************************************************************************)
(* Pages that change hands.                                                *)
(***************************************************************************)
(* The pages of S go to h, from wherever they were.                        *)
MovedTo(h, S) ==
    \A g \in Holders : HeldBy(g)' = IF g = h THEN HeldBy(g) \cup S ELSE HeldBy(g) \ S

LEMMA StaysParted ==
    ASSUME Parted, NEW h \in Holders, NEW S, S \subseteq FCRAM, MovedTo(h, S)
    PROVE  Parted'
<1>1. \A g \in Holders : HeldBy(g)' = IF g = h THEN HeldBy(g) \cup S ELSE HeldBy(g) \ S
  BY DEF MovedTo
<1>2. \A g \in Holders : \A f : f \in HeldBy(g)' <=> IF f \in S THEN g = h ELSE f \in HeldBy(g)
  BY <1>1
<1>3. /\ \A g \in Holders : HeldBy(g) \subseteq FCRAM
      /\ \A f \in FCRAM : \E g \in Holders : f \in HeldBy(g)
      /\ \A f \in FCRAM : \A g, k \in Holders : f \in HeldBy(g) /\ f \in HeldBy(k) => g = k
  BY DEF Parted
<1>4. \A g \in Holders : HeldBy(g)' \subseteq FCRAM
  BY <1>1, <1>3
<1>5. ASSUME NEW f \in FCRAM
      PROVE  \E g \in Holders : f \in HeldBy(g)'
  <2>1. CASE f \in S
    BY <1>2, <2>1
  <2>2. CASE f \notin S
    BY <1>2, <1>3, <2>2
  <2> QED
    BY <2>1, <2>2
<1>6. ASSUME NEW f \in FCRAM, NEW g \in Holders, NEW k \in Holders, f \in HeldBy(g)', f \in HeldBy(k)'
      PROVE  g = k
  BY <1>2, <1>3, <1>6
<1> QED
  BY <1>4, <1>5, <1>6 DEF Parted, Holders

(* From a single holder to another.                                        *)
LEMMA MovedFrom ==
    ASSUME Parted, NEW h \in Holders, NEW k \in Holders, h # k, NEW S, S \subseteq HeldBy(k),
           HeldBy(h)' = HeldBy(h) \cup S, HeldBy(k)' = HeldBy(k) \ S,
           \A g \in Holders : g # h /\ g # k => HeldBy(g)' = HeldBy(g)
    PROVE  Parted' /\ S \cap HeldBy(h) = {}
<1>1. S \subseteq FCRAM
  BY DEF Parted
<1>2. \A g \in Holders : g # k => HeldBy(g) \cap S = {}
  BY <1>1 DEF Parted
<1>3. \A g \in Holders : g # h /\ g # k => HeldBy(g) \ S = HeldBy(g)
  BY <1>2
<1>4. MovedTo(h, S)
  BY <1>3 DEF MovedTo
<1> QED
  BY <1>1, <1>2, <1>4, StaysParted

LEMMA NothingMoved ==
    ASSUME Parted, \A g \in Holders : HeldBy(g)' = HeldBy(g)
    PROVE  Parted'
BY DEF Parted, Holders

LEMMA TheHolders ==
    /\ <<"free", NoProcess>> \in Holders /\ HeldBy(<<"free", NoProcess>>) = free_blocks
    /\ \A p \in Processes : /\ <<"process", p>> \in Holders
                            /\ HeldBy(<<"process", p>>) = OfProcess(p)
    /\ \A s \in Blocks : <<"block", s>> \in Holders /\ HeldBy(<<"block", s>>) = OfBlock(s)
    /\ \A h \in Holders : \/ h = <<"free", NoProcess>>
                          \/ \E p \in Processes : h = <<"process", p>>
                          \/ \E s \in Blocks : h = <<"block", s>>
    /\ \A p, q : <<"process", p>> = <<"process", q>> => p = q
    /\ \A s, u : <<"block", s>> = <<"block", u>> => s = u
    /\ \A p, q : <<"process", p>> # <<"block", q>> /\ <<"process", p>> # <<"free", NoProcess>>
                 /\ <<"block", p>> # <<"free", NoProcess>>
BY DEF Holders, HeldBy

(* What is held is apart.                                                  *)
LEMMA HeldApart ==
    ASSUME Parted
    PROVE  /\ \A p \in Processes : OfProcess(p) \in SUBSET FCRAM /\ OfProcess(p) \cap free_blocks = {}
           /\ \A s \in Blocks : OfBlock(s) \in SUBSET FCRAM /\ OfBlock(s) \cap free_blocks = {}
           /\ \A p, q \in Processes : p # q => OfProcess(p) \cap OfProcess(q) = {}
           /\ \A s, u \in Blocks : s # u => OfBlock(s) \cap OfBlock(u) = {}
           /\ \A p \in Processes, s \in Blocks : OfProcess(p) \cap OfBlock(s) = {}
<1>1. \A h, g \in Holders : h # g => HeldBy(h) \cap HeldBy(g) = {}
  BY DEF Parted
<1>2. \A h \in Holders : HeldBy(h) \in SUBSET FCRAM
  BY DEF Parted
<1>3. \A p \in Processes : OfProcess(p) \in SUBSET FCRAM /\ OfProcess(p) \cap free_blocks = {}
  BY <1>1, <1>2, TheHolders
<1>4. \A s \in Blocks : OfBlock(s) \in SUBSET FCRAM /\ OfBlock(s) \cap free_blocks = {}
  BY <1>1, <1>2, TheHolders
<1>5. \A p, q \in Processes : p # q => OfProcess(p) \cap OfProcess(q) = {}
  BY <1>1, TheHolders
<1>6. \A s, u \in Blocks : s # u => OfBlock(s) \cap OfBlock(u) = {}
  BY <1>1, TheHolders
<1>7. \A p \in Processes, s \in Blocks : OfProcess(p) \cap OfBlock(s) = {}
  BY <1>1, TheHolders
<1> QED
  BY <1>3, <1>4, <1>5, <1>6, <1>7

(* Pages between the free ones and a process; other holders have theirs.   *)
LEMMA ProcessMoves ==
    ASSUME Parted, NEW p \in Processes, NEW S,
           \A q \in Processes : q # p => OfProcess(q)' = OfProcess(q),
           \A s \in Blocks : OfBlock(s)' = OfBlock(s),
           \/ /\ S \subseteq free_blocks /\ free_blocks' = free_blocks \ S
              /\ OfProcess(p)' = OfProcess(p) \cup S
           \/ /\ S \subseteq OfProcess(p) /\ free_blocks' = free_blocks \cup S
              /\ OfProcess(p)' = OfProcess(p) \ S
    PROVE  Parted'
<1> DEFINE h == <<"process", p>>
           k == <<"free", NoProcess>>
<1>1. /\ h \in Holders /\ k \in Holders /\ h # k
      /\ HeldBy(h) = OfProcess(p) /\ HeldBy(k) = free_blocks
      /\ HeldBy(h)' = OfProcess(p)' /\ HeldBy(k)' = free_blocks'
  BY TheHolders DEF HeldBy
<1>2. ASSUME NEW g \in Holders, g # h, g # k
      PROVE  HeldBy(g)' = HeldBy(g)
  <2>1. CASE \E q \in Processes : g = <<"process", q>>
    <3>1. PICK q \in Processes : g = <<"process", q>>
      BY <2>1
    <3>2. q # p
      BY <1>2, <3>1
    <3>3. HeldBy(g) = OfProcess(q) /\ HeldBy(g)' = OfProcess(q)'
      BY <3>1 DEF HeldBy
    <3> QED
      BY <3>2, <3>3
  <2>2. CASE \E s \in Blocks : g = <<"block", s>>
    <3>1. PICK s \in Blocks : g = <<"block", s>>
      BY <2>2
    <3>2. HeldBy(g) = OfBlock(s) /\ HeldBy(g)' = OfBlock(s)'
      BY <3>1 DEF HeldBy
    <3> QED
      BY <3>2
  <2> QED
    BY <1>2, <2>1, <2>2, TheHolders
<1> HIDE DEF h, k
<1>3. CASE S \subseteq free_blocks /\ free_blocks' = free_blocks \ S
           /\ OfProcess(p)' = OfProcess(p) \cup S
  BY <1>1, <1>2, <1>3, MovedFrom
<1>4. CASE S \subseteq OfProcess(p) /\ free_blocks' = free_blocks \cup S
           /\ OfProcess(p)' = OfProcess(p) \ S
  BY <1>1, <1>2, <1>4, MovedFrom
<1> QED
  BY <1>3, <1>4

LEMMA BlockMoves ==
    ASSUME Parted, NEW s \in Blocks, NEW S,
           \A q \in Processes : OfProcess(q)' = OfProcess(q),
           \A u \in Blocks : u # s => OfBlock(u)' = OfBlock(u),
           \/ /\ S \subseteq free_blocks /\ free_blocks' = free_blocks \ S
              /\ OfBlock(s)' = OfBlock(s) \cup S
           \/ /\ S \subseteq OfBlock(s) /\ free_blocks' = free_blocks \cup S
              /\ OfBlock(s)' = OfBlock(s) \ S
    PROVE  Parted'
<1> DEFINE h == <<"block", s>>
           k == <<"free", NoProcess>>
<1>1. /\ h \in Holders /\ k \in Holders /\ h # k
      /\ HeldBy(h) = OfBlock(s) /\ HeldBy(k) = free_blocks
      /\ HeldBy(h)' = OfBlock(s)' /\ HeldBy(k)' = free_blocks'
  BY TheHolders DEF HeldBy
<1>2. ASSUME NEW g \in Holders, g # h, g # k
      PROVE  HeldBy(g)' = HeldBy(g)
  <2>1. CASE \E q \in Processes : g = <<"process", q>>
    <3>1. PICK q \in Processes : g = <<"process", q>>
      BY <2>1
    <3>2. HeldBy(g) = OfProcess(q) /\ HeldBy(g)' = OfProcess(q)'
      BY <3>1 DEF HeldBy
    <3> QED
      BY <3>2
  <2>2. CASE \E u \in Blocks : g = <<"block", u>>
    <3>1. PICK u \in Blocks : g = <<"block", u>>
      BY <2>2
    <3>2. u # s
      BY <1>2, <3>1
    <3>3. HeldBy(g) = OfBlock(u) /\ HeldBy(g)' = OfBlock(u)'
      BY <3>1 DEF HeldBy
    <3> QED
      BY <3>2, <3>3
  <2> QED
    BY <1>2, <2>1, <2>2, TheHolders
<1> HIDE DEF h, k
<1>3. CASE S \subseteq free_blocks /\ free_blocks' = free_blocks \ S
           /\ OfBlock(s)' = OfBlock(s) \cup S
  BY <1>1, <1>2, <1>3, MovedFrom
<1>4. CASE S \subseteq OfBlock(s) /\ free_blocks' = free_blocks \cup S
           /\ OfBlock(s)' = OfBlock(s) \ S
  BY <1>1, <1>2, <1>4, MovedFrom
<1> QED
  BY <1>3, <1>4

(* Each page is counted once.                                              *)
LEMMA PartedConserved ==
    ASSUME Parted
    PROVE  FcramConserved
<1> SUFFICES ASSUME NEW f \in FCRAM
             PROVE  (IF f \in free_blocks THEN 1 ELSE 0) + Cardinality({p \in Live : f \in Holdings[p]})
                        + Cardinality({s \in LiveBlocks : f \in BlockHoldings[s]}) = 1
  BY DEF FcramConserved
<1> DEFINE A == {p \in Live : f \in Holdings[p]}
           B == {s \in LiveBlocks : f \in BlockHoldings[s]}
<1>1. \A p : p \in A <=> p \in Processes /\ f \in OfProcess(p)
  BY DEF Live, Holdings, OfProcess
<1>2. \A s : s \in B <=> s \in Blocks /\ f \in OfBlock(s)
  BY DEF LiveBlocks, BlockHoldings, OfBlock
<1> HIDE DEF A, B
<1>3. PICK h \in Holders : f \in HeldBy(h)
  BY DEF Parted
<1>4. \A g \in Holders : f \in HeldBy(g) => g = h
  BY <1>3 DEF Parted
<1>5. CASE h = <<"free", NoProcess>>
  <2>1. f \in free_blocks
    BY <1>3, <1>5, TheHolders
  <2>2. A = {} /\ B = {}
    BY <1>1, <1>2, <2>1, HeldApart
  <2>3. Cardinality(A) = 0 /\ Cardinality(B) = 0
    BY <2>2, FS_EmptySet
  <2> QED
    BY <2>1, <2>3 DEF A, B
<1>6. CASE \E p \in Processes : h = <<"process", p>>
  <2>1. PICK p \in Processes : h = <<"process", p>>
    BY <1>6
  <2>2. f \in OfProcess(p)
    BY <1>3, <2>1, TheHolders
  <2>3. f \notin free_blocks /\ A = {p} /\ B = {}
    BY <1>1, <1>2, <2>2, HeldApart
  <2>4. Cardinality(A) = 1 /\ Cardinality(B) = 0
    BY <2>3, FS_EmptySet, FS_Singleton
  <2> QED
    BY <2>3, <2>4 DEF A, B
<1>7. CASE \E s \in Blocks : h = <<"block", s>>
  <2>1. PICK s \in Blocks : h = <<"block", s>>
    BY <1>7
  <2>2. f \in OfBlock(s)
    BY <1>3, <2>1, TheHolders
  <2>3. f \notin free_blocks /\ A = {} /\ B = {s}
    BY <1>1, <1>2, <2>2, HeldApart
  <2>4. Cardinality(A) = 0 /\ Cardinality(B) = 1
    BY <2>3, FS_EmptySet, FS_Singleton
  <2> QED
    BY <2>3, <2>4 DEF A, B
<1> QED
  BY <1>3, <1>5, <1>6, <1>7, TheHolders

(***************************************************************************)
(* Numbers.                                                                *)
(***************************************************************************)
Charges(s, p) ==
    shared_memory[s] # NoBlock /\ Automatic(s) /\ shared_memory[s].owner_process = p

LEMMA ChargedTo ==
    ASSUME NEW p \in Live
    PROVE  \A x : x \in Charged(p) <=> \/ x \in OfProcess(p)
                                       \/ \E s \in Blocks : Charges(s, p) /\ x \in OfBlock(s)
<1> DEFINE B == {b \in LiveBlocks : Automatic(b) /\ shared_memory[b].owner_process = p}
<1>1. \A s : s \in B <=> s \in Blocks /\ Charges(s, p)
  BY DEF LiveBlocks, Charges
<1>2. \A s \in B : BlockHoldings[s] = OfBlock(s)
  BY DEF LiveBlocks, BlockHoldings, OfBlock
<1>3. Holdings[p] = OfProcess(p)
  BY DEF Live, Holdings, OfProcess
<1>4. Charged(p) = Holdings[p] \cup UNION {BlockHoldings[s] : s \in B}
  BY DEF Charged
<1> HIDE DEF B
<1>5. \A x : x \in UNION {BlockHoldings[s] : s \in B} <=> \E s \in B : x \in OfBlock(s)
  BY <1>2
<1> QED
  BY <1>1, <1>3, <1>4, <1>5

LEMMA FcramFinite ==
    /\ IsFiniteSet(FCRAM)
    /\ \A S : S \subseteq FCRAM => IsFiniteSet(S) /\ Cardinality(S) \in Nat
<1>1. IsFiniteSet(FCRAM)
  BY Numbers, FS_Interval
<1> QED
  BY <1>1, FS_Subset, FS_CardinalityType

LEMMA ChargedFinite ==
    ASSUME Parted, NEW p \in Live
    PROVE  Charged(p) \subseteq FCRAM /\ IsFiniteSet(Charged(p)) /\ Cardinality(Charged(p)) \in Nat
<1>1. Charged(p) \subseteq FCRAM
  BY ChargedTo, HeldApart DEF Live
<1> QED
  BY <1>1, FcramFinite

(* Sums of pages.                                                          *)
LEMMA MorePages ==
    ASSUME NEW A, A \subseteq FCRAM, NEW S, S \subseteq FCRAM, A \cap S = {}
    PROVE  Cardinality(A \cup S) = Cardinality(A) + Cardinality(S)
<1>1. IsFiniteSet(A) /\ IsFiniteSet(S) /\ Cardinality(A) \in Nat /\ Cardinality(S) \in Nat
  BY FcramFinite
<1>2. Cardinality(A \cup S) = Cardinality(A) + Cardinality(S) - Cardinality(A \cap S)
  BY <1>1, FS_Union
<1>3. Cardinality(A \cap S) = 0
  BY FS_EmptySet
<1> QED
  BY <1>1, <1>2, <1>3

LEMMA FewerPages ==
    ASSUME NEW A, A \subseteq FCRAM, NEW S, S \subseteq A
    PROVE  Cardinality(A \ S) = Cardinality(A) - Cardinality(S)
<1>1. A = (A \ S) \cup S /\ (A \ S) \cap S = {} /\ A \ S \subseteq FCRAM /\ S \subseteq FCRAM
  OBVIOUS
<1>2. Cardinality(A) = Cardinality(A \ S) + Cardinality(S)
  BY <1>1, MorePages
<1>3. Cardinality(A \ S) \in Nat /\ Cardinality(S) \in Nat
  BY <1>1, FcramFinite
<1> QED
  BY <1>2, <1>3

(* Memory that all processes together have been given.                     *)
Committed == UNION {process[p].holding_memory : p \in Live}

LEMMA CommittedBy ==
    \A x : x \in Committed <=> \E p \in Live : x \in process[p].holding_memory
BY DEF Committed

LEMMA LimitFields ==
    ASSUME NumbersInv
    PROVE  /\ limit.Commit \in Int /\ limit.Thread \in Int /\ limit.SharedMemory \in Int
           /\ limit.Commit = Cardinality(Committed)
BY DEF NumbersInv, Committed

Counts == {"Commit", "Thread", "SharedMemory"}

(* What the limit counts changes by so much.                               *)
LimitMoves(c, n, m) ==
    /\ limit' \in [Counts -> Int] /\ limit'.Commit = limit.Commit + c
    /\ limit'.Thread = limit.Thread + n /\ limit'.SharedMemory = limit.SharedMemory + m

LEMMA LimitStays ==
    ASSUME NumbersInv, TlsInv, UNCHANGED limit
    PROVE  LimitMoves(0, 0, 0)
<1>1. limit \in [Counts -> Int]
  BY DEF NumbersInv, Counts
<1>2. limit.Commit \in Int /\ limit.Thread \in Int /\ limit.SharedMemory \in Int
  BY <1>1 DEF Counts
<1> QED
  BY <1>1, <1>2 DEF LimitMoves

LEMMA LimitFieldMoves ==
    ASSUME NumbersInv, NEW k \in Int
    PROVE  /\ limit' = [limit EXCEPT !.Commit = @ + k] => LimitMoves(k, 0, 0)
           /\ limit' = [limit EXCEPT !.Thread = @ + k] => LimitMoves(0, k, 0)
           /\ limit' = [limit EXCEPT !.SharedMemory = @ + k] => LimitMoves(0, 0, k)
<1>1. limit \in [Counts -> Int]
  BY DEF NumbersInv, Counts
<1>2. limit.Commit \in Int /\ limit.Thread \in Int /\ limit.SharedMemory \in Int
  BY <1>1 DEF Counts
<1>3. ASSUME limit' = [limit EXCEPT !.Commit = @ + k]
      PROVE  LimitMoves(k, 0, 0)
  <2>1. limit' \in [Counts -> Int]
    BY <1>1, <1>2, <1>3 DEF Counts
  <2> QED
    BY <1>1, <1>2, <1>3, <2>1 DEF LimitMoves, Counts
<1>4. ASSUME limit' = [limit EXCEPT !.Thread = @ + k]
      PROVE  LimitMoves(0, k, 0)
  <2>1. limit' \in [Counts -> Int]
    BY <1>1, <1>2, <1>4 DEF Counts
  <2> QED
    BY <1>1, <1>2, <1>4, <2>1 DEF LimitMoves, Counts
<1>5. ASSUME limit' = [limit EXCEPT !.SharedMemory = @ + k]
      PROVE  LimitMoves(0, 0, k)
  <2>1. limit' \in [Counts -> Int]
    BY <1>1, <1>2, <1>5 DEF Counts
  <2> QED
    BY <1>1, <1>2, <1>5, <2>1 DEF LimitMoves, Counts
<1> QED
  BY <1>3, <1>4, <1>5

LEMMA ChargedNext ==
    ASSUME NEW p \in Live'
    PROVE  \A x : x \in Charged(p)' <=> \/ x \in OfProcess(p)'
                                        \/ \E s \in Blocks : Charges(s, p)' /\ x \in OfBlock(s)'
<1> DEFINE B == {b \in LiveBlocks' : Automatic(b)' /\ shared_memory'[b].owner_process = p}
<1>1. \A s : s \in B <=> s \in Blocks /\ Charges(s, p)'
  BY DEF LiveBlocks, Charges
<1>2. \A s \in B : BlockHoldings'[s] = OfBlock(s)'
  BY DEF LiveBlocks, BlockHoldings, OfBlock
<1>3. Holdings'[p] = OfProcess(p)'
  BY DEF Live, Holdings, OfProcess
<1>4. Charged(p)' = Holdings'[p] \cup UNION {BlockHoldings'[s] : s \in B}
  BY DEF Charged
<1> HIDE DEF B
<1>5. \A x : x \in UNION {BlockHoldings'[s] : s \in B} <=> \E s \in B : x \in OfBlock(s)'
  BY <1>2
<1> QED
  BY <1>1, <1>3, <1>4, <1>5

(* A process whose pages, and those of its blocks, stay.                   *)
LEMMA ChargedStays ==
    ASSUME NEW q \in Live, q \in Live', OfProcess(q)' = OfProcess(q),
           \A s \in Blocks : Charges(s, q)' <=> Charges(s, q),
           \A s \in Blocks : Charges(s, q) => OfBlock(s)' = OfBlock(s)
    PROVE  Charged(q)' = Charged(q)
<1>1. \A x : x \in Charged(q)' <=> x \in Charged(q)
  BY ChargedTo, ChargedNext
<1> QED
  BY <1>1

(* A step that changes one process and no block.                           *)
LEMMA OneProcessHolds ==
    ASSUME MemoryInv, NEW p, NEW Q, OneProcess(p, Q)
    PROVE  /\ OfProcess(p) = process[p].holding_memory \cup process[p].holding_tls_memory
           /\ OfProcess(p)' = Q.holding_memory \cup process[p].holding_tls_memory
           /\ \A q \in Processes : q # p => OfProcess(q)' = OfProcess(q)
<1>1. /\ p \in Live /\ process'[p] = Q
      /\ \A q \in Processes : q # p => process'[q] = process[q]
      /\ \A q \in Processes : Exists(q)' <=> Exists(q)
  BY OneProcessStep
<1>2. p \in Processes /\ Exists(p) /\ Q.holding_tls_memory = process[p].holding_tls_memory
  BY DEF OneProcess, Alike
<1> QED
  BY <1>1, <1>2 DEF OfProcess

LEMMA SameBlocks ==
    ASSUME UNCHANGED shared_memory
    PROVE  /\ \A s : OfBlock(s)' = OfBlock(s) /\ \A q : Charges(s, q)' <=> Charges(s, q)
           /\ LiveBlocks' = LiveBlocks /\ Counted' = Counted
BY DEF OfBlock, Charges, Automatic, LiveBlocks, Counted

LEMMA RegionsApart ==
    APPLICATION \cap BASE = {} /\ APPLICATION \cup BASE = FCRAM
BY BoundsAssumption DEF APPLICATION, BASE, FCRAM

(* Pages given to a process, or taken from it.                             *)
Given(p, Q, S) ==
    /\ S \subseteq free_blocks \cap APPLICATION /\ free_blocks' = free_blocks \ S
    /\ Q.holding_memory = process[p].holding_memory \cup S
    /\ Q.memory_used = process[p].memory_used + Cardinality(S)
    /\ LimitMoves(Cardinality(S), 0, 0)
TakenBack(p, Q, S) ==
    /\ S \subseteq process[p].holding_memory /\ free_blocks' = free_blocks \cup S
    /\ Q.holding_memory = process[p].holding_memory \ S
    /\ Q.memory_used = process[p].memory_used - Cardinality(S)
    /\ LimitMoves(0 - Cardinality(S), 0, 0)

LEMMA ProcessPages ==
    ASSUME MemoryInv, HoldingsInv, NEW p, NEW Q, OneProcess(p, Q),
           NEW S, Given(p, Q, S) \/ TakenBack(p, Q, S)
    PROVE  /\ S \subseteq FCRAM /\ Q.holding_memory \subseteq APPLICATION
           /\ Given(p, Q, S) => S \subseteq free_blocks /\ free_blocks' = free_blocks \ S
                                /\ OfProcess(p)' = OfProcess(p) \cup S
           /\ TakenBack(p, Q, S) => S \subseteq OfProcess(p) /\ free_blocks' = free_blocks \cup S
                                    /\ OfProcess(p)' = OfProcess(p) \ S
<1> DEFINE P == process[p]
<1>1. p \in Live
  BY OneProcessStep
<1>2. P.holding_memory \subseteq APPLICATION /\ P.holding_tls_memory \subseteq BASE
  BY <1>1 DEF HoldingsInv, ProcessHolds
<1>3. /\ OfProcess(p) = P.holding_memory \cup P.holding_tls_memory
      /\ OfProcess(p)' = Q.holding_memory \cup P.holding_tls_memory
  BY OneProcessHolds
<1> HIDE DEF P
<1>6. Given(p, Q, S) => S \subseteq free_blocks /\ free_blocks' = free_blocks \ S
                        /\ OfProcess(p)' = OfProcess(p) \cup S
  BY <1>3 DEF Given, P
<1>7. TakenBack(p, Q, S) => S \subseteq OfProcess(p) /\ free_blocks' = free_blocks \cup S
                            /\ OfProcess(p)' = OfProcess(p) \ S
  BY <1>2, <1>3, RegionsApart DEF TakenBack, P
<1>8. S \subseteq FCRAM /\ Q.holding_memory \subseteq APPLICATION
  BY <1>2, RegionsApart DEF Given, TakenBack, P
<1> QED
  BY <1>6, <1>7, <1>8

LEMMA HoldingsStep ==
    ASSUME MemoryInv, HoldingsInv, NEW p, NEW Q, OneProcess(p, Q),
           Backed(Q.areas, Q.holding_memory), UNCHANGED shared_memory,
           NEW S, Given(p, Q, S) \/ TakenBack(p, Q, S)
    PROVE  HoldingsInv'
<1>1. /\ p \in Live /\ process'[p] = Q /\ Live' = Live
      /\ \A q \in Processes : q # p => process'[q] = process[q]
  BY OneProcessStep
<1>2. /\ Q.holding_memory \subseteq APPLICATION
      /\ Given(p, Q, S) => S \subseteq free_blocks /\ free_blocks' = free_blocks \ S
                           /\ OfProcess(p)' = OfProcess(p) \cup S
      /\ TakenBack(p, Q, S) => S \subseteq OfProcess(p) /\ free_blocks' = free_blocks \cup S
                               /\ OfProcess(p)' = OfProcess(p) \ S
  BY ProcessPages
<1>3. \A q \in Live : ProcessHolds(process[q])
  BY DEF HoldingsInv
<1>4. ProcessHolds(Q)
  <2>1. Q.holding_tls_memory = process[p].holding_tls_memory
    BY DEF OneProcess, Alike
  <2>2. process[p].holding_tls_memory \subseteq BASE
    BY <1>1, <1>3 DEF ProcessHolds
  <2> QED
    BY <1>2, <2>1, <2>2 DEF ProcessHolds
<1>5. \A q \in Live' : ProcessHolds(process'[q])
  BY <1>1, <1>3, <1>4 DEF Live
<1>6. \A s \in LiveBlocks' : BlockHolds(shared_memory'[s])
  BY SameBlocks DEF HoldingsInv
<1>7. Parted'
  <2>1. Parted /\ p \in Processes
    BY <1>1 DEF HoldingsInv, Live
  <2>2. \A q \in Processes : q # p => OfProcess(q)' = OfProcess(q)
    BY OneProcessHolds
  <2>3. \A s \in Blocks : OfBlock(s)' = OfBlock(s)
    BY SameBlocks
  <2> QED
    BY <1>2, <2>1, <2>2, <2>3, ProcessMoves
<1> QED
  BY <1>5, <1>6, <1>7 DEF HoldingsInv

LEMMA CommittedStep ==
    ASSUME MemoryInv, HoldingsInv, NEW p, NEW Q, OneProcess(p, Q), NEW S
    PROVE  /\ Given(p, Q, S) => Committed' = Committed \cup S /\ Committed \cap S = {}
                                /\ Committed \subseteq FCRAM
           /\ TakenBack(p, Q, S) => Committed' = Committed \ S /\ S \subseteq Committed
                                    /\ Committed \subseteq FCRAM
<1>1. /\ p \in Live /\ process'[p] = Q /\ Live' = Live
      /\ \A q \in Processes : q # p => process'[q] = process[q]
  BY OneProcessStep
<1>2. \A x : x \in Committed' <=> \E q \in Live' : x \in process'[q].holding_memory
  BY DEF Committed
<1>3. \A x : x \in Committed <=> \E q \in Live : x \in process[q].holding_memory
  BY CommittedBy
<1>4. \A x : x \in Committed' <=>
                 x \in Q.holding_memory \/ \E q \in Live : q # p /\ x \in process[q].holding_memory
  BY <1>1, <1>2 DEF Live
<1>5. \A q \in Live : process[q].holding_memory \subseteq OfProcess(q)
  BY DEF Live, OfProcess
<1>6. Parted
  BY DEF HoldingsInv
<1>7. \A q \in Live : /\ q # p => OfProcess(q) \cap OfProcess(p) = {}
                      /\ OfProcess(q) \cap free_blocks = {} /\ OfProcess(q) \subseteq FCRAM
  BY <1>1, <1>6, HeldApart DEF Live
<1>8. Committed \subseteq FCRAM /\ Committed \cap free_blocks = {}
  BY <1>3, <1>5, <1>7
<1>9. ASSUME Given(p, Q, S)
      PROVE  Committed' = Committed \cup S /\ Committed \cap S = {}
  <2>1. S \subseteq free_blocks /\ Q.holding_memory = process[p].holding_memory \cup S
    BY <1>9 DEF Given
  <2> QED
    BY <1>1, <1>3, <1>4, <1>8, <2>1
<1>10. ASSUME TakenBack(p, Q, S)
       PROVE  Committed' = Committed \ S /\ S \subseteq Committed
  <2>1. S \subseteq process[p].holding_memory /\ Q.holding_memory = process[p].holding_memory \ S
    BY <1>10 DEF TakenBack
  <2>2. S \subseteq OfProcess(p)
    BY <1>1, <1>5, <2>1
  <2>3. \A q \in Live : q # p => process[q].holding_memory \cap S = {}
    BY <1>5, <1>7, <2>2
  <2> QED
    BY <1>1, <1>3, <1>4, <2>1, <2>3
<1> QED
  BY <1>8, <1>9, <1>10

LEMMA ChargedStep ==
    ASSUME MemoryInv, HoldingsInv, NEW p, NEW Q, OneProcess(p, Q), UNCHANGED shared_memory, NEW S
    PROVE  /\ Given(p, Q, S) => Charged(p)' = Charged(p) \cup S /\ Charged(p) \cap S = {}
           /\ TakenBack(p, Q, S) => Charged(p)' = Charged(p) \ S /\ S \subseteq Charged(p)
           /\ \A q \in Live : q # p => Charged(q)' = Charged(q)
<1>1. p \in Live /\ p \in Live' /\ p \in Processes /\ Live' = Live
  BY OneProcessStep DEF Live
<1>2. \A x : x \in Charged(p)' <=> \/ x \in OfProcess(p)'
                                   \/ \E s \in Blocks : Charges(s, p)' /\ x \in OfBlock(s)'
  BY <1>1, ChargedNext
<1>3. \A x : x \in Charged(p) <=> \/ x \in OfProcess(p)
                                  \/ \E s \in Blocks : Charges(s, p) /\ x \in OfBlock(s)
  BY <1>1, ChargedTo
<1>4. \A x : x \in Charged(p)' <=> \/ x \in OfProcess(p)'
                                   \/ \E s \in Blocks : Charges(s, p) /\ x \in OfBlock(s)
  BY <1>2, SameBlocks
<1>5. Parted
  BY DEF HoldingsInv
<1>6. /\ OfProcess(p) \cap free_blocks = {}
      /\ \A s \in Blocks : OfBlock(s) \cap free_blocks = {} /\ OfProcess(p) \cap OfBlock(s) = {}
  BY <1>1, <1>5, HeldApart
<1>7. ASSUME Given(p, Q, S)
      PROVE  Charged(p)' = Charged(p) \cup S /\ Charged(p) \cap S = {}
  <2>1. S \subseteq free_blocks /\ OfProcess(p)' = OfProcess(p) \cup S
    BY <1>7, ProcessPages
  <2>2. \A x : x \in Charged(p)' <=> x \in Charged(p) \/ x \in S
    BY <1>3, <1>4, <2>1
  <2>3. \A x : x \in Charged(p) => x \notin S
    BY <1>3, <1>6, <2>1
  <2> QED
    BY <2>2, <2>3
<1>8. ASSUME TakenBack(p, Q, S)
      PROVE  Charged(p)' = Charged(p) \ S /\ S \subseteq Charged(p)
  <2>1. S \subseteq OfProcess(p) /\ OfProcess(p)' = OfProcess(p) \ S
    BY <1>8, ProcessPages
  <2>2. \A s \in Blocks : OfBlock(s) \cap S = {}
    BY <1>6, <2>1
  <2>3. \A x : x \in Charged(p)' <=> x \in Charged(p) /\ x \notin S
    BY <1>3, <1>4, <2>1, <2>2
  <2>4. \A x : x \in S => x \in Charged(p)
    BY <1>3, <2>1
  <2> QED
    BY <2>3, <2>4
<1>9. ASSUME NEW q \in Live, q # p
      PROVE  Charged(q)' = Charged(q)
  <2>1. OfProcess(q)' = OfProcess(q) /\ q \in Live'
    BY <1>1, <1>9, OneProcessHolds DEF Live
  <2> QED
    BY <2>1, SameBlocks, ChargedStays
<1> QED
  BY <1>7, <1>8, <1>9

LEMMA NumbersStep ==
    ASSUME MemoryInv, HoldingsInv, NumbersInv, NEW p, NEW Q, OneProcess(p, Q),
           UNCHANGED shared_memory, NEW S, Given(p, Q, S) \/ TakenBack(p, Q, S)
    PROVE  NumbersInv'
<1>1. /\ p \in Live /\ process'[p] = Q /\ Live' = Live
      /\ \A q \in Processes : q # p => process'[q] = process[q]
  BY OneProcessStep
<1>2. Parted
  BY DEF HoldingsInv
<1>3. Charged(p) \subseteq FCRAM /\ Cardinality(Charged(p)) \in Nat
  BY <1>1, <1>2, ChargedFinite
<1>4. S \subseteq FCRAM /\ Cardinality(S) \in Nat
  BY ProcessPages, FcramFinite
<1>5. /\ \A q \in Live : process[q].memory_used = Cardinality(Charged(q))
      /\ limit.Commit = Cardinality(Committed) /\ limit.SharedMemory \in Int /\ limit.Commit \in Int
      /\ IsFiniteSet(Counted) /\ limit.SharedMemory >= Cardinality(Counted)
  BY LimitFields DEF NumbersInv
<1>6. Q.memory_used = Cardinality(Charged(p)')
  <2>1. CASE Given(p, Q, S)
    <3>1. Charged(p)' = Charged(p) \cup S /\ Charged(p) \cap S = {}
      BY <2>1, ChargedStep
    <3>2. Cardinality(Charged(p)') = Cardinality(Charged(p)) + Cardinality(S)
      BY <1>3, <1>4, <3>1, MorePages
    <3> QED
      BY <1>1, <1>5, <2>1, <3>2 DEF Given
  <2>2. CASE TakenBack(p, Q, S)
    <3>1. Charged(p)' = Charged(p) \ S /\ S \subseteq Charged(p)
      BY <2>2, ChargedStep
    <3>2. Cardinality(Charged(p)') = Cardinality(Charged(p)) - Cardinality(S)
      BY <1>3, <3>1, FewerPages
    <3> QED
      BY <1>1, <1>5, <2>2, <3>2 DEF TakenBack
  <2> QED
    BY <2>1, <2>2
<1>7. \A q \in Live' : process'[q].memory_used = Cardinality(Charged(q)')
  BY <1>1, <1>5, <1>6, ChargedStep DEF Live
<1>8. limit'.Commit = Cardinality(Committed')
  <2>1. CASE Given(p, Q, S)
    <3>1. Committed' = Committed \cup S /\ Committed \cap S = {} /\ Committed \subseteq FCRAM
      BY <2>1, CommittedStep
    <3>2. Cardinality(Committed') = Cardinality(Committed) + Cardinality(S)
      BY <1>4, <3>1, MorePages
    <3> QED
      BY <1>5, <2>1, <3>2 DEF Given, LimitMoves
  <2>2. CASE TakenBack(p, Q, S)
    <3>1. Committed' = Committed \ S /\ S \subseteq Committed /\ Committed \subseteq FCRAM
      BY <2>2, CommittedStep
    <3>2. Cardinality(Committed') = Cardinality(Committed) - Cardinality(S)
      BY <3>1, FewerPages
    <3>3. limit'.Commit = limit.Commit + (0 - Cardinality(S))
      BY <2>2 DEF TakenBack, LimitMoves
    <3> QED
      BY <1>4, <1>5, <3>2, <3>3
  <2> QED
    BY <2>1, <2>2
<1>9. limit' \in [Counts -> Int] /\ limit'.SharedMemory = limit.SharedMemory + 0
  BY DEF Given, TakenBack, LimitMoves
<1>10. IsFiniteSet(Counted') /\ limit'.SharedMemory >= Cardinality(Counted')
  BY <1>5, <1>9, SameBlocks
<1> QED
  BY <1>7, <1>8, <1>9, <1>10 DEF NumbersInv, Committed, Counts

LEMMA ProcessStep ==
    ASSUME MemoryInv, BooksInv, NEW p, NEW Q, OneProcess(p, Q),
           Backed(Q.areas, Q.holding_memory), UNCHANGED <<thread, shared_memory, failed>>,
           NEW S, Given(p, Q, S) \/ TakenBack(p, Q, S)
    PROVE  BooksInv'
<1>1. HoldingsInv /\ NumbersInv /\ TlsInv /\ failed = FALSE
  BY DEF BooksInv
<1>2. HoldingsInv' /\ NumbersInv'
  BY <1>1, HoldingsStep, NumbersStep
<1>3. TlsInv'
  <2>1. limit'.Thread = limit.Thread + 0
    BY DEF Given, TakenBack, LimitMoves
  <2>2. limit.Thread \in Int
    BY <1>1, LimitFields
  <2> QED
    BY <1>1, <2>1, <2>2, OneProcessTls
<1> QED
  BY <1>1, <1>2, <1>3 DEF BooksInv

(***************************************************************************)
(* Calls that change one process and no block.                             *)
(***************************************************************************)
LEMMA SpaceOnly ==
    ASSUME NEW P \in Process, NEW as, NEW Q, Q = [P EXCEPT !.areas = as]
    PROVE  /\ Alike(P, Q) /\ Q.areas = as /\ Q.holding_memory = P.holding_memory
           /\ Q.memory_used = P.memory_used
BY DEF Process, Alike

HasMemory(P, Q, as, S, n) ==
    Alike(P, Q) /\ Q.areas = as /\ Q.holding_memory = S /\ Q.memory_used = n

LEMMA HoldingFields ==
    ASSUME NEW P \in Process, NEW as, NEW S, NEW n
    PROVE  HasMemory(P, Holding(P, as, S, n), as, S, n)
BY DEF Process, Holding, Alike, HasMemory

LEMMA AreasStep ==
    ASSUME MemoryInv, BooksInv, NEW p \in Processes, Exists(p), NEW as,
           KeepsSpace(process[p].areas, as), Shrunk(as, process[p].areas),
           process' = [process EXCEPT ![p].areas = as],
           UNCHANGED <<free_blocks, limit, thread, shared_memory, failed>>
    PROVE  BooksInv'
<1> DEFINE P == process[p]
           Q == [P EXCEPT !.areas = as]
<1>1. P \in Process /\ P.memory_used \in Int
  BY LiveProcess, ProcessFields
<1>2. process' = [process EXCEPT ![p] = Q]
  OBVIOUS
<1>3. Tiled(as)
  BY DEF KeepsSpace
<1> HIDE DEF P
<1>4. Q \in Process
  BY <1>1, <1>3, NewAreas
<1>5. /\ Alike(P, Q) /\ Q.areas = as /\ Q.holding_memory = P.holding_memory
      /\ Q.memory_used = P.memory_used
  BY <1>1, SpaceOnly
<1> HIDE DEF Q
<1>6. OneProcess(p, Q)
  BY <1>1, <1>2, <1>4, <1>5 DEF OneProcess, P
<1>7. HoldingsInv /\ NumbersInv /\ TlsInv
  BY DEF BooksInv
<1>8. Backed(Q.areas, Q.holding_memory)
  <2>1. Backed(P.areas, P.holding_memory)
    BY <1>7 DEF HoldingsInv, ProcessHolds, Live, P
  <2>2. Backed(as, P.holding_memory)
    BY <2>1, ShrunkBacked DEF P
  <2> QED
    BY <1>5, <2>2
<1>9. Given(p, Q, {})
  <2>1. Cardinality({}) = 0
    BY FS_EmptySet
  <2>2. LimitMoves(0, 0, 0)
    BY <1>7, LimitStays
  <2>3. Q.memory_used = P.memory_used + 0
    BY <1>1, <1>5
  <2> QED
    BY <1>5, <2>1, <2>2, <2>3 DEF Given, P
<1> QED
  BY <1>6, <1>8, <1>9, ProcessStep

(* Pages in their places: of the linear heap the ones that belong there.   *)
Placeable(S, target, size) ==
    \A v \in Pages : IsLinear(v) /\ InSpan(v, target, size) =>
        \A x \in S : Rank(S, x) = v - target => x = v - LINEAR_HEAP_VADDR

LEMMA WithMemoryHolds ==
    ASSUME NEW P \in Process, Space(P), Backed(P.areas, P.holding_memory),
           NEW target \in Pages, NEW size, Usable(target, size), Vacant(P.areas, target, size),
           NEW S \in SUBSET FCRAM, Cardinality(S) = size, S \cap P.holding_memory = {},
           Placeable(S, target, size), NEW state \in Used, NEW perms \in Perms,
           NEW Q, Q = WithMemory(P, target, S, state, perms)
    PROVE  /\ Alike(P, Q) /\ Backed(Q.areas, Q.holding_memory)
           /\ Q.holding_memory = P.holding_memory \cup S
           /\ Q.memory_used = P.memory_used + Cardinality(S)
<1> DEFINE blocks == BlocksOf(S)
           as == MapBlocks(P.areas, target, blocks, state, perms)
           held == P.holding_memory \cup S
           n == P.memory_used + Cardinality(S)
<1>1. Q = Holding(P, as, held, n)
  BY DEF WithMemory, Holding
<1>2. Tiled(P.areas) /\ FreeMerged(P.areas) /\ size \in Nat /\ target \in Nat
  BY DEF Space, Usable
<1>3. target + size <= MAX_ADDRESS
      /\ \A v \in Pages : InSpan(v, target, size) => FreePage(P.areas, v)
  BY <1>2, VacantPages
<1>4. BlocksFit(blocks, size)
  BY BlocksOfFit
<1>5. MappedUpTo(as, P.areas, target, blocks, Len(blocks), state)
  <2> HIDE DEF blocks
  <2> QED
    BY <1>2, <1>3, <1>4, BlocksMapped
<1>6. Seated(as, P.areas, target, S, state)
  <2> HIDE DEF as
  <2> QED
    BY <1>2, <1>5, BlocksSeated
<1> HIDE DEF blocks, as
<1>7. Backed(as, held)
  <2>1. \A v \in Pages : IsLinear(v) /\ InSpan(v, target, Cardinality(S)) =>
            \A x \in S : Rank(S, x) = v - target => x = v - LINEAR_HEAP_VADDR
    BY DEF Placeable
  <2> QED
    BY <1>2, <1>6, <2>1, Grown
<1> HIDE DEF held, n
<1>8. HasMemory(P, Q, as, held, n)
  BY <1>1, HoldingFields
<1> QED
  BY <1>7, <1>8 DEF held, n, HasMemory

LEMMA HeapPlaceable ==
    ASSUME NEW S, NEW target \in Nat, NEW size \in Nat, target + size <= HEAP_VADDR_END
    PROVE  Placeable(S, target, size)
BY Layout, PageNumber DEF Placeable, IsLinear, InSpan

LEMMA RowPlaceable ==
    ASSUME NEW f \in Nat, NEW size \in Nat
    PROVE  Placeable(Span(f, size), LINEAR_HEAP_VADDR + f, size)
<1> SUFFICES ASSUME NEW v \in Pages, NEW x \in Span(f, size),
                    Rank(Span(f, size), x) = v - (LINEAR_HEAP_VADDR + f)
             PROVE  x = v - LINEAR_HEAP_VADDR
  BY DEF Placeable
<1>1. Rank(Span(f, size), x) = x - f
  BY RankInRow
<1>2. x \in Int /\ v \in Int /\ LINEAR_HEAP_VADDR \in Int
  BY Layout, PageNumber DEF Span
<1> QED
  BY <1>1, <1>2

LEMMA LiveBooks ==
    ASSUME MemoryInv, HoldingsInv, NEW p \in Processes, Exists(p)
    PROVE  /\ process[p] \in Process /\ Space(process[p])
           /\ Backed(process[p].areas, process[p].holding_memory)
           /\ process[p].holding_memory \subseteq APPLICATION
           /\ process[p].holding_memory \cap free_blocks = {}
<1>1. p \in Live /\ Parted
  BY DEF Live, HoldingsInv
<1>2. OfProcess(p) \cap free_blocks = {} /\ process[p].holding_memory \subseteq OfProcess(p)
  BY <1>1, HeldApart DEF OfProcess
<1> QED
  BY <1>1, <1>2, LiveProcess DEF HoldingsInv, ProcessHolds

LEMMA AllocateStep ==
    ASSUME MemoryInv, BooksInv, NEW p \in Processes, Exists(p), NEW target \in Pages, NEW size \in Nat,
           Usable(target, size), Vacant(process[p].areas, target, size),
           NEW S, S \subseteq free_blocks \cap APPLICATION, Cardinality(S) = size,
           Placeable(S, target, size), NEW state \in Used, NEW perms \in Perms,
           process' = [process EXCEPT ![p] = WithMemory(@, target, S, state, perms)], Taken(S),
           limit' = [limit EXCEPT !.Commit = @ + size], UNCHANGED <<thread, shared_memory>>
    PROVE  BooksInv'
<1> DEFINE P == process[p]
           Q == WithMemory(P, target, S, state, perms)
<1>1. HoldingsInv /\ NumbersInv
  BY DEF BooksInv
<1>2. /\ P \in Process /\ Space(P) /\ Backed(P.areas, P.holding_memory)
      /\ P.holding_memory \cap free_blocks = {}
  BY <1>1, LiveBooks
<1>3. S \in SUBSET FCRAM /\ S \cap P.holding_memory = {}
  BY <1>2, RegionsApart
<1>4. process' = [process EXCEPT ![p] = Q] /\ Vacant(P.areas, target, size)
  OBVIOUS
<1> HIDE DEF P
<1>5. Q \in Process
  BY <1>2, <1>3, <1>4, WithMemoryKept
<1>6. /\ Alike(P, Q) /\ Backed(Q.areas, Q.holding_memory)
      /\ Q.holding_memory = P.holding_memory \cup S
      /\ Q.memory_used = P.memory_used + Cardinality(S)
  BY <1>2, <1>3, <1>4, WithMemoryHolds
<1> HIDE DEF Q
<1>7. OneProcess(p, Q)
  BY <1>2, <1>4, <1>5, <1>6 DEF OneProcess, P
<1>8. free_blocks' = free_blocks \ S /\ UNCHANGED failed
  BY DEF Taken
<1>9. LimitMoves(size, 0, 0)
  <2>1. size \in Int /\ limit' = [limit EXCEPT !.Commit = @ + size]
    OBVIOUS
  <2> QED
    BY <1>1, <2>1, LimitFieldMoves
<1>10. Given(p, Q, S)
  BY <1>6, <1>8, <1>9 DEF Given, P
<1> QED
  BY <1>6, <1>7, <1>8, <1>10, ProcessStep

LEMMA HeapAllocateBooks ==
    ASSUME MemoryInv, BooksInv, NEW p \in Processes, NEW size \in Sizes, NEW target \in Heap(size),
           NEW perms \in Permissions, HeapAllocate(p, target, size, perms)
    PROVE  BooksInv'
<1> DEFINE A == free_blocks \cap APPLICATION
           S == HighestPages(A, size)
<1>1. /\ Exists(p) /\ Vacant(process[p].areas, target, size) /\ Cardinality(A) >= size
      /\ process' = [process EXCEPT ![p] = WithMemory(@, target, S, "Private", perms)]
      /\ Taken(S) /\ limit' = [limit EXCEPT !.Commit = @ + size]
      /\ UNCHANGED <<thread, shared_memory>>
  BY DEF HeapAllocate, Running
<1>2. size \in Nat /\ target \in Nat /\ target + size <= HEAP_VADDR_END
      /\ Usable(target, size) /\ target \in Pages
  BY CallSizes, HeapUsable
<1>3. A \in SUBSET Nat /\ IsFiniteSet(A) /\ Cardinality(A) \in Nat
  <2>1. A \in SUBSET FCRAM
    BY RegionsApart
  <2>2. FCRAM \in SUBSET Nat
    BY Numbers
  <2> QED
    BY <2>1, <2>2, FcramFinite
<1> HIDE DEF A
<1>4. S \in SUBSET A /\ Cardinality(S) = size
  <2>1. size <= Cardinality(A)
    BY <1>1, <1>2, <1>3
  <2> QED
    BY <1>2, <1>3, <2>1, HighestExist
<1> HIDE DEF S
<1>5. "Private" \in Used /\ perms \in Perms
  BY PermissionsOf DEF Used
<1>6. Placeable(S, target, size)
  BY <1>2, HeapPlaceable
<1> QED
  BY <1>1, <1>2, <1>4, <1>5, <1>6, AllocateStep DEF A

LEMMA LinearAllocateBooks ==
    ASSUME MemoryInv, BooksInv, NEW p \in Processes, NEW size \in Sizes,
           LinearAllocate(p, size, "ReadWrite")
    PROVE  BooksInv'
<1> DEFINE A == free_blocks \cap APPLICATION
           f == Lowest(Rows(A, size))
           target == LINEAR_HEAP_VADDR + f
           P == process[p]
           S == Span(f, size)
<1>1. /\ Exists(p) /\ Rows(A, size) # {} /\ UNCHANGED <<thread, shared_memory>>
      /\ limit' = [limit EXCEPT !.Commit = @ + size]
      /\ Vacant(P.areas, target, size) =>
            /\ process' = [process EXCEPT ![p] = WithMemory(@, target, S, "Continuous", "ReadWrite")]
            /\ Taken(S)
  BY DEF LinearAllocate, Running
<1>2. /\ P \in Process /\ Space(P) /\ Backed(P.areas, P.holding_memory)
      /\ P.holding_memory \cap free_blocks = {}
  BY <1>1, LiveBooks DEF BooksInv
<1>3. size \in Nat /\ 1 <= size
  BY CallSizes
<1>4. A \in SUBSET Nat
  <2>1. A \in SUBSET FCRAM
    BY RegionsApart
  <2>2. FCRAM \in SUBSET Nat
    BY Numbers
  <2> QED
    BY <2>1, <2>2
<1> HIDE DEF P
<1>5. f \in Nat /\ S \in SUBSET A
  <2>1. Rows(A, size) \in SUBSET A
    BY DEF Rows
  <2> HIDE DEF A
  <2>2. f \in Rows(A, size)
    BY <1>1, <1>4, <2>1, LowestIn
  <2> HIDE DEF f
  <2> QED
    BY <1>4, <2>1, <2>2 DEF Rows
<1> HIDE DEF f
<1>6. f + size <= APPLICATION_PAGES
  <2>1. f + size - 1 \in S
    BY <1>3, <1>5 DEF Span
  <2>2. f + size - 1 \in APPLICATION
    BY <1>5, <2>1
  <2> QED
    BY <1>3, <1>5, <2>2, Layout DEF APPLICATION
<1>7. Usable(target, size) /\ target \in Pages /\ target \in Nat
  <2>1. f + size <= Frames
    BY <1>3, <1>5, <1>6, Layout, Numbers
  <2> QED
    BY <1>3, <1>5, <2>1, LinearUsable DEF Usable
<1>8. Cardinality(S) = size /\ Placeable(S, target, size)
  <2>1. Cardinality(S) = size
    BY <1>3, <1>5, FS_Interval DEF Span
  <2>2. Placeable(S, target, size)
    BY <1>3, <1>5, RowPlaceable
  <2> QED
    BY <2>1, <2>2
<1>9. \A v \in Pages : InSpan(v, target, size) => IsLinear(v) /\ v - LINEAR_HEAP_VADDR \in S
  <2> SUFFICES ASSUME NEW v \in Pages, InSpan(v, target, size)
               PROVE  IsLinear(v) /\ v - LINEAR_HEAP_VADDR \in S
    OBVIOUS
  <2>1. v \in Nat /\ LINEAR_HEAP_VADDR \in Nat /\ APPLICATION_PAGES \in Nat
    BY PageNumber, Layout
  <2> QED
    BY <1>3, <1>5, <1>6, <2>1 DEF IsLinear, InSpan, Span
<1> HIDE DEF S, target
<1>10. \A v \in Pages : InSpan(v, target, size) => FreePage(P.areas, v)
  <2> SUFFICES ASSUME NEW v \in Pages, InSpan(v, target, size), ~FreePage(P.areas, v)
               PROVE  FALSE
    OBVIOUS
  <2>1. IsLinear(v) /\ v - LINEAR_HEAP_VADDR \in free_blocks
    BY <1>5, <1>9
  <2>2. OwnPage(P.areas, v)
    BY <2>1 DEF OwnPage
  <2>3. At(P.areas, v).backing = v - LINEAR_HEAP_VADDR
    BY <1>2, <2>1, <2>2 DEF Backed, InPlace
  <2>4. At(P.areas, v).backing \in P.holding_memory
    BY <1>2, <2>2 DEF Backed, InMemory
  <2> QED
    BY <1>2, <2>1, <2>3, <2>4
<1>11. Vacant(P.areas, target, size)
  <2>1. Tiled(P.areas) /\ FreeMerged(P.areas) /\ target + size <= MAX_ADDRESS
    BY <1>2, <1>7 DEF Space, Usable
  <2> QED
    BY <1>3, <1>7, <1>10, <2>1, FreeVacant
<1>12. "Continuous" \in Used /\ "ReadWrite" \in Perms
  BY DEF Used, Perms
<1> QED
  BY <1>1, <1>3, <1>5, <1>7, <1>8, <1>11, <1>12, AllocateStep DEF P

LEMMA LimitFalls ==
    ASSUME NumbersInv, NEW k \in Int
    PROVE  /\ limit' = [limit EXCEPT !.Commit = @ - k] => LimitMoves(0 - k, 0, 0)
           /\ limit' = [limit EXCEPT !.Thread = @ - k] => LimitMoves(0, 0 - k, 0)
           /\ limit' = [limit EXCEPT !.SharedMemory = @ - k] => LimitMoves(0, 0, 0 - k)
<1>1. limit.Commit \in Int /\ limit.Thread \in Int /\ limit.SharedMemory \in Int
  BY DEF NumbersInv
<1>2. /\ limit.Commit - k = limit.Commit + (0 - k) /\ limit.Thread - k = limit.Thread + (0 - k)
      /\ limit.SharedMemory - k = limit.SharedMemory + (0 - k) /\ 0 - k \in Int
  BY <1>1
<1>3. limit' = [limit EXCEPT !.Commit = @ - k] => LimitMoves(0 - k, 0, 0)
  <2>1. [limit EXCEPT !.Commit = @ - k] = [limit EXCEPT !.Commit = @ + (0 - k)]
    BY <1>2
  <2> QED
    BY <1>2, <2>1, LimitFieldMoves
<1>4. limit' = [limit EXCEPT !.Thread = @ - k] => LimitMoves(0, 0 - k, 0)
  <2>1. [limit EXCEPT !.Thread = @ - k] = [limit EXCEPT !.Thread = @ + (0 - k)]
    BY <1>2
  <2> QED
    BY <1>2, <2>1, LimitFieldMoves
<1>5. limit' = [limit EXCEPT !.SharedMemory = @ - k] => LimitMoves(0, 0, 0 - k)
  <2>1. [limit EXCEPT !.SharedMemory = @ - k] = [limit EXCEPT !.SharedMemory = @ + (0 - k)]
    BY <1>2
  <2> QED
    BY <1>2, <2>1, LimitFieldMoves
<1> QED
  BY <1>3, <1>4, <1>5

LEMMA FreeStep ==
    ASSUME MemoryInv, BooksInv, NEW p \in Processes, Exists(p), NEW target \in Nat, NEW size \in Nat,
           1 <= size, target + size <= MAX_ADDRESS, Occupied(process[p].areas, target, size),
           \A v \in Pages : InSpan(v, target, size) => OwnPage(process[p].areas, v),
           NEW S, S = BackingPages(process[p].areas, target, size),
           process' = [process EXCEPT ![p] = WithoutMemory(@, target, size, S)], Free(S),
           limit' = [limit EXCEPT !.Commit = @ - size], UNCHANGED <<thread, shared_memory>>
    PROVE  BooksInv'
<1> DEFINE P == process[p]
           Q == WithoutMemory(P, target, size, S)
           as == UnmapRange(P.areas, target, size)
           held == P.holding_memory \ S
           n == P.memory_used - size
<1>1. HoldingsInv /\ NumbersInv /\ failed = FALSE
  BY DEF BooksInv
<1>2. /\ P \in Process /\ Space(P) /\ Backed(P.areas, P.holding_memory)
      /\ P.holding_memory \cap free_blocks = {}
  BY <1>1, LiveBooks
<1>3. /\ process' = [process EXCEPT ![p] = Q] /\ Occupied(P.areas, target, size)
      /\ \A v \in Pages : InSpan(v, target, size) => OwnPage(P.areas, v)
      /\ S = BackingPages(P.areas, target, size)
  OBVIOUS
<1> HIDE DEF P
<1>4. Q \in Process
  BY <1>2, <1>3, WithoutMemoryKept
<1>5. Q = Holding(P, as, held, n)
  BY DEF WithoutMemory, Holding
<1>6. Rewritten(as, P.areas, target, size, "Free")
  <2>1. Tiled(P.areas) /\ FreeMerged(P.areas)
    BY <1>2 DEF Space
  <2>2. \A v \in Pages : InSpan(v, target, size) => ~FreePage(P.areas, v)
    BY <1>3, <2>1, OccupiedPages
  <2>3. as = Walk(P.areas, target, size, "None", "Free") /\ "None" \in Perms
    BY DEF UnmapRange, Perms
  <2> HIDE DEF as
  <2> QED
    BY <2>1, <2>2, <2>3, WalkPages
<1> HIDE DEF as
<1>7. Backed(as, held) /\ S \in SUBSET P.holding_memory /\ Cardinality(S) = size
  <2> DEFINE M == P.holding_memory
             bs == P.areas
  <2>1. /\ Backed(bs, M) /\ Rewritten(as, bs, target, size, "Free")
        /\ S = BackingPages(bs, target, size)
        /\ \A v \in Pages : InSpan(v, target, size) => OwnPage(bs, v)
    BY <1>2, <1>3, <1>6
  <2> HIDE DEF M, bs
  <2>2. Backed(as, M \ S) /\ S \in SUBSET M /\ Cardinality(S) = size
    BY <2>1, Freed
  <2> QED
    BY <2>2 DEF M
<1> HIDE DEF held, n, Q
<1>8. HasMemory(P, Q, as, held, n)
  BY <1>2, <1>5, HoldingFields
<1>9. OneProcess(p, Q)
  BY <1>2, <1>3, <1>4, <1>8 DEF OneProcess, HasMemory, P
<1>10. free_blocks' = free_blocks \cup S /\ UNCHANGED failed
  BY <1>1, <1>2, <1>7 DEF Free
<1>11. LimitMoves(0 - size, 0, 0)
  <2>1. size \in Int /\ limit' = [limit EXCEPT !.Commit = @ - size]
    OBVIOUS
  <2> QED
    BY <1>1, <2>1, LimitFalls
<1>12. TakenBack(p, Q, S)
  BY <1>7, <1>8, <1>10, <1>11 DEF TakenBack, HasMemory, P, held, n
<1>13. Backed(Q.areas, Q.holding_memory)
  BY <1>7, <1>8 DEF HasMemory
<1> QED
  BY <1>9, <1>10, <1>12, <1>13, ProcessStep

LEMMA HeapFreeBooks ==
    ASSUME "frees_lent" \notin Misuse, MemoryInv, BooksInv, NEW p \in Processes, NEW size \in Sizes,
           NEW target \in Heap(size), HeapFree(p, target, size)
    PROVE  BooksInv'
<1> DEFINE as == process[p].areas
           S == BackingPages(as, target, size)
<1>1. /\ Exists(p) /\ Occupied(as, target, size) /\ Free(S)
      /\ UNCHANGED <<thread, shared_memory>> /\ limit' = [limit EXCEPT !.Commit = @ - size]
      /\ process' = [process EXCEPT ![p] = WithoutMemory(@, target, size, S)]
      /\ \A v \in Span(target, size) : At(as, v).state = "Private"
  BY DEF HeapFree, Running, InState
<1>2. size \in Nat /\ 1 <= size /\ target \in Nat /\ target + size <= HEAP_VADDR_END
      /\ target + size <= MAX_ADDRESS
  BY CallSizes, HeapUsable DEF Usable
<1> HIDE DEF as
<1>3. \A v \in Pages : InSpan(v, target, size) => OwnPage(as, v)
  <2> SUFFICES ASSUME NEW v \in Pages, InSpan(v, target, size)
               PROVE  OwnPage(as, v)
    OBVIOUS
  <2>1. v \in Span(target, size) /\ v < HEAP_VADDR_END
    BY <1>2, PageNumber, Layout DEF InSpan, Span
  <2> QED
    BY <1>1, <2>1 DEF OwnPage, Own
<1> HIDE DEF S
<1>4. S = BackingPages(as, target, size)
  BY DEF S
<1> QED
  BY <1>1, <1>2, <1>3, <1>4, FreeStep DEF as

LEMMA LinearFreeBooks ==
    ASSUME "frees_lent" \notin Misuse, MemoryInv, BooksInv, NEW p \in Processes, NEW size \in Sizes,
           NEW target \in LinearHeap(size), LinearFree(p, target, size)
    PROVE  BooksInv'
<1> DEFINE f == target - LINEAR_HEAP_VADDR
           as == process[p].areas
           S == Span(f, size)
<1>1. /\ Exists(p) /\ Occupied(as, target, size) /\ Free(S)
      /\ UNCHANGED <<thread, shared_memory>> /\ limit' = [limit EXCEPT !.Commit = @ - size]
      /\ process' = [process EXCEPT ![p] = WithoutMemory(@, target, size, S)]
  BY DEF LinearFree, Running
<1>2. /\ size \in Nat /\ 1 <= size /\ f \in Nat /\ target = LINEAR_HEAP_VADDR + f
      /\ f + size <= APPLICATION_PAGES
  BY CallSizes, Layout DEF LinearHeap, APPLICATION
<1> HIDE DEF f, as
<1>3. target \in Nat /\ target + size <= MAX_ADDRESS
  <2>1. f + size <= Frames
    BY <1>2, Layout, Numbers
  <2> QED
    BY <1>2, <2>1, LinearUsable DEF Usable
<1>4. Tiled(as) /\ Backed(as, process[p].holding_memory)
  BY <1>1, LiveBooks DEF BooksInv, Space, as
<1>5. \A v \in Pages : InSpan(v, target, size) => IsLinear(v) /\ OwnPage(as, v)
  <2> SUFFICES ASSUME NEW v \in Pages, InSpan(v, target, size)
               PROVE  IsLinear(v) /\ OwnPage(as, v)
    OBVIOUS
  <2>1. IsLinear(v)
    BY <1>2, PageNumber, Layout DEF InSpan, IsLinear
  <2>2. ~FreePage(as, v)
    BY <1>1, <1>2, <1>3, <1>4, OccupiedPages
  <2> QED
    BY <2>1, <2>2 DEF OwnPage
<1>6. S = BackingPages(as, target, size)
  <2>1. \A v \in Span(target, size) : At(as, v).backing = v - LINEAR_HEAP_VADDR
    <3> SUFFICES ASSUME NEW v \in Span(target, size)
                 PROVE  At(as, v).backing = v - LINEAR_HEAP_VADDR
      OBVIOUS
    <3>1. v \in Pages /\ InSpan(v, target, size)
      BY <1>2, <1>3, Numbers DEF Span, Pages, InSpan
    <3> QED
      BY <1>4, <1>5, <3>1 DEF Backed, InPlace
  <2>2. BackingPages(as, target, size) = {v - LINEAR_HEAP_VADDR : v \in Span(target, size)}
    BY <2>1 DEF BackingPages
  <2>3. \A x : x \in S <=> \E v \in Span(target, size) : x = v - LINEAR_HEAP_VADDR
    <3>1. ASSUME NEW x \in S
          PROVE  \E v \in Span(target, size) : x = v - LINEAR_HEAP_VADDR
      <4>1. x + LINEAR_HEAP_VADDR \in Span(target, size) /\ x = (x + LINEAR_HEAP_VADDR) - LINEAR_HEAP_VADDR
        BY <1>2, Layout DEF Span
      <4> QED
        BY <4>1
    <3>2. ASSUME NEW v \in Span(target, size)
          PROVE  v - LINEAR_HEAP_VADDR \in S
      BY <1>2, Layout DEF Span
    <3> QED
      BY <3>1, <3>2
  <2> HIDE DEF S
  <2> QED
    BY <2>2, <2>3
<1> HIDE DEF S
<1> QED
  BY <1>1, <1>2, <1>3, <1>5, <1>6, FreeStep DEF as

(***************************************************************************)
(* Calls that only change areas.                                           *)
(***************************************************************************)
LEMMA RangeChanged ==
    ASSUME NEW as, Tiled(as), FreeMerged(as), NEW target \in Nat, NEW size \in Nat, 1 <= size,
           target + size <= MAX_ADDRESS, Occupied(as, target, size), NEW perms \in Perms,
           NEW state \in Used \cup {Kept}, NEW r, r = Walk(as, target, size, perms, state),
           state = Kept \/ \A v \in Pages : InSpan(v, target, size) =>
                              v < HEAP_VADDR_END /\ At(as, v).state \in Own
    PROVE  Reused(as, r) /\ Shrunk(r, as)
<1>1. Reused(as, r)
  BY ChangeKept
<1>2. \A v \in Pages : InSpan(v, target, size) => ~FreePage(as, v)
  BY OccupiedPages
<1>3. Rewritten(r, as, target, size, state)
  BY <1>2, WalkPages
<1>4. state # "Free"
  BY DEF Used, Kept
<1>5. Shrunk(r, as)
  BY <1>3, <1>4, ChangeShrinks
<1> QED
  BY <1>1, <1>5

LEMMA RangeUnmapped ==
    ASSUME NEW as, Tiled(as), FreeMerged(as), NEW target \in Nat, NEW size \in Nat, 1 <= size,
           target + size <= MAX_ADDRESS, Occupied(as, target, size),
           NEW r, r = UnmapRange(as, target, size)
    PROVE  KeepsSpace(as, r) /\ Shrunk(r, as)
<1>1. KeepsSpace(as, r)
  BY UnmapKept
<1>2. \A v \in Pages : InSpan(v, target, size) => ~FreePage(as, v)
  BY OccupiedPages
<1>3. Rewritten(r, as, target, size, "Free")
  BY <1>2, WalkPages DEF UnmapRange, Perms
<1>4. Shrunk(r, as)
  BY <1>3, UnmapShrinks
<1> QED
  BY <1>1, <1>4

LEMMA RangeMapped ==
    ASSUME NEW as, Tiled(as), FreeMerged(as), NEW target \in Pages, NEW size, Usable(target, size),
           Vacant(as, target, size), \A v \in Pages : InSpan(v, target, size) => ~IsLinear(v),
           NEW blocks, BlocksFit(blocks, size), NEW state \in Used, state \notin Own,
           NEW perms \in Perms, NEW r, r = MapBlocks(as, target, blocks, state, perms)
    PROVE  KeepsSpace(as, r) /\ Shrunk(r, as)
<1>1. size \in Nat /\ target \in Nat
  BY DEF Usable
<1>2. target + size <= MAX_ADDRESS
      /\ \A v \in Pages : InSpan(v, target, size) => FreePage(as, v)
  BY <1>1, VacantPages
<1>3. KeepsSpace(as, r)
  BY <1>2, BlocksKept
<1>4. MappedUpTo(r, as, target, blocks, Len(blocks), state)
  BY <1>1, <1>2, BlocksMapped
<1>5. Shrunk(r, as)
  BY <1>1, <1>4, MapShrinks
<1> QED
  BY <1>3, <1>5

(* The pages of a range that is in one state throughout.                   *)
LEMMA StateOfRange ==
    ASSUME NEW as, Tiled(as), NEW target \in Nat, NEW size \in Nat, NEW state, NEW perms,
           MayChangeState(as, target, size, state, perms)
    PROVE  \A v \in Pages : InSpan(v, target, size) => At(as, v).state = state
<1> SUFFICES ASSUME NEW v \in Pages, InSpan(v, target, size)
             PROVE  At(as, v).state = state
  OBVIOUS
<1>1. PICK a \in as : Holds(a, v)
  BY TiledCover
<1>2. a \in Area /\ a.base \in Nat /\ a.size \in Nat /\ v \in Nat
  BY <1>1, TiledAreas, AreaFields, PageNumber
<1>3. v \in Span(a.base, a.size) /\ v \in Span(target, size)
  BY <1>1, <1>2 DEF Holds, InSpan, Span
<1>4. a \in InRange(as, target, size)
  BY <1>1, <1>3 DEF InRange
<1>5. a.state = state
  BY <1>4 DEF MayChangeState
<1>6. Page(as, v) = PageOf(a, v)
  BY <1>1, PageIs
<1>7. At(as, v).state = Page(as, v).state
  BY AtPage
<1>8. PageOf(a, v).state = a.state
  BY DEF PageOf
<1> QED
  BY <1>5, <1>6, <1>7, <1>8

LEMMA ProtectBooks ==
    ASSUME MemoryInv, BooksInv, NEW p \in Processes, NEW size \in Sizes, NEW target \in Heap(size),
           NEW perms \in Permissions, Protect(p, target, size, perms)
    PROVE  BooksInv'
<1> DEFINE as == process[p].areas
           r == ReprotectRange(as, target, size, perms)
<1>1. /\ Exists(p) /\ Occupied(as, target, size) /\ process' = [process EXCEPT ![p].areas = r]
      /\ UNCHANGED <<free_blocks, limit, thread, shared_memory, failed>>
  BY DEF Protect, Running
<1>2. Tiled(as) /\ FreeMerged(as)
  BY <1>1, LiveProcess
<1>3. size \in Nat /\ 1 <= size /\ target \in Nat /\ target + size <= MAX_ADDRESS
  BY CallSizes, HeapUsable DEF Usable
<1>4. r = Walk(as, target, size, perms, Kept)
  BY DEF ReprotectRange
<1>5. perms \in Perms /\ Kept \in Used \cup {Kept}
  BY PermissionsOf
<1> HIDE DEF as, r
<1>6. KeepsSpace(as, r) /\ Shrunk(r, as)
  <2>1. Reused(as, r) /\ Shrunk(r, as)
    BY <1>1, <1>2, <1>3, <1>4, <1>5, RangeChanged
  <2> QED
    BY <2>1 DEF Reused
<1> QED
  BY <1>1, <1>6, AreasStep DEF as, r

LEMMA UnmapBooks ==
    ASSUME MemoryInv, BooksInv, NEW p \in Processes, NEW size \in Sizes,
           NEW source \in Heap(size), NEW target \in Targets(size),
           Unmap(p, target, source, size, "ReadWrite")
    PROVE  BooksInv'
<1> DEFINE as == process[p].areas
           unmapped == UnmapRange(as, target, size)
           may == MayChangeState(unmapped, source, size, "Aliased", "None")
           r == IF may THEN ChangeMemoryState(unmapped, source, size, "Private", "ReadWrite")
                ELSE unmapped
<1>1. /\ Exists(p) /\ Occupied(as, target, size) /\ process' = [process EXCEPT ![p].areas = r]
      /\ UNCHANGED <<free_blocks, limit, thread, shared_memory, failed>>
  BY DEF Unmap, Running
<1>2. Tiled(as) /\ FreeMerged(as)
  BY <1>1, LiveProcess
<1>3. /\ size \in Nat /\ 1 <= size /\ source \in Nat /\ source + size <= MAX_ADDRESS
      /\ source + size <= HEAP_VADDR_END
  BY CallSizes, HeapUsable DEF Usable
<1>4. target \in Nat /\ target + size <= MAX_ADDRESS
  BY TargetUsable DEF Usable
<1> HIDE DEF as
<1>5. KeepsSpace(as, unmapped) /\ Shrunk(unmapped, as)
  BY <1>1, <1>2, <1>3, <1>4, RangeUnmapped
<1>6. Tiled(unmapped) /\ FreeMerged(unmapped)
  BY <1>5 DEF KeepsSpace
<1> HIDE DEF unmapped
<1>7. KeepsSpace(as, r) /\ Shrunk(r, as)
  <2>1. CASE may
    <3>1. r = Walk(unmapped, source, size, "ReadWrite", "Private")
      BY <2>1 DEF ChangeMemoryState
    <3>2. Occupied(unmapped, source, size)
      BY <2>1, MayChangeOccupied
    <3>3. "ReadWrite" \in Perms /\ "Private" \in Used \cup {Kept}
      BY DEF Perms, Used
    <3>4. \A v \in Pages : InSpan(v, source, size) =>
              v < HEAP_VADDR_END /\ At(unmapped, v).state \in Own
      <4>1. \A v \in Pages : InSpan(v, source, size) => At(unmapped, v).state = "Aliased"
        BY <1>3, <1>6, <2>1, StateOfRange
      <4>2. \A v \in Pages : InSpan(v, source, size) => v < HEAP_VADDR_END
        BY <1>3, PageNumber, Layout DEF InSpan
      <4> QED
        BY <4>1, <4>2 DEF Own
    <3> HIDE DEF r, may
    <3>5. Reused(unmapped, r) /\ Shrunk(r, unmapped)
      BY <1>3, <1>6, <3>1, <3>2, <3>3, <3>4, RangeChanged
    <3> QED
      BY <1>5, <3>5, KeepsTwice, ShrunkTwice DEF Reused
  <2>2. CASE ~may
    BY <1>5, <2>2
  <2> QED
    BY <2>1, <2>2
<1> HIDE DEF r
<1> QED
  BY <1>1, <1>7, AreasStep DEF as

LEMMA MapBooks ==
    ASSUME "maps_anywhere" \notin Misuse, MemoryInv, BooksInv, NEW p \in Processes, NEW size \in Sizes,
           NEW source \in Heap(size), NEW target \in Targets(size),
           Map(p, target, source, size, "ReadWrite")
    PROVE  BooksInv'
<1> DEFINE as == process[p].areas
           marked == ChangeMemoryState(as, source, size, "Aliased", "ReadWrite")
           blocks == BackingBlocks(marked, source, size)
           r == MapBlocks(marked, target, blocks, "Alias", "ReadWrite")
<1>1. /\ Exists(p) /\ Vacant(as, target, size) /\ Disjoint(target, source, size)
      /\ MayChangeState(as, source, size, "Private", "ReadWrite")
      /\ process' = [process EXCEPT ![p].areas = r]
      /\ UNCHANGED <<free_blocks, limit, thread, shared_memory, failed>>
  BY DEF Map, Running
<1>2. Tiled(as) /\ FreeMerged(as)
  BY <1>1, LiveProcess
<1>3. /\ size \in Nat /\ 1 <= size /\ source \in Nat /\ source + size <= MAX_ADDRESS
      /\ source + size <= HEAP_VADDR_END
  BY CallSizes, HeapUsable DEF Usable
<1>4. /\ Usable(target, size) /\ target \in Pages /\ target \in Nat
      /\ target + size <= HEAP_VADDR_END
  <2>1. Targets(size) = Heap(size)
    BY DEF Targets
  <2> QED
    BY <2>1, CallSizes, TargetUsable
<1>5. Occupied(as, source, size)
  BY <1>1, MayChangeOccupied
<1> HIDE DEF as
<1>6. Reused(as, marked) /\ Shrunk(marked, as)
  <2>1. marked = Walk(as, source, size, "ReadWrite", "Aliased")
    BY DEF ChangeMemoryState
  <2>2. "ReadWrite" \in Perms /\ "Aliased" \in Used \cup {Kept}
    BY DEF Perms, Used
  <2>3. \A v \in Pages : InSpan(v, source, size) => v < HEAP_VADDR_END /\ At(as, v).state \in Own
    <3>1. \A v \in Pages : InSpan(v, source, size) => At(as, v).state = "Private"
      BY <1>1, <1>2, <1>3, StateOfRange
    <3>2. \A v \in Pages : InSpan(v, source, size) => v < HEAP_VADDR_END
      BY <1>3, PageNumber, Layout DEF InSpan
    <3> QED
      BY <3>1, <3>2 DEF Own
  <2> HIDE DEF marked
  <2> QED
    BY <1>2, <1>3, <1>5, <2>1, <2>2, <2>3, RangeChanged
<1>7. KeepsSpace(as, marked) /\ \A v \in Pages : FreePage(marked, v) <=> FreePage(as, v)
  BY <1>6 DEF Reused
<1>8. Tiled(marked) /\ FreeMerged(marked)
  BY <1>7 DEF KeepsSpace
<1> HIDE DEF marked
<1>9. BlocksFit(blocks, size)
  <2>1. \A v \in Pages : InSpan(v, source, size) => ~FreePage(marked, v)
    BY <1>2, <1>3, <1>5, <1>7, OccupiedPages
  <2> QED
    BY <1>3, <1>8, <2>1, BackingBlocksFit
<1>10. Vacant(marked, target, size)
  <2>1. /\ target + size <= MAX_ADDRESS
        /\ \A v \in Pages : InSpan(v, target, size) => FreePage(as, v)
    BY <1>1, <1>2, <1>3, <1>4, VacantPages
  <2>2. \A v \in Pages : InSpan(v, target, size) => FreePage(marked, v)
    BY <1>7, <2>1
  <2> QED
    BY <1>3, <1>4, <1>8, <2>1, <2>2, FreeVacant
<1>11. KeepsSpace(marked, r) /\ Shrunk(r, marked)
  <2>1. "ReadWrite" \in Perms /\ "Alias" \in Used /\ "Alias" \notin Own
    BY DEF Perms, Used, Own
  <2>2. \A v \in Pages : InSpan(v, target, size) => ~IsLinear(v)
    BY <1>3, <1>4, PageNumber, Layout DEF InSpan, IsLinear
  <2> HIDE DEF blocks
  <2> QED
    BY <1>4, <1>8, <1>9, <1>10, <2>1, <2>2, RangeMapped
<1> HIDE DEF r
<1>12. KeepsSpace(as, r) /\ Shrunk(r, as)
  BY <1>6, <1>7, <1>11, KeepsTwice, ShrunkTwice
<1> QED
  BY <1>1, <1>12, AreasStep DEF as

(* An automatic block goes where no linear memory of a process goes: its   *)
(* pages are those of the base region.                                     *)
LEMMA MapBlockBooks ==
    ASSUME MemoryInv, BooksInv, NEW p \in Processes, NEW s \in Blocks, NEW address \in Heap(1) \cup {0},
           MapBlock(p, s, address, "ReadWrite")
    PROVE  BooksInv'
<1> DEFINE as == process[p].areas
           b == shared_memory[s]
           target == IF b.base_address = 0 /\ address = 0
                     THEN LINEAR_HEAP_VADDR + b.backing_blocks[1].backing ELSE address
           r == MapBlocks(as, target, b.backing_blocks, "Shared", "ReadWrite")
<1>1. /\ Exists(p) /\ b # NoBlock /\ target # 0 /\ Vacant(as, target, b.size)
      /\ address # 0 => address + b.size < SHARED_MEMORY_VADDR_END
      /\ process' = [process EXCEPT ![p].areas = r]
      /\ UNCHANGED <<free_blocks, limit, thread, shared_memory, failed>>
  BY DEF MapBlock, Running, Automatic
<1>2. Tiled(as) /\ FreeMerged(as)
  BY <1>1, LiveProcess
<1>3. BlockFits(b) /\ BlockHolds(b)
  BY <1>1 DEF MemoryInv, LiveBlocks, BlockSound, BooksInv, HoldingsInv
<1>4. b.size \in Nat /\ 1 <= b.size /\ BlocksFit(b.backing_blocks, b.size)
  BY <1>3 DEF BlockFits, SharedBlock
<1>5. address \in Nat
  <2>1. \A v \in Heap(1) : v \in Nat
    BY Layout DEF Heap, HEAP_VADDR
  <2> QED
    BY <2>1
<1> HIDE DEF as
<1>6. /\ Usable(target, b.size) /\ target \in Pages
      /\ \A v \in Pages : InSpan(v, target, b.size) => ~IsLinear(v)
  <2>1. CASE b.base_address = 0 /\ address = 0
    <3> DEFINE f == b.backing_blocks[1].backing
    <3>1. /\ f \in Nat /\ f + b.size <= Frames /\ target = LINEAR_HEAP_VADDR + f
          /\ f >= APPLICATION_PAGES
      BY <1>3, <2>1 DEF BlockFits, BlockHolds, BASE
    <3> HIDE DEF f, target, b
    <3>2. \A v \in Pages : InSpan(v, target, b.size) => ~IsLinear(v)
      BY <3>1, PageNumber, Layout DEF InSpan, IsLinear
    <3> QED
      BY <1>4, <3>1, <3>2, LinearUsable
  <2>2. CASE ~(b.base_address = 0 /\ address = 0)
    <3>1. target = address /\ address # 0
      BY <1>1, <2>2
    <3>2. address + b.size < SHARED_MEMORY_VADDR_END
      BY <1>1, <3>1
    <3> HIDE DEF target, b
    <3>3. address + b.size <= HEAP_VADDR_END
      BY <1>4, <1>5, <3>2, Layout
    <3>4. \A v \in Pages : InSpan(v, target, b.size) => ~IsLinear(v)
      BY <1>4, <1>5, <3>1, <3>3, PageNumber, Layout DEF InSpan, IsLinear
    <3> QED
      BY <1>4, <1>5, <3>1, <3>3, <3>4, HeapUsable
  <2> QED
    BY <2>1, <2>2
<1> HIDE DEF target, b
<1>7. "Shared" \in Used /\ "Shared" \notin Own /\ "ReadWrite" \in Perms
  BY DEF Used, Own, Perms
<1>8. KeepsSpace(as, r) /\ Shrunk(r, as)
  BY <1>1, <1>2, <1>4, <1>6, <1>7, RangeMapped
<1> HIDE DEF r
<1> QED
  BY <1>1, <1>8, AreasStep DEF as

LEMMA UnmapBlockBooks ==
    ASSUME MemoryInv, BooksInv, NEW p \in Processes, NEW s \in Blocks, NEW address \in Heap(1),
           UnmapBlock(p, s, address)
    PROVE  BooksInv'
<1> DEFINE as == process[p].areas
           size == shared_memory[s].size
           r == UnmapRange(as, address, size)
<1>1. /\ Exists(p) /\ shared_memory[s] # NoBlock /\ Occupied(as, address, size)
      /\ process' = [process EXCEPT ![p].areas = r]
      /\ UNCHANGED <<free_blocks, limit, thread, shared_memory, failed>>
  BY DEF UnmapBlock, Running
<1>2. Tiled(as) /\ FreeMerged(as) /\ FreePage(as, HEAP_VADDR_END)
  BY <1>1, LiveProcess DEF Space
<1>3. size \in Nat /\ 1 <= size
  <2>1. BlockFits(shared_memory[s])
    BY <1>1 DEF MemoryInv, LiveBlocks, BlockSound
  <2> QED
    BY <2>1 DEF BlockFits, SharedBlock
<1>4. address \in Nat /\ address < HEAP_VADDR_END
  BY Layout DEF Heap, HEAP_VADDR
<1> HIDE DEF as, size
<1>5. HEAP_VADDR_END \in Pages /\ HEAP_VADDR_END < MAX_ADDRESS
  BY Layout, Numbers DEF Pages
<1>6. ~InSpan(HEAP_VADDR_END, address, size)
  BY <1>1, <1>2, <1>3, <1>4, <1>5, OccupiedPages
<1>7. address + size <= MAX_ADDRESS
  BY <1>3, <1>4, <1>5, <1>6, Layout, Numbers DEF InSpan
<1>8. KeepsSpace(as, r) /\ Shrunk(r, as)
  BY <1>1, <1>2, <1>3, <1>4, <1>7, RangeUnmapped
<1> HIDE DEF r
<1> QED
  BY <1>1, <1>8, AreasStep DEF as

(***************************************************************************)
(* Calls that change blocks, and of a process what is not its memory.      *)
(***************************************************************************)
Keeps(P, Q) ==
    Alike(P, Q) /\ Q.holding_memory = P.holding_memory /\ Backed(Q.areas, Q.holding_memory)

LEMMA KeptStep ==
    ASSUME MemoryInv, BooksInv, UNCHANGED thread, failed' = FALSE, Live' \subseteq Live,
           \A q \in Live' : Keeps(process[q], process'[q]),
           \A q \in Processes : Running(q) => q \in Live',
           \A s \in LiveBlocks' : BlockHolds(shared_memory'[s]), Parted',
           \A q \in Live' : process'[q].memory_used = Cardinality(Charged(q)'),
           NEW c \in Int, NEW m \in Int, LimitMoves(c, 0, m),
           Cardinality(Committed') = Cardinality(Committed) + c,
           IsFiniteSet(Counted'), Cardinality(Counted') <= Cardinality(Counted) + m
    PROVE  BooksInv'
<1>1. HoldingsInv /\ NumbersInv /\ TlsInv
  BY DEF BooksInv
<1>2. HoldingsInv'
  <2>1. \A q \in Live' : ProcessHolds(process'[q])
    <3> SUFFICES ASSUME NEW q \in Live'
                 PROVE  ProcessHolds(process'[q])
      OBVIOUS
    <3>1. Keeps(process[q], process'[q]) /\ ProcessHolds(process[q])
      BY <1>1 DEF HoldingsInv
    <3> QED
      BY <3>1 DEF Keeps, Alike, ProcessHolds
  <2> QED
    BY <2>1 DEF HoldingsInv
<1>3. NumbersInv'
  <2>1. /\ limit' \in [Counts -> Int] /\ limit'.Commit = limit.Commit + c
        /\ limit'.SharedMemory = limit.SharedMemory + m
    BY DEF LimitMoves
  <2>2. /\ limit.Commit = Cardinality(Committed) /\ limit.SharedMemory \in Int
        /\ limit.SharedMemory >= Cardinality(Counted)
        /\ Cardinality(Counted) \in Nat /\ Cardinality(Counted') \in Nat
    BY <1>1, LimitFields, FS_CardinalityType DEF NumbersInv
  <2>3. limit'.Commit = Cardinality(Committed') /\ limit'.SharedMemory >= Cardinality(Counted')
    BY <2>1, <2>2
  <2> QED
    BY <2>1, <2>3 DEF NumbersInv, Committed, Counts
<1>4. TlsInv'
  <2>1. limit'.Thread = limit.Thread
    <3>1. limit'.Thread = limit.Thread + 0 /\ limit.Thread \in Int
      BY <1>1, LimitFields DEF LimitMoves
    <3> QED
      BY <3>1
  <2>2. \A q \in Live' : /\ q \in Live /\ process'[q].tls_slots = process[q].tls_slots
                         /\ process'[q].status = process[q].status
    BY DEF Keeps, Alike
  <2>3. \A q \in Processes : Running(q) => Running(q)'
    BY <2>2 DEF Running, Live, Exists
  <2> QED
    BY <1>1, <2>1, <2>2, <2>3, TlsStays
<1> QED
  BY <1>2, <1>3, <1>4 DEF BooksInv

LEMMA KeepsSelf ==
    ASSUME HoldingsInv, NEW q \in Live
    PROVE  Keeps(process[q], process[q])
BY DEF HoldingsInv, ProcessHolds, Keeps, Alike

LEMMA CommittedKept ==
    ASSUME Live' = Live, \A q \in Live : Keeps(process[q], process'[q])
    PROVE  Committed' = Committed
<1>1. \A q \in Live : process'[q].holding_memory = process[q].holding_memory
  BY DEF Keeps
<1> QED
  BY <1>1 DEF Committed

(* A single block changes.                                                 *)
LEMMA OneBlock ==
    ASSUME MemoryInv, NEW s \in Blocks, NEW b, shared_memory' = [shared_memory EXCEPT ![s] = b]
    PROVE  /\ shared_memory'[s] = b
           /\ \A u \in Blocks : u # s => /\ shared_memory'[u] = shared_memory[u]
                                         /\ OfBlock(u)' = OfBlock(u)
                                         /\ \A q : Charges(u, q)' <=> Charges(u, q)
           /\ OfBlock(s)' = IF b # NoBlock THEN b.holding_memory ELSE {}
           /\ \A q : Charges(s, q)' <=> b # NoBlock /\ b.base_address = 0 /\ b.owner_process = q
           /\ \A u : u \in LiveBlocks' <=> IF u = s THEN b # NoBlock ELSE u \in LiveBlocks
           /\ \A u : u \in Counted' <=> IF u = s THEN b # NoBlock /\ b.owner_process # NoProcess
                                        ELSE u \in Counted
<1>1. /\ shared_memory'[s] = b
      /\ \A u \in Blocks : u # s => shared_memory'[u] = shared_memory[u]
  BY DEF MemoryInv
<1>2. \A u \in Blocks : u # s => OfBlock(u)' = OfBlock(u) /\ \A q : Charges(u, q)' <=> Charges(u, q)
  BY <1>1 DEF OfBlock, Charges, Automatic
<1>3. OfBlock(s)' = IF b # NoBlock THEN b.holding_memory ELSE {}
  BY <1>1 DEF OfBlock
<1>4. \A q : Charges(s, q)' <=> b # NoBlock /\ b.base_address = 0 /\ b.owner_process = q
  BY <1>1 DEF Charges, Automatic
<1>5. \A u : u \in LiveBlocks' <=> IF u = s THEN b # NoBlock ELSE u \in LiveBlocks
  BY <1>1 DEF LiveBlocks
<1>6. \A u : u \in Counted' <=> IF u = s THEN b # NoBlock /\ b.owner_process # NoProcess
                                ELSE u \in Counted
  BY <1>1 DEF LiveBlocks, Counted
<1> QED
  BY <1>1, <1>2, <1>3, <1>4, <1>5, <1>6

LEMMA CountedChanges ==
    ASSUME NumbersInv, NEW s
    PROVE  /\ s \notin Counted /\ (\A u : u \in Counted' <=> IF u = s THEN TRUE ELSE u \in Counted) =>
                  IsFiniteSet(Counted') /\ Cardinality(Counted') <= Cardinality(Counted) + 1
           /\ s \in Counted /\ (\A u : u \in Counted' <=> IF u = s THEN FALSE ELSE u \in Counted) =>
                  IsFiniteSet(Counted') /\ Cardinality(Counted') <= Cardinality(Counted) + (0 - 1)
           /\ (\A u : u \in Counted' <=> u \in Counted) =>
                  IsFiniteSet(Counted') /\ Cardinality(Counted') <= Cardinality(Counted) + 0
<1>1. IsFiniteSet(Counted) /\ Cardinality(Counted) \in Nat
  BY FS_CardinalityType DEF NumbersInv
<1>2. ASSUME s \notin Counted, \A u : u \in Counted' <=> IF u = s THEN TRUE ELSE u \in Counted
      PROVE  IsFiniteSet(Counted') /\ Cardinality(Counted') <= Cardinality(Counted) + 1
  <2>1. Counted' = Counted \cup {s}
    BY <1>2
  <2>2. IsFiniteSet(Counted') /\ Cardinality(Counted') = Cardinality(Counted) + 1
    BY <1>1, <1>2, <2>1, FS_AddElement
  <2> QED
    BY <1>1, <2>2
<1>3. ASSUME s \in Counted, \A u : u \in Counted' <=> IF u = s THEN FALSE ELSE u \in Counted
      PROVE  IsFiniteSet(Counted') /\ Cardinality(Counted') <= Cardinality(Counted) + (0 - 1)
  <2>1. Counted' = Counted \ {s}
    BY <1>3
  <2>2. IsFiniteSet(Counted') /\ Cardinality(Counted') = Cardinality(Counted) - 1
    BY <1>1, <1>3, <2>1, FS_RemoveElement
  <2> QED
    BY <1>1, <2>2
<1>4. ASSUME \A u : u \in Counted' <=> u \in Counted
      PROVE  IsFiniteSet(Counted') /\ Cardinality(Counted') <= Cardinality(Counted) + 0
  <2>1. Counted' = Counted
    BY <1>4
  <2> QED
    BY <1>1, <2>1
<1> QED
  BY <1>2, <1>3, <1>4

LEMMA KeepsPages ==
    ASSUME Live' = Live, \A q \in Live : Keeps(process[q], process'[q])
    PROVE  \A q \in Processes : OfProcess(q)' = OfProcess(q)
<1> SUFFICES ASSUME NEW q \in Processes
             PROVE  OfProcess(q)' = OfProcess(q)
  OBVIOUS
<1>1. Exists(q)' <=> Exists(q)
  BY DEF Live
<1>2. CASE Exists(q)
  <2>1. Keeps(process[q], process'[q])
    BY <1>2 DEF Live
  <2> QED
    BY <1>1, <1>2, <2>1 DEF Keeps, Alike, OfProcess
<1>3. CASE ~Exists(q)
  BY <1>1, <1>3 DEF OfProcess
<1> QED
  BY <1>2, <1>3

(* A new automatic block: its pages are charged to its owner.              *)
LEMMA ChargedNew ==
    ASSUME MemoryInv, Parted, NEW p \in Live, Live' = Live,
           \A q \in Live : Keeps(process[q], process'[q]), NEW s \in Blocks, shared_memory[s] = NoBlock,
           NEW b, b # NoBlock, shared_memory' = [shared_memory EXCEPT ![s] = b],
           b.base_address = 0, b.owner_process = p, b.holding_memory \subseteq free_blocks
    PROVE  /\ Charged(p)' = Charged(p) \cup b.holding_memory
           /\ Charged(p) \cap b.holding_memory = {}
           /\ \A q \in Live : q # p => Charged(q)' = Charged(q)
<1> DEFINE S == b.holding_memory
<1>1. \A q \in Processes : OfProcess(q)' = OfProcess(q)
  BY KeepsPages
<1>2. /\ \A u \in Blocks : u # s => OfBlock(u)' = OfBlock(u) /\ \A q : Charges(u, q)' <=> Charges(u, q)
      /\ OfBlock(s)' = S /\ \A q : Charges(s, q)' <=> p = q
  BY OneBlock
<1>3. OfBlock(s) = {} /\ \A q : ~Charges(s, q)
  BY DEF OfBlock, Charges
<1> HIDE DEF S
<1>4. /\ \A q \in Live : OfProcess(q) \cap free_blocks = {}
      /\ \A u \in Blocks : OfBlock(u) \cap free_blocks = {}
  BY HeldApart DEF Live
<1>5. \A x : x \in Charged(p)' <=> \/ x \in OfProcess(p)'
                                   \/ \E u \in Blocks : Charges(u, p)' /\ x \in OfBlock(u)'
  BY ChargedNext
<1>6. \A x : x \in Charged(p) <=> \/ x \in OfProcess(p)
                                  \/ \E u \in Blocks : Charges(u, p) /\ x \in OfBlock(u)
  BY ChargedTo
<1>7. OfProcess(p)' = OfProcess(p) /\ Charges(s, p)'
  BY <1>1, <1>2 DEF Live
<1>8. \A x : x \in Charged(p)' <=> x \in Charged(p) \/ x \in S
  <2>1. ASSUME NEW x, x \in Charged(p)'
        PROVE  x \in Charged(p) \/ x \in S
    <3>1. CASE x \in OfProcess(p)'
      BY <1>6, <1>7, <3>1
    <3>2. CASE \E u \in Blocks : Charges(u, p)' /\ x \in OfBlock(u)'
      <4>1. PICK u \in Blocks : Charges(u, p)' /\ x \in OfBlock(u)'
        BY <3>2
      <4> QED
        BY <1>2, <1>6, <4>1
    <3> QED
      BY <1>5, <2>1, <3>1, <3>2
  <2>2. ASSUME NEW x, x \in Charged(p) \/ x \in S
        PROVE  x \in Charged(p)'
    <3>1. CASE x \in S
      BY <1>2, <1>5, <1>7, <3>1
    <3>2. CASE x \in OfProcess(p)
      BY <1>5, <1>7, <3>2
    <3>3. CASE \E u \in Blocks : Charges(u, p) /\ x \in OfBlock(u)
      <4>1. PICK u \in Blocks : Charges(u, p) /\ x \in OfBlock(u)
        BY <3>3
      <4> QED
        BY <1>2, <1>3, <1>5, <4>1
    <3> QED
      BY <1>6, <2>2, <3>1, <3>2, <3>3
  <2> QED
    BY <2>1, <2>2
<1>9. Charged(p) \cap free_blocks = {} /\ S \subseteq free_blocks
  BY <1>4, <1>6 DEF S
<1>10. ASSUME NEW q \in Live, q # p
       PROVE  Charged(q)' = Charged(q)
  <2>1. \A u \in Blocks : Charges(u, q)' <=> Charges(u, q)
    BY <1>2, <1>3, <1>10
  <2>2. \A u \in Blocks : Charges(u, q) => OfBlock(u)' = OfBlock(u)
    BY <1>2, <1>3
  <2> QED
    BY <1>1, <2>1, <2>2, ChargedStays DEF Live
<1>11. Charged(p)' = Charged(p) \cup S /\ Charged(p) \cap S = {}
  BY <1>8, <1>9
<1> QED
  BY <1>10, <1>11 DEF S

LEMMA UsedFields ==
    ASSUME NEW P \in Process, NEW n
    PROVE  HasMemory(P, Using(P, n), P.areas, P.holding_memory, n)
BY DEF Process, Using, Alike, HasMemory

LEMMA HasMemoryKeeps ==
    ASSUME NEW P, NEW Q, NEW as, NEW n, HasMemory(P, Q, as, P.holding_memory, n),
           Backed(as, P.holding_memory)
    PROVE  Keeps(P, Q)
BY DEF HasMemory, Keeps

LEMMA OneKeeps ==
    ASSUME MemoryInv, HoldingsInv, NEW p, NEW Q, OneProcess(p, Q), Keeps(process[p], Q)
    PROVE  /\ p \in Live /\ Live' = Live /\ process'[p] = Q
           /\ \A q \in Live : q # p => process'[q] = process[q]
           /\ \A q \in Live : Keeps(process[q], process'[q])
           /\ \A q \in Processes : Running(q) => q \in Live'
<1>1. /\ p \in Live /\ Live' = Live /\ process'[p] = Q
      /\ \A q \in Live : q # p => process'[q] = process[q]
  BY OneProcessStep DEF Live
<1>2. \A q \in Live : Keeps(process[q], process'[q])
  BY <1>1, KeepsSelf
<1>3. \A q \in Processes : Running(q) => q \in Live
  BY DEF Running, Live
<1> QED
  BY <1>1, <1>2, <1>3

LEMMA OwnerCounted ==
    ASSUME NEW s \in Blocks
    PROVE  /\ shared_memory[s] = NoBlock => s \notin Counted
           /\ shared_memory[s] # NoBlock /\ shared_memory[s].owner_process # NoProcess => s \in Counted
           /\ shared_memory[s] # NoBlock /\ shared_memory[s].owner_process = NoProcess => s \notin Counted
BY DEF Counted, LiveBlocks

LEMMA CreateAutomaticBooks ==
    ASSUME MemoryInv, BooksInv, NEW p \in Processes, NEW s \in Blocks, NEW size \in Sizes,
           CreateAutomatic(p, s, size)
    PROVE  BooksInv'
<1> DEFINE A == Rows(FreeBase, size)
           f == Lowest(A)
           S == Span(f, size)
           b == [owner_process |-> p, base_address |-> 0, size |-> size, holding_memory |-> S,
                 backing_blocks |-> BlocksOf(S)]
           P == process[p]
           Q == [P EXCEPT !.memory_used = P.memory_used + size]
<1>1. /\ Exists(p) /\ A # {} /\ Taken(S) /\ UNCHANGED thread
      /\ shared_memory' = [shared_memory EXCEPT ![s] = b] /\ shared_memory[s] = NoBlock
      /\ process' = [process EXCEPT ![p] = Q] /\ limit' = [limit EXCEPT !.SharedMemory = @ + 1]
  BY DEF CreateAutomatic, Running
<1>2. HoldingsInv /\ NumbersInv /\ Parted /\ failed = FALSE
  BY DEF BooksInv, HoldingsInv
<1>3. size \in Nat /\ 1 <= size
  BY CallSizes
<1>4. FreeBase \in SUBSET FCRAM /\ FreeBase \subseteq free_blocks /\ FreeBase \subseteq BASE
  BY Layout DEF FreeBase
<1>5. f \in Nat /\ S \subseteq FreeBase
  <2>1. A \in SUBSET Nat
    <3>1. FreeBase \in SUBSET Nat
      BY <1>4, Numbers
    <3>2. A \in SUBSET FreeBase
      BY DEF Rows
    <3> QED
      BY <3>1, <3>2
  <2>2. f \in A
    BY <1>1, <2>1, LowestIn
  <2> HIDE DEF f
  <2> QED
    BY <2>1, <2>2 DEF Rows
<1> HIDE DEF A, f
<1>6. S \subseteq free_blocks /\ S \subseteq BASE /\ S \subseteq FCRAM /\ f \in S
      /\ Cardinality(S) = size
  <2>1. Cardinality(S) = size
    BY <1>3, <1>5, FS_Interval DEF Span
  <2>2. f \in S
    BY <1>3, <1>5 DEF Span
  <2> QED
    BY <1>4, <1>5, <2>1, <2>2
<1>7. BlocksOf(S)[1].backing = f
  BY <1>3, <1>5, <1>6, FirstOfRow
<1> HIDE DEF S
<1>8. /\ b.owner_process = p /\ b.base_address = 0 /\ b.holding_memory = S /\ b.size = size
      /\ b.backing_blocks = BlocksOf(S)
  OBVIOUS
<1> HIDE DEF b
<1>9. BlockHolds(b)
  BY <1>6, <1>7, <1>8 DEF BlockHolds
<1>10. P \in Process /\ P.memory_used \in Int /\ Tiled(P.areas) /\ Backed(P.areas, P.holding_memory)
  BY <1>1, <1>2, LiveBooks, ProcessFields DEF Space
<1> HIDE DEF P
<1>11. Q = Using(P, P.memory_used + size)
  BY DEF Using
<1>12. Q \in Process
  BY <1>3, <1>10, <1>11, NewUsed
<1>13. HasMemory(P, Q, P.areas, P.holding_memory, P.memory_used + size)
  BY <1>10, <1>11, UsedFields
<1> HIDE DEF Q
<1>14. Keeps(P, Q) /\ Q.memory_used = P.memory_used + size
  BY <1>10, <1>13, HasMemoryKeeps DEF HasMemory
<1>15. OneProcess(p, Q)
  BY <1>1, <1>10, <1>12, <1>14 DEF OneProcess, Keeps, P
<1>16. /\ p \in Live /\ Live' = Live /\ process'[p] = Q
       /\ \A q \in Live : q # p => process'[q] = process[q]
       /\ \A q \in Live : Keeps(process[q], process'[q])
       /\ \A q \in Processes : Running(q) => q \in Live'
  BY <1>2, <1>14, <1>15, OneKeeps DEF P
<1>17. b # NoBlock
  <2>1. MemoryInv'
    BY CreateAutomaticInv
  <2> SUFFICES ASSUME b = NoBlock
               PROVE  FALSE
    OBVIOUS
  <2>2. BlocksFit(BlocksOf(S), size)
    BY <1>6, BlocksOfFit
  <2>3. b \in SharedBlock
    <3>1. BlocksOf(S) \in Seq(Block)
      BY <2>2 DEF BlocksFit
    <3> QED
      BY <1>3, <1>6, <3>1 DEF SharedBlock, b
  <2> QED
    BY <2>3, NullAssumption
<1>18. /\ Charged(p)' = Charged(p) \cup S /\ Charged(p) \cap S = {}
       /\ \A q \in Live : q # p => Charged(q)' = Charged(q)
  BY <1>1, <1>2, <1>6, <1>8, <1>16, <1>17, ChargedNew
<1>19. \A q \in Live' : process'[q].memory_used = Cardinality(Charged(q)')
  <2>1. Charged(p) \subseteq FCRAM /\ Cardinality(Charged(p)) \in Nat
        /\ P.memory_used = Cardinality(Charged(p))
    BY <1>2, <1>16, ChargedFinite DEF NumbersInv, P
  <2>2. Cardinality(Charged(p)') = Cardinality(Charged(p)) + Cardinality(S)
    BY <1>6, <1>18, <2>1, MorePages
  <2>3. Q.memory_used = Cardinality(Charged(p)')
    BY <1>6, <1>14, <2>1, <2>2
  <2> QED
    BY <1>2, <1>16, <1>18, <2>3 DEF NumbersInv
<1>20. Parted'
  <2>1. \A q \in Processes : OfProcess(q)' = OfProcess(q)
    BY <1>16, KeepsPages
  <2>2. OfBlock(s) = {} /\ OfBlock(s)' = S /\ \A u \in Blocks : u # s => OfBlock(u)' = OfBlock(u)
    BY <1>1, <1>8, <1>17, OneBlock DEF OfBlock
  <2>3. free_blocks' = free_blocks \ S
    BY <1>1 DEF Taken
  <2> QED
    BY <1>2, <1>6, <2>1, <2>2, <2>3, BlockMoves
<1>21. \A u \in LiveBlocks' : BlockHolds(shared_memory'[u])
  <2>1. \A u \in LiveBlocks : BlockHolds(shared_memory[u])
    BY <1>2 DEF HoldingsInv
  <2> QED
    BY <1>1, <1>9, <2>1, OneBlock DEF LiveBlocks
<1>22. IsFiniteSet(Counted') /\ Cardinality(Counted') <= Cardinality(Counted) + 1
  <2>1. p # NoProcess
    BY NullAssumption
  <2>2. \A u : u \in Counted' <=> IF u = s THEN TRUE ELSE u \in Counted
    BY <1>1, <1>8, <1>17, <2>1, OneBlock
  <2>3. s \notin Counted
    BY <1>1, OwnerCounted
  <2> QED
    BY <1>2, <2>2, <2>3, CountedChanges
<1>23. LimitMoves(0, 0, 1) /\ Cardinality(Committed') = Cardinality(Committed) + 0
  <2>1. LimitMoves(0, 0, 1)
    <3>1. 1 \in Int /\ limit' = [limit EXCEPT !.SharedMemory = @ + 1]
      BY <1>1
    <3> QED
      BY <1>2, <3>1, LimitFieldMoves
  <2>2. Committed' = Committed
    BY <1>16, CommittedKept
  <2>3. Cardinality(Committed) \in Int
    BY <1>2, LimitFields
  <2> QED
    BY <2>1, <2>2, <2>3
<1>24. failed' = FALSE
  BY <1>1, <1>2 DEF Taken
<1>25. 0 \in Int /\ 1 \in Int
  OBVIOUS
<1>26. /\ UNCHANGED thread /\ Live' \subseteq Live
       /\ \A q \in Live' : Keeps(process[q], process'[q])
       /\ \A q \in Processes : Running(q) => q \in Live'
  BY <1>1, <1>16
<1> QED
  BY <1>19, <1>20, <1>21, <1>22, <1>23, <1>24, <1>25, <1>26, KeptStep

(* A block of the heap holds nothing of its own.                           *)
LEMMA CreateFromHeapBooks ==
    ASSUME "lends_unready" \notin Misuse, MemoryInv, BooksInv, NEW p \in Processes, NEW s \in Blocks,
           NEW size \in Sizes, NEW address \in Heap(size),
           CreateFromHeap(p, s, address, size, "ReadWrite")
    PROVE  BooksInv'
<1> DEFINE P == process[p]
           lent == ChangeMemoryState(P.areas, address, size, "Locked", "ReadWrite")
           b == [owner_process |-> p, base_address |-> address, size |-> size,
                 holding_memory |-> {}, backing_blocks |-> BackingBlocks(lent, address, size)]
           Q == [P EXCEPT !.areas = lent]
<1>1. /\ Exists(p) /\ MayChangeState(P.areas, address, size, "Private", "ReadWrite")
      /\ UNCHANGED <<free_blocks, thread, failed>> /\ process' = [process EXCEPT ![p] = Q]
      /\ shared_memory' = [shared_memory EXCEPT ![s] = b] /\ shared_memory[s] = NoBlock
      /\ limit' = [limit EXCEPT !.SharedMemory = @ + 1]
  BY DEF CreateFromHeap, Running
<1>2. HoldingsInv /\ NumbersInv /\ Parted /\ failed = FALSE
  BY DEF BooksInv, HoldingsInv
<1>3. size \in Nat /\ 1 <= size /\ address \in Nat /\ 1 <= address
      /\ address + size <= HEAP_VADDR_END /\ address + size <= MAX_ADDRESS
  BY CallSizes, HeapUsable DEF Usable
<1>4. P \in Process /\ P.memory_used \in Int /\ Tiled(P.areas) /\ FreeMerged(P.areas)
      /\ Backed(P.areas, P.holding_memory)
  BY <1>1, <1>2, LiveBooks, ProcessFields DEF Space
<1> HIDE DEF P
<1>5. Reused(P.areas, lent) /\ Shrunk(lent, P.areas) /\ Occupied(P.areas, address, size)
  <2>1. lent = Walk(P.areas, address, size, "ReadWrite", "Locked")
    BY DEF ChangeMemoryState
  <2>2. "ReadWrite" \in Perms /\ "Locked" \in Used \cup {Kept}
    BY DEF Perms, Used
  <2>3. Occupied(P.areas, address, size)
    BY <1>1, MayChangeOccupied
  <2>4. \A v \in Pages : InSpan(v, address, size) => v < HEAP_VADDR_END /\ At(P.areas, v).state \in Own
    <3>1. \A v \in Pages : InSpan(v, address, size) => At(P.areas, v).state = "Private"
      BY <1>1, <1>3, <1>4, StateOfRange
    <3>2. \A v \in Pages : InSpan(v, address, size) => v < HEAP_VADDR_END
      BY <1>3, PageNumber, Layout DEF InSpan
    <3> QED
      BY <3>1, <3>2 DEF Own
  <2> DEFINE as == P.areas
  <2>5. Tiled(as) /\ FreeMerged(as)
    BY <1>4
  <2> HIDE DEF lent, as
  <2> QED
    BY <1>3, <2>1, <2>2, <2>3, <2>4, <2>5, RangeChanged DEF as
<1>6. Tiled(lent) /\ \A v \in Pages : FreePage(lent, v) <=> FreePage(P.areas, v)
  BY <1>5 DEF Reused, KeepsSpace
<1> DEFINE bs == BackingBlocks(lent, address, size)
<1> HIDE DEF lent
<1>7. bs \in Seq(Block)
  <2>1. \A v \in Pages : InSpan(v, address, size) => ~FreePage(lent, v)
    BY <1>3, <1>4, <1>5, <1>6, OccupiedPages
  <2> QED
    BY <1>3, <1>6, <2>1, BackingBlocksFit DEF BlocksFit
<1>8. Q \in Process
  BY <1>4, <1>6, NewAreas
<1>9. HasMemory(P, Q, lent, P.holding_memory, P.memory_used)
  BY <1>4, SpaceOnly DEF HasMemory
<1> HIDE DEF Q
<1>10. Keeps(P, Q) /\ Q.memory_used = P.memory_used
  BY <1>4, <1>5, <1>9, ShrunkBacked, HasMemoryKeeps DEF HasMemory
<1>11. OneProcess(p, Q)
  BY <1>1, <1>4, <1>8, <1>10 DEF OneProcess, Keeps, P
<1>12. /\ p \in Live /\ Live' = Live /\ process'[p] = Q
       /\ \A q \in Live : q # p => process'[q] = process[q]
       /\ \A q \in Live : Keeps(process[q], process'[q])
       /\ \A q \in Processes : Running(q) => q \in Live'
  BY <1>2, <1>10, <1>11, OneKeeps DEF P
<1>13. b # NoBlock /\ b.owner_process = p /\ b.base_address # 0 /\ b.holding_memory = {}
  <2>1. b \in SharedBlock
    <3> HIDE DEF bs
    <3>1. [owner_process |-> p, base_address |-> address, size |-> size,
           holding_memory |-> {}, backing_blocks |-> bs] \in SharedBlock
      BY <1>3, <1>7 DEF SharedBlock
    <3> QED
      BY <3>1 DEF bs
  <2>2. b.owner_process = p /\ b.base_address = address /\ b.holding_memory = {}
    OBVIOUS
  <2>3. b # NoBlock
    BY <2>1, NullAssumption
  <2> HIDE DEF b
  <2> QED
    BY <1>3, <2>2, <2>3
<1> HIDE DEF b
<1>14. \A q \in Processes : OfProcess(q)' = OfProcess(q)
  BY <1>12, KeepsPages
<1>15. OfBlock(s) = {} /\ OfBlock(s)' = {} /\ \A u \in Blocks : u # s => OfBlock(u)' = OfBlock(u)
  BY <1>1, <1>13, OneBlock DEF OfBlock
<1>16. \A q : \A u \in Blocks : Charges(u, q)' <=> Charges(u, q)
  <2>1. \A q : \A u \in Blocks : u # s => (Charges(u, q)' <=> Charges(u, q))
    BY <1>1, OneBlock
  <2>2. \A q : Charges(s, q)' <=> b # NoBlock /\ b.base_address = 0 /\ b.owner_process = q
    BY <1>1, OneBlock
  <2>3. \A q : ~Charges(s, q)' /\ ~Charges(s, q)
    BY <1>1, <1>13, <2>2 DEF Charges
  <2> QED
    BY <2>1, <2>3
<1>17. \A q \in Live : Charged(q)' = Charged(q)
  <2> SUFFICES ASSUME NEW q \in Live
               PROVE  Charged(q)' = Charged(q)
    OBVIOUS
  <2>1. q \in Live' /\ OfProcess(q)' = OfProcess(q)
    BY <1>12, <1>14 DEF Live
  <2>2. \A u \in Blocks : Charges(u, q)' <=> Charges(u, q)
    BY <1>16 DEF Live
  <2>3. \A u \in Blocks : Charges(u, q) => OfBlock(u)' = OfBlock(u)
    BY <1>15
  <2> QED
    BY <2>1, <2>2, <2>3, ChargedStays
<1>18. \A q \in Live' : process'[q].memory_used = Cardinality(Charged(q)')
  <2>1. \A q \in Live : process[q].memory_used = Cardinality(Charged(q))
    BY <1>2 DEF NumbersInv
  <2>2. process'[p].memory_used = process[p].memory_used
    BY <1>10, <1>12 DEF P
  <2> QED
    BY <1>12, <1>17, <2>1, <2>2
<1>19. Parted'
  <2>1. {} \subseteq free_blocks /\ free_blocks' = free_blocks \ {} /\ OfBlock(s)' = OfBlock(s) \cup {}
    BY <1>1, <1>15
  <2> QED
    BY <1>2, <1>14, <1>15, <2>1, BlockMoves
<1>20. \A u \in LiveBlocks' : BlockHolds(shared_memory'[u])
  <2>1. \A u \in LiveBlocks : BlockHolds(shared_memory[u])
    BY <1>2 DEF HoldingsInv
  <2>2. BlockHolds(b)
    BY <1>13 DEF BlockHolds
  <2> QED
    BY <1>1, <2>1, <2>2, OneBlock DEF LiveBlocks
<1>21. IsFiniteSet(Counted') /\ Cardinality(Counted') <= Cardinality(Counted) + 1
  <2>1. p # NoProcess
    BY NullAssumption
  <2>2. \A u : u \in Counted' <=> IF u = s THEN TRUE ELSE u \in Counted
    BY <1>1, <1>13, <2>1, OneBlock
  <2>3. s \notin Counted
    BY <1>1, OwnerCounted
  <2> QED
    BY <1>2, <2>2, <2>3, CountedChanges
<1>22. LimitMoves(0, 0, 1) /\ Cardinality(Committed') = Cardinality(Committed) + 0
  <2>1. LimitMoves(0, 0, 1)
    <3>1. 1 \in Int /\ limit' = [limit EXCEPT !.SharedMemory = @ + 1]
      BY <1>1
    <3> QED
      BY <1>2, <3>1, LimitFieldMoves
  <2>2. Committed' = Committed
    BY <1>12, CommittedKept
  <2>3. Cardinality(Committed) \in Int
    BY <1>2, LimitFields
  <2> QED
    BY <2>1, <2>2, <2>3
<1>23. 0 \in Int /\ 1 \in Int /\ failed' = FALSE
  BY <1>1, <1>2
<1>24. /\ UNCHANGED thread /\ Live' \subseteq Live
       /\ \A q \in Live' : Keeps(process[q], process'[q])
       /\ \A q \in Processes : Running(q) => q \in Live'
  BY <1>1, <1>12
<1> QED
  BY <1>18, <1>19, <1>20, <1>21, <1>22, <1>23, <1>24, KeptStep

(***************************************************************************)
(* Blocks that are closed, and processes that end.                         *)
(***************************************************************************)
LEMMA ReturnedHolds ==
    ASSUME NEW P \in Process, Tiled(P.areas), FreeMerged(P.areas),
           Backed(P.areas, P.holding_memory), NEW b, BlockFits(b), NEW Q, Q = Returned(P, b)
    PROVE  /\ Keeps(P, Q)
           /\ b.base_address = 0 => Q.memory_used = P.memory_used - b.size
           /\ b.base_address # 0 => Q.memory_used = P.memory_used
<1> DEFINE address == b.base_address
           size == b.size
           may == MayChangeState(P.areas, address, size, "Locked", "None")
<1>1. address \in Nat /\ size \in Nat /\ 1 <= size
      /\ (address # 0 => address + size <= HEAP_VADDR_END)
  BY DEF BlockFits, SharedBlock
<1>2. CASE address = 0
  <2>1. Q = Using(P, P.memory_used - size)
    BY <1>2 DEF Returned, Using
  <2> HIDE DEF size
  <2>2. HasMemory(P, Q, P.areas, P.holding_memory, P.memory_used - size)
    BY <2>1, UsedFields
  <2> QED
    BY <1>2, <2>2, HasMemoryKeeps DEF HasMemory, size
<1>3. CASE address # 0 /\ may
  <2> DEFINE M == P.areas
             as == ChangeMemoryState(M, address, size, "Private", "ReadWrite")
  <2>1. Q = [P EXCEPT !.areas = as]
    BY <1>3 DEF Returned
  <2>2. as = Walk(M, address, size, "ReadWrite", "Private")
    BY DEF ChangeMemoryState
  <2>3. "ReadWrite" \in Perms /\ "Private" \in Used \cup {Kept}
    BY DEF Perms, Used
  <2>4. Occupied(M, address, size) /\ MayChangeState(M, address, size, "Locked", "None")
    BY <1>3, MayChangeOccupied
  <2>5. Tiled(M) /\ FreeMerged(M)
    OBVIOUS
  <2> HIDE DEF as, address, size, may, M
  <2>6. address + size <= MAX_ADDRESS
    BY <1>1, <1>3, HeapUsable DEF Usable
  <2>7. \A v \in Pages : InSpan(v, address, size) => v < HEAP_VADDR_END /\ At(M, v).state \in Own
    <3>1. \A v \in Pages : InSpan(v, address, size) => At(M, v).state = "Locked"
      BY <1>1, <2>4, <2>5, StateOfRange
    <3>2. \A v \in Pages : InSpan(v, address, size) => v < HEAP_VADDR_END
      BY <1>1, <1>3, PageNumber, Layout DEF InSpan
    <3> QED
      BY <3>1, <3>2 DEF Own
  <2>8. Shrunk(as, M)
    BY <1>1, <2>2, <2>3, <2>4, <2>5, <2>6, <2>7, RangeChanged
  <2>9. Backed(as, P.holding_memory)
    BY <2>8, ShrunkBacked DEF M
  <2>10. HasMemory(P, Q, as, P.holding_memory, P.memory_used)
    BY <2>1, SpaceOnly DEF HasMemory
  <2> QED
    BY <1>3, <2>9, <2>10, HasMemoryKeeps DEF HasMemory, address
<1>4. CASE address # 0 /\ ~may
  <2>1. Q = P
    BY <1>4 DEF Returned
  <2> QED
    BY <1>4, <2>1 DEF Keeps, Alike
<1> QED
  BY <1>2, <1>3, <1>4

AtMostOne(S) == \A s, u \in S : s = u

LEMMA SettledHolds ==
    ASSUME MemoryInv, HoldingsInv, NEW closed \in SUBSET LiveBlocks, NEW q \in Live,
           NEW Q, Q = Settled(q, closed)
    PROVE  Keeps(process[q], Q)
<1> DEFINE P == process[q]
<1>1. P \in Process /\ Tiled(P.areas) /\ FreeMerged(P.areas) /\ Backed(P.areas, P.holding_memory)
  BY LiveBooks DEF Live, Space
<1>2. CASE Returning(q, closed) = {}
  <2>1. Q = P
    BY <1>2 DEF Settled
  <2> QED
    BY <2>1, KeepsSelf
<1>3. CASE Returning(q, closed) # {}
  <2>1. PICK s \in Returning(q, closed) : Q = Returned(P, shared_memory[s])
    BY <1>3 DEF Settled
  <2>2. BlockFits(shared_memory[s])
    BY <2>1 DEF Returning, MemoryInv, BlockSound
  <2> HIDE DEF P
  <2> QED
    BY <1>1, <2>1, <2>2, ReturnedHolds DEF P
<1> QED
  BY <1>2, <1>3

(* The blocks closed are gone, and so are the processes D; the other       *)
(* processes keep what they hold, and are charged for the blocks that are  *)
(* left.                                                                   *)
Closes(closed, D) ==
    /\ closed \subseteq LiveBlocks /\ Live' = Live \ D
    /\ \A s \in Blocks : OfBlock(s)' = IF s \in closed THEN {} ELSE OfBlock(s)
    /\ \A q \in Processes : OfProcess(q)' = IF q \in D THEN {} ELSE OfProcess(q)
    /\ \A q \in Live' : \A s \in Blocks : Charges(s, q)' <=> Charges(s, q) /\ s \notin closed

GivenUp(closed, D) ==
    (UNION {OfProcess(q) : q \in D}) \cup (UNION {OfBlock(s) : s \in closed})

LEMMA ClosesParted ==
    ASSUME Parted, NEW closed, NEW D \in SUBSET Processes, Closes(closed, D),
           free_blocks' = free_blocks \cup GivenUp(closed, D)
    PROVE  Parted' /\ GivenUp(closed, D) \cap free_blocks = {}
<1> DEFINE S == GivenUp(closed, D)
           h == <<"free", NoProcess>>
<1>1. closed \in SUBSET Blocks
  BY DEF Closes, LiveBlocks
<1>2. \A x : x \in S <=> \/ \E q \in D : x \in OfProcess(q)
                         \/ \E s \in closed : x \in OfBlock(s)
  <2> DEFINE A == UNION {OfProcess(q) : q \in D}
             B == UNION {OfBlock(s) : s \in closed}
  <2>1. \A x : x \in A <=> \E q \in D : x \in OfProcess(q)
    OBVIOUS
  <2>2. \A x : x \in B <=> \E s \in closed : x \in OfBlock(s)
    OBVIOUS
  <2>3. S = A \cup B
    BY DEF GivenUp
  <2> HIDE DEF A, B
  <2> QED
    BY <2>1, <2>2, <2>3
<1> HIDE DEF S
<1>3. /\ \A q \in Processes : OfProcess(q) \subseteq FCRAM /\ OfProcess(q) \cap free_blocks = {}
      /\ \A s \in Blocks : OfBlock(s) \subseteq FCRAM /\ OfBlock(s) \cap free_blocks = {}
      /\ \A q, r \in Processes : q # r => OfProcess(q) \cap OfProcess(r) = {}
      /\ \A s, u \in Blocks : s # u => OfBlock(s) \cap OfBlock(u) = {}
      /\ \A q \in Processes, s \in Blocks : OfProcess(q) \cap OfBlock(s) = {}
  BY HeldApart
<1>4. S \subseteq FCRAM /\ S \cap free_blocks = {}
  BY <1>1, <1>2, <1>3
<1>5. \A q \in Processes : OfProcess(q)' = OfProcess(q) \ S
  <2> SUFFICES ASSUME NEW q \in Processes
               PROVE  OfProcess(q)' = OfProcess(q) \ S
    OBVIOUS
  <2>1. OfProcess(q)' = IF q \in D THEN {} ELSE OfProcess(q)
    BY DEF Closes
  <2>2. q \in D => OfProcess(q) \subseteq S
    BY <1>2
  <2>3. q \notin D => OfProcess(q) \cap S = {}
    BY <1>1, <1>2, <1>3
  <2> QED
    BY <2>1, <2>2, <2>3
<1>6. \A s \in Blocks : OfBlock(s)' = OfBlock(s) \ S
  <2> SUFFICES ASSUME NEW s \in Blocks
               PROVE  OfBlock(s)' = OfBlock(s) \ S
    OBVIOUS
  <2>1. OfBlock(s)' = IF s \in closed THEN {} ELSE OfBlock(s)
    BY DEF Closes
  <2>2. s \in closed => OfBlock(s) \subseteq S
    BY <1>2
  <2>3. s \notin closed => OfBlock(s) \cap S = {}
    BY <1>1, <1>2, <1>3
  <2> QED
    BY <2>1, <2>2, <2>3
<1>7. MovedTo(h, S)
  <2> SUFFICES ASSUME NEW g \in Holders
               PROVE  HeldBy(g)' = IF g = h THEN HeldBy(g) \cup S ELSE HeldBy(g) \ S
    BY DEF MovedTo
  <2>1. CASE g = h
    <3>1. HeldBy(g) = free_blocks /\ HeldBy(g)' = free_blocks'
      BY <2>1 DEF HeldBy
    <3> QED
      BY <2>1, <3>1 DEF S
  <2>2. CASE \E q \in Processes : g = <<"process", q>>
    <3>1. PICK q \in Processes : g = <<"process", q>>
      BY <2>2
    <3>2. HeldBy(g) = OfProcess(q) /\ HeldBy(g)' = OfProcess(q)' /\ g # h
      BY <3>1 DEF HeldBy
    <3> QED
      BY <1>5, <3>2
  <2>3. CASE \E s \in Blocks : g = <<"block", s>>
    <3>1. PICK s \in Blocks : g = <<"block", s>>
      BY <2>3
    <3>2. HeldBy(g) = OfBlock(s) /\ HeldBy(g)' = OfBlock(s)' /\ g # h
      BY <3>1 DEF HeldBy
    <3> QED
      BY <1>6, <3>2
  <2> QED
    BY <2>1, <2>2, <2>3, TheHolders
<1>8. h \in Holders
  BY TheHolders
<1>9. Parted'
  BY <1>4, <1>7, <1>8, StaysParted
<1> QED
  BY <1>4, <1>9 DEF S

LEMMA ClosesCharged ==
    ASSUME Parted, NEW closed, NEW D \in SUBSET Processes, Closes(closed, D), NEW q \in Live'
    PROVE  /\ (\A s \in closed : ~Charges(s, q)) => Charged(q)' = Charged(q)
           /\ \A s \in closed : Charges(s, q) /\ (\A u \in closed : Charges(u, q) => u = s) =>
                 Charged(q)' = Charged(q) \ OfBlock(s) /\ OfBlock(s) \subseteq Charged(q)
<1>1. q \in Live /\ q \notin D /\ q \in Processes /\ closed \in SUBSET Blocks
  BY DEF Closes, Live, LiveBlocks
<1>2. OfProcess(q)' = OfProcess(q)
  BY <1>1 DEF Closes
<1>3. \A s \in Blocks : /\ Charges(s, q)' <=> Charges(s, q) /\ s \notin closed
                        /\ s \notin closed => OfBlock(s)' = OfBlock(s)
  BY DEF Closes
<1>4. \A x : x \in Charged(q)' <=> \/ x \in OfProcess(q)'
                                   \/ \E u \in Blocks : Charges(u, q)' /\ x \in OfBlock(u)'
  BY ChargedNext
<1>5. \A x : x \in Charged(q) <=> \/ x \in OfProcess(q)
                                  \/ \E u \in Blocks : Charges(u, q) /\ x \in OfBlock(u)
  BY <1>1, ChargedTo
<1>6. \A x : x \in Charged(q)' <=>
          \/ x \in OfProcess(q)
          \/ \E u \in Blocks : Charges(u, q) /\ u \notin closed /\ x \in OfBlock(u)
  BY <1>2, <1>3, <1>4
<1>7. ASSUME \A s \in closed : ~Charges(s, q)
      PROVE  Charged(q)' = Charged(q)
  <2>1. \A x : x \in Charged(q)' <=> x \in Charged(q)
    BY <1>5, <1>6, <1>7
  <2> QED
    BY <2>1 DEF Charged
<1>8. ASSUME NEW s \in closed, Charges(s, q), \A u \in closed : Charges(u, q) => u = s
      PROVE  Charged(q)' = Charged(q) \ OfBlock(s) /\ OfBlock(s) \subseteq Charged(q)
  <2>1. OfBlock(s) \subseteq Charged(q)
    BY <1>1, <1>5, <1>8
  <2>2. /\ \A u \in Blocks : u # s => OfBlock(u) \cap OfBlock(s) = {}
        /\ OfProcess(q) \cap OfBlock(s) = {}
    BY <1>1, HeldApart
  <2>3. \A x : x \in Charged(q)' <=> x \in Charged(q) /\ x \notin OfBlock(s)
    BY <1>1, <1>5, <1>6, <1>8, <2>2
  <2> QED
    BY <2>1, <2>3 DEF Charged
<1> QED
  BY <1>7, <1>8

LEMMA SettledUsed ==
    ASSUME MemoryInv, HoldingsInv, NumbersInv, NEW closed, NEW D \in SUBSET Processes,
           Closes(closed, D), NEW q \in Live', AtMostOne(Returning(q, closed)),
           process'[q] = Settled(q, closed)
    PROVE  process'[q].memory_used = Cardinality(Charged(q)')
<1> DEFINE P == process[q]
<1>1. q \in Live /\ q \in Processes /\ closed \in SUBSET LiveBlocks /\ closed \in SUBSET Blocks
  BY DEF Closes, Live, LiveBlocks
<1>2. P \in Process /\ Tiled(P.areas) /\ FreeMerged(P.areas) /\ Backed(P.areas, P.holding_memory)
  BY <1>1, LiveBooks DEF Live, Space
<1>3. /\ P.memory_used = Cardinality(Charged(q)) /\ Charged(q) \subseteq FCRAM
      /\ Cardinality(Charged(q)) \in Nat
  BY <1>1, ChargedFinite DEF NumbersInv, HoldingsInv
<1>4. \A s \in closed : Charges(s, q) => s \in Returning(q, closed)
  BY DEF Charges, Returning
<1>5. Parted
  BY DEF HoldingsInv
<1>6. CASE Returning(q, closed) = {}
  <2>1. process'[q] = P
    BY <1>6 DEF Settled
  <2>2. \A s \in closed : ~Charges(s, q)
    BY <1>4, <1>6
  <2>3. Charged(q)' = Charged(q)
    BY <1>5, <2>2, ClosesCharged
  <2> QED
    BY <1>3, <2>1, <2>3
<1>7. CASE Returning(q, closed) # {}
  <2>1. PICK s \in Returning(q, closed) : process'[q] = Returned(P, shared_memory[s])
    BY <1>7 DEF Settled
  <2> DEFINE b == shared_memory[s]
             Q == process'[q]
  <2>2. s \in closed /\ b.owner_process = q /\ b # NoBlock /\ BlockFits(b) /\ BlockHolds(b)
    BY <1>1, <2>1 DEF Returning, MemoryInv, BlockSound, HoldingsInv, LiveBlocks
  <2>3. /\ b.base_address = 0 => Q.memory_used = P.memory_used - b.size
        /\ b.base_address # 0 => Q.memory_used = P.memory_used
    <3>1. Q = Returned(P, b)
      BY <2>1
    <3> HIDE DEF P, Q, b
    <3> QED
      BY <1>2, <2>2, <3>1, ReturnedHolds
  <2>4. \A u \in closed : Charges(u, q) => u = s
    BY <1>4, <2>1 DEF AtMostOne
  <2>5. CASE b.base_address = 0
    <3>1. Charges(s, q)
      BY <2>2, <2>5 DEF Charges, Automatic
    <3>2. Charged(q)' = Charged(q) \ OfBlock(s) /\ OfBlock(s) \subseteq Charged(q)
      BY <1>5, <2>2, <2>4, <3>1, ClosesCharged
    <3>3. Cardinality(OfBlock(s)) = b.size
      BY <2>2, <2>5 DEF OfBlock, BlockHolds
    <3>4. Cardinality(Charged(q)') = Cardinality(Charged(q)) - Cardinality(OfBlock(s))
      BY <1>3, <3>2, FewerPages
    <3> QED
      BY <1>3, <2>3, <2>5, <3>3, <3>4
  <2>6. CASE b.base_address # 0
    <3>1. \A u \in closed : ~Charges(u, q)
      BY <2>4, <2>6 DEF Charges, Automatic
    <3>2. Charged(q)' = Charged(q)
      BY <1>5, <3>1, ClosesCharged
    <3> QED
      BY <1>3, <2>3, <2>6, <3>2
  <2> QED
    BY <2>5, <2>6
<1> QED
  BY <1>6, <1>7

LEMMA ClosingStep ==
    ASSUME MemoryInv, BooksInv, UNCHANGED thread, NEW closed, NEW D \in SUBSET Processes,
           Closes(closed, D), Free(GivenUp(closed, D)),
           \A q \in Live' : process'[q] = Settled(q, closed) /\ AtMostOne(Returning(q, closed)),
           \A q \in Processes : Running(q) => q \in Live',
           \A s \in LiveBlocks' : BlockHolds(shared_memory'[s]),
           NEW c \in Int, NEW m \in Int, LimitMoves(c, 0, m),
           Cardinality(Committed') = Cardinality(Committed) + c,
           IsFiniteSet(Counted'), Cardinality(Counted') <= Cardinality(Counted) + m
    PROVE  BooksInv'
<1>1. HoldingsInv /\ NumbersInv /\ Parted /\ failed = FALSE
  BY DEF BooksInv, HoldingsInv
<1>2. Live' \subseteq Live /\ closed \in SUBSET LiveBlocks
  BY DEF Closes
<1>3. Parted' /\ failed' = FALSE
  BY <1>1, ClosesParted DEF Free
<1>4. \A q \in Live' : Keeps(process[q], process'[q])
  BY <1>1, <1>2, SettledHolds
<1>5. \A q \in Live' : process'[q].memory_used = Cardinality(Charged(q)')
  BY <1>1, SettledUsed
<1> QED
  BY <1>2, <1>3, <1>4, <1>5, KeptStep

LEMMA DestroyBlockBooks ==
    ASSUME MemoryInv, BooksInv, NEW s \in Blocks, DestroyBlock(s)
    PROVE  BooksInv'
<1> DEFINE b == shared_memory[s]
           p == b.owner_process
           Q == Returned(process[p], b)
<1>1. /\ b # NoBlock /\ Free(b.holding_memory) /\ UNCHANGED thread
      /\ shared_memory' = [shared_memory EXCEPT ![s] = NoBlock]
      /\ limit' = IF p = NoProcess THEN limit ELSE [limit EXCEPT !.SharedMemory = @ - 1]
      /\ process' = IF p = NoProcess THEN process ELSE [process EXCEPT ![p] = Q]
  BY DEF DestroyBlock
<1>2. s \in LiveBlocks /\ BlockFits(b) /\ (p # NoProcess => p \in Live)
  <2>1. s \in LiveBlocks
    BY <1>1 DEF LiveBlocks
  <2>2. BlockFits(b) /\ (p # NoProcess => Exists(p))
    BY <2>1 DEF MemoryInv, BlockSound
  <2>3. p \in Processes \cup {NoProcess}
    BY <2>2 DEF BlockFits, SharedBlock
  <2> QED
    BY <2>1, <2>2, <2>3 DEF Live
<1>3. HoldingsInv /\ NumbersInv /\ TlsInv /\ Parted /\ failed = FALSE
  BY DEF BooksInv, HoldingsInv
<1>4. \A q : Returning(q, {s}) = IF p = q THEN {s} ELSE {}
  BY DEF Returning
<1>5. \A q \in Live : Settled(q, {s}) = IF p = q THEN Q ELSE process[q]
  <2>1. (CHOOSE x \in {s} : TRUE) = s
    OBVIOUS
  <2> QED
    BY <1>4, <2>1 DEF Settled
<1>6. NoProcess \notin Processes /\ process \in [Processes -> Process \cup {NoProcess}]
  BY NullAssumption DEF MemoryInv
<1>7. \A q \in Live : process'[q] = Settled(q, {s})
  <2>1. \A q \in Live : q \in Processes
    BY DEF Live
  <2> HIDE DEF Q, b, p
  <2> QED
    BY <1>1, <1>2, <1>5, <1>6, <2>1
<1>8. \A q \in Live : Keeps(process[q], process'[q])
  BY <1>2, <1>3, <1>7, SettledHolds
<1> HIDE DEF Q
<1>9. Live' = Live /\ \A q \in Processes : q \notin Live => process'[q] = process[q]
  <2>1. p # NoProcess => MemoryInv'
    BY DestroyBlockInv
  <2>2. \A q \in Processes : q \notin Live => process'[q] = process[q]
    BY <1>1, <1>2, <1>6
  <2>3. ASSUME NEW q \in Live
        PROVE  Exists(q)'
    <3>1. q \in Processes /\ process[q] \in Process
      BY <1>6 DEF Live, Exists
    <3>2. CASE p = q /\ p # NoProcess
      <4>1. process'[q] = Returned(process[q], b)
        BY <1>1, <1>6, <3>1, <3>2 DEF Q
      <4>2. Tiled(process[q].areas) /\ FreeMerged(process[q].areas)
        BY <3>1, LiveProcess DEF Live
      <4>3. Returned(process[q], b) \in Process
        BY <1>2, <3>1, <4>2, ReturnedKept
      <4> QED
        BY <4>1, <4>3, NullAssumption DEF Exists
    <3>3. CASE p # q \/ p = NoProcess
      <4>1. process'[q] = process[q]
        BY <1>1, <1>6, <3>1, <3>3
      <4> QED
        BY <3>1, <4>1, NullAssumption DEF Exists
    <3> QED
      BY <3>2, <3>3
  <2> QED
    BY <2>2, <2>3 DEF Live, Exists
<1>10. Closes({s}, {})
  <2>1. \A u \in Blocks : OfBlock(u)' = IF u \in {s} THEN {} ELSE OfBlock(u)
    BY <1>1, OneBlock
  <2>2. \A q \in Processes : OfProcess(q)' = OfProcess(q)
    BY <1>8, <1>9, KeepsPages
  <2>3. \A q : \A u \in Blocks : Charges(u, q)' <=> Charges(u, q) /\ u \notin {s}
    BY <1>1, OneBlock
  <2> QED
    BY <1>2, <1>9, <2>1, <2>2, <2>3 DEF Closes
<1>11. Free(GivenUp({s}, {}))
  <2>1. GivenUp({s}, {}) = b.holding_memory
    BY <1>1 DEF GivenUp, OfBlock
  <2> QED
    BY <1>1, <2>1
<1>12. \A q \in Live' : process'[q] = Settled(q, {s}) /\ AtMostOne(Returning(q, {s}))
  BY <1>4, <1>7, <1>9 DEF AtMostOne
<1>13. \A q \in Processes : Running(q) => q \in Live'
  BY <1>9 DEF Running, Live
<1>14. \A u \in LiveBlocks' : BlockHolds(shared_memory'[u])
  <2>1. \A u \in LiveBlocks : BlockHolds(shared_memory[u])
    BY <1>3 DEF HoldingsInv
  <2> QED
    BY <1>1, <2>1, OneBlock DEF LiveBlocks
<1>15. Committed' = Committed /\ Cardinality(Committed) \in Int
  BY <1>3, <1>8, <1>9, CommittedKept, LimitFields
<1>16. 0 \in Int /\ 0 - 1 \in Int /\ 1 \in Int /\ {} \in SUBSET Processes
       /\ Cardinality(Committed') = Cardinality(Committed) + 0
  BY <1>15
<1>17. \A u : u \in Counted' <=> IF u = s THEN FALSE ELSE u \in Counted
  BY <1>1, OneBlock
<1>18. CASE p = NoProcess
  <2>1. LimitMoves(0, 0, 0)
    BY <1>1, <1>3, <1>18, LimitStays
  <2>2. s \notin Counted
    BY <1>1, <1>18, OwnerCounted
  <2>3. IsFiniteSet(Counted') /\ Cardinality(Counted') <= Cardinality(Counted) + 0
    BY <1>3, <1>17, <2>2, CountedChanges
  <2> QED
    BY <1>1, <1>10, <1>11, <1>12, <1>13, <1>14, <1>16, <2>1, <2>3, ClosingStep
<1>19. CASE p # NoProcess
  <2>1. LimitMoves(0, 0, 0 - 1)
    <3>1. limit' = [limit EXCEPT !.SharedMemory = @ - 1]
      BY <1>1, <1>19
    <3> QED
      BY <1>3, <1>16, <3>1, LimitFalls
  <2>2. s \in Counted
    BY <1>1, <1>19, OwnerCounted
  <2>3. IsFiniteSet(Counted') /\ Cardinality(Counted') <= Cardinality(Counted) + (0 - 1)
    BY <1>3, <1>17, <2>2, CountedChanges
  <2> QED
    BY <1>1, <1>10, <1>11, <1>12, <1>13, <1>14, <1>16, <2>1, <2>3, ClosingStep
<1> QED
  BY <1>18, <1>19

(***************************************************************************)
(* Processes that start, and threads that are made.                        *)
(***************************************************************************)
HeapOf(p) == IF Exists(p) THEN process[p].holding_memory ELSE {}
UsedBy(p) == IF Exists(p) THEN process[p].memory_used ELSE 0

(* Process p becomes Q; the pages F that were free are its own.            *)
Grows(p, Q, F) ==
    /\ p \in Processes /\ Q \in Process /\ process' = [process EXCEPT ![p] = Q]
    /\ UNCHANGED shared_memory /\ F \subseteq free_blocks /\ free_blocks' = free_blocks \ F
    /\ ProcessHolds(Q)
    /\ Q.holding_memory \cup Q.holding_tls_memory = OfProcess(p) \cup F
    /\ Q.holding_memory = HeapOf(p) \cup (F \cap APPLICATION)
    /\ Q.memory_used = UsedBy(p) + Cardinality(F)

LEMMA GrowsHolds ==
    ASSUME MemoryInv, NEW p, NEW Q, NEW F, Grows(p, Q, F)
    PROVE  /\ process'[p] = Q /\ \A q \in Processes : q # p => process'[q] = process[q]
           /\ \A q : q \in Live' <=> q \in Live \/ q = p
           /\ OfProcess(p)' = OfProcess(p) \cup F
           /\ \A q \in Processes : q # p => OfProcess(q)' = OfProcess(q)
<1>1. /\ p \in Processes /\ Q \in Process /\ process' = [process EXCEPT ![p] = Q]
      /\ Q.holding_memory \cup Q.holding_tls_memory = OfProcess(p) \cup F
  BY DEF Grows
<1>2. process'[p] = Q /\ \A q \in Processes : q # p => process'[q] = process[q]
  BY <1>1 DEF MemoryInv
<1>3. Q # NoProcess
  BY <1>1, ProcessFields
<1>4. OfProcess(p)' = OfProcess(p) \cup F
  <2>1. OfProcess(p)' = Q.holding_memory \cup Q.holding_tls_memory
    BY <1>2, <1>3 DEF OfProcess, Exists
  <2> QED
    BY <1>1, <2>1
<1>5. \A q \in Processes : q # p => OfProcess(q)' = OfProcess(q)
  BY <1>2 DEF OfProcess, Exists
<1>6. \A q : q \in Live' <=> q \in Live \/ q = p
  BY <1>1, <1>2, <1>3 DEF Live, Exists
<1> QED
  BY <1>2, <1>4, <1>5, <1>6

LEMMA NoneCharges ==
    ASSUME MemoryInv, NEW p \in Processes, ~Exists(p), NEW s \in Blocks
    PROVE  ~Charges(s, p)
<1> SUFFICES ASSUME Charges(s, p)
             PROVE  FALSE
  OBVIOUS
<1>1. BlockSound(s)
  BY DEF Charges, MemoryInv, LiveBlocks
<1>2. shared_memory[s].owner_process = p
  BY DEF Charges
<1> QED
  BY <1>1, <1>2, NullAssumption DEF BlockSound

LEMMA GrowsCharged ==
    ASSUME MemoryInv, HoldingsInv, NumbersInv, NEW p, NEW Q, NEW F, Grows(p, Q, F), NEW q \in Live'
    PROVE  process'[q].memory_used = Cardinality(Charged(q)')
<1>1. /\ process'[p] = Q /\ \A r \in Processes : r # p => process'[r] = process[r]
      /\ \A r : r \in Live' <=> r \in Live \/ r = p
      /\ OfProcess(p)' = OfProcess(p) \cup F
      /\ \A r \in Processes : r # p => OfProcess(r)' = OfProcess(r)
  BY GrowsHolds
<1>2. /\ p \in Processes /\ q \in Processes /\ F \subseteq free_blocks
      /\ UNCHANGED shared_memory /\ Q.memory_used = UsedBy(p) + Cardinality(F)
  BY DEF Grows, Live
<1>3. \A s : \A r : OfBlock(s)' = OfBlock(s) /\ (Charges(s, r)' <=> Charges(s, r))
  BY <1>2, SameBlocks
<1>4. Parted /\ F \subseteq FCRAM
  BY <1>2 DEF HoldingsInv, MemoryInv
<1>5. CASE q # p
  <2>1. q \in Live /\ OfProcess(q)' = OfProcess(q) /\ process'[q] = process[q]
    BY <1>1, <1>2, <1>5
  <2>2. Charged(q)' = Charged(q)
    BY <1>3, <2>1, ChargedStays
  <2> QED
    BY <2>1, <2>2 DEF NumbersInv
<1>6. CASE q = p
  <2>1. \A x : x \in Charged(p)' <=> \/ x \in OfProcess(p) \/ x \in F
                                     \/ \E s \in Blocks : Charges(s, p) /\ x \in OfBlock(s)
    <3>1. \A x : x \in Charged(q)' <=> \/ x \in OfProcess(q)'
                                       \/ \E s \in Blocks : Charges(s, q)' /\ x \in OfBlock(s)'
      BY ChargedNext
    <3> QED
      BY <1>1, <1>3, <1>6, <3>1
  <2>2. CASE Exists(p)
    <3>1. p \in Live /\ UsedBy(p) = Cardinality(Charged(p))
      BY <1>2, <2>2 DEF Live, UsedBy, NumbersInv
    <3>2. \A x : x \in Charged(p) <=> \/ x \in OfProcess(p)
                                      \/ \E s \in Blocks : Charges(s, p) /\ x \in OfBlock(s)
      BY <3>1, ChargedTo
    <3>3. Charged(p)' = Charged(p) \cup F
      BY <2>1, <3>2
    <3>4. Charged(p) \subseteq FCRAM
      BY <1>4, <3>1, ChargedFinite
    <3>5. Charged(p) \cap F = {}
      BY <1>2, <1>4, <3>2, HeldApart
    <3>6. Cardinality(Charged(p)') = Cardinality(Charged(p)) + Cardinality(F)
      BY <1>4, <3>3, <3>4, <3>5, MorePages
    <3> QED
      BY <1>1, <1>2, <1>6, <3>1, <3>6
  <2>3. CASE ~Exists(p)
    <3>1. OfProcess(p) = {} /\ UsedBy(p) = 0 /\ \A s \in Blocks : ~Charges(s, p)
      BY <1>2, <2>3, NoneCharges DEF OfProcess, UsedBy
    <3>2. Charged(p)' = F
      BY <2>1, <3>1
    <3>3. Cardinality(F) \in Nat
      BY <1>4, FcramFinite
    <3> QED
      BY <1>1, <1>2, <1>6, <3>1, <3>2, <3>3
  <2> QED
    BY <2>2, <2>3
<1> QED
  BY <1>5, <1>6

LEMMA GrowsCommitted ==
    ASSUME MemoryInv, HoldingsInv, NEW p, NEW Q, NEW F, Grows(p, Q, F)
    PROVE  /\ Committed' = Committed \cup (F \cap APPLICATION)
           /\ Cardinality(Committed') = Cardinality(Committed) + Cardinality(F \cap APPLICATION)
           /\ Cardinality(F \cap APPLICATION) \in Int
<1> DEFINE S == F \cap APPLICATION
<1>1. /\ process'[p] = Q /\ \A q \in Processes : q # p => process'[q] = process[q]
      /\ \A q : q \in Live' <=> q \in Live \/ q = p
  BY GrowsHolds
<1>2. /\ p \in Processes /\ S \subseteq free_blocks /\ Q.holding_memory = HeapOf(p) \cup S
  BY DEF Grows
<1>3. free_blocks \subseteq FCRAM /\ Parted
  BY DEF MemoryInv, HoldingsInv
<1> HIDE DEF S
<1>4. \A x : x \in Committed <=> \E q \in Live : x \in process[q].holding_memory
  BY CommittedBy
<1>5. \A x : x \in Committed' <=> \E q \in Live' : x \in process'[q].holding_memory
  BY DEF Committed
<1>6. \A q \in Processes : q \in Live <=> Exists(q)
  BY DEF Live
<1>7. \A x : x \in Committed' <=> x \in Committed \/ x \in S
  <2>1. ASSUME NEW x, x \in Committed'
        PROVE  x \in Committed \/ x \in S
    <3>1. PICK q \in Live' : x \in process'[q].holding_memory
      BY <1>5, <2>1
    <3>2. CASE q = p
      BY <1>1, <1>2, <1>4, <1>6, <3>1, <3>2 DEF HeapOf
    <3>3. CASE q # p
      <4>1. q \in Live /\ q \in Processes
        BY <1>1, <3>3 DEF Live
      <4> QED
        BY <1>1, <1>4, <3>1, <3>3, <4>1
    <3> QED
      BY <3>2, <3>3
  <2>2. ASSUME NEW x, x \in S
        PROVE  x \in Committed'
    BY <1>1, <1>2, <1>5, <2>2
  <2>3. ASSUME NEW x, x \in Committed
        PROVE  x \in Committed'
    <3>1. PICK q \in Live : x \in process[q].holding_memory
      BY <1>4, <2>3
    <3>2. CASE q = p
      <4>1. x \in HeapOf(p)
        BY <1>2, <1>6, <3>1, <3>2 DEF HeapOf
      <4> QED
        BY <1>1, <1>2, <1>5, <4>1
    <3>3. CASE q # p
      <4>1. q \in Live' /\ q \in Processes
        BY <1>1 DEF Live
      <4> QED
        BY <1>1, <1>5, <3>1, <3>3, <4>1
    <3> QED
      BY <3>2, <3>3
  <2> QED
    BY <2>1, <2>2, <2>3
<1>8. Committed' = Committed \cup S
  BY <1>7
<1>9. Committed \subseteq FCRAM /\ Committed \cap S = {}
  <2> SUFFICES ASSUME NEW x \in Committed
               PROVE  x \in FCRAM /\ x \notin free_blocks
    BY <1>2
  <2>1. PICK q \in Live : x \in process[q].holding_memory
    BY <1>4
  <2>2. x \in OfProcess(q) /\ q \in Processes
    BY <2>1 DEF OfProcess, Live
  <2> QED
    BY <1>3, <2>2, HeldApart
<1>10. S \subseteq FCRAM
  BY <1>2, <1>3
<1>11. Cardinality(Committed') = Cardinality(Committed) + Cardinality(S)
  BY <1>8, <1>9, <1>10, MorePages
<1>12. Cardinality(S) \in Int
  BY <1>10, FcramFinite
<1> QED
  BY <1>8, <1>11, <1>12 DEF S

LEMMA GrowsStep ==
    ASSUME MemoryInv, BooksInv, NEW p, NEW Q, NEW F, Grows(p, Q, F), failed' = FALSE, TlsInv',
           NEW n, LimitMoves(Cardinality(F \cap APPLICATION), n, 0)
    PROVE  BooksInv'
<1>1. HoldingsInv /\ NumbersInv /\ Parted
  BY DEF BooksInv, HoldingsInv
<1>2. /\ process'[p] = Q /\ \A q \in Processes : q # p => process'[q] = process[q]
      /\ \A q : q \in Live' <=> q \in Live \/ q = p
      /\ OfProcess(p)' = OfProcess(p) \cup F
      /\ \A q \in Processes : q # p => OfProcess(q)' = OfProcess(q)
  BY GrowsHolds
<1>3. /\ p \in Processes /\ UNCHANGED shared_memory /\ ProcessHolds(Q)
      /\ F \subseteq free_blocks /\ free_blocks' = free_blocks \ F
  BY DEF Grows
<1>4. /\ \A s : OfBlock(s)' = OfBlock(s)
      /\ LiveBlocks' = LiveBlocks /\ Counted' = Counted
  BY <1>3, SameBlocks
<1>5. HoldingsInv'
  <2>1. \A q \in Live' : ProcessHolds(process'[q])
    <3> SUFFICES ASSUME NEW q \in Live', q # p
                 PROVE  ProcessHolds(process'[q])
      BY <1>2, <1>3
    <3>1. q \in Live /\ q \in Processes /\ process'[q] = process[q]
      BY <1>2 DEF Live
    <3> QED
      BY <1>1, <3>1 DEF HoldingsInv
  <2>2. \A s \in LiveBlocks' : BlockHolds(shared_memory'[s])
    BY <1>1, <1>3, <1>4 DEF HoldingsInv
  <2>3. Parted'
    BY <1>1, <1>2, <1>3, <1>4, ProcessMoves
  <2> QED
    BY <2>1, <2>2, <2>3 DEF HoldingsInv
<1>6. NumbersInv'
  <2> DEFINE k == Cardinality(F \cap APPLICATION)
  <2>1. \A q \in Live' : process'[q].memory_used = Cardinality(Charged(q)')
    BY <1>1, GrowsCharged
  <2>2. Cardinality(Committed') = Cardinality(Committed) + k /\ k \in Int
    BY <1>1, GrowsCommitted
  <2> HIDE DEF k
  <2>3. /\ limit' \in [Counts -> Int] /\ limit'.Commit = limit.Commit + k
        /\ limit'.SharedMemory = limit.SharedMemory + 0
    BY DEF LimitMoves, k
  <2>4. /\ limit.Commit = Cardinality(Committed) /\ limit.SharedMemory \in Int
        /\ limit.SharedMemory >= Cardinality(Counted) /\ IsFiniteSet(Counted)
    BY <1>1, LimitFields DEF NumbersInv
  <2>5. limit'.Commit = Cardinality(Committed') /\ limit'.SharedMemory = limit.SharedMemory
    BY <2>2, <2>3, <2>4
  <2>6. IsFiniteSet(Counted') /\ limit'.SharedMemory >= Cardinality(Counted')
    BY <1>4, <2>4, <2>5
  <2> QED
    BY <2>1, <2>3, <2>5, <2>6 DEF NumbersInv, Committed, Counts
<1> QED
  BY <1>5, <1>6 DEF BooksInv

(* A page of thread-local storage is not one of its own.                   *)
LEMMA TlsShrinks ==
    ASSUME NEW as, NEW target \in Nat, target >= TLS_AREA_VADDR, NEW f, NEW r,
           Backs(r, as, target, 1, f, "Locked")
    PROVE  Shrunk(r, as)
<1> SUFFICES ASSUME NEW v \in Pages, OwnPage(r, v)
             PROVE  OwnPage(as, v) /\ At(r, v).backing = At(as, v).backing
  BY DEF Shrunk
<1>1. CASE InSpan(v, target, 1)
  <2>1. ~(v < HEAP_VADDR_END) /\ ~IsLinear(v)
    <3>1. v \in Nat /\ v >= TLS_AREA_VADDR
      BY <1>1, Layout, PageNumber DEF InSpan
    <3> QED
      BY <3>1, Layout, Numbers DEF InSpan, IsLinear
  <2> QED
    BY <2>1 DEF OwnPage
<1>2. CASE ~InSpan(v, target, 1)
  <2>1. At(r, v) = At(as, v)
    BY <1>2 DEF Backs
  <2>2. FreePage(r, v) <=> FreePage(as, v)
    BY <2>1, AtPage
  <2> QED
    BY <2>1, <2>2 DEF OwnPage
<1> QED
  BY <1>1, <1>2

TlsMemory(P, Q, M, n) ==
    /\ Q.status = P.status /\ Q.holding_memory = P.holding_memory
    /\ Q.holding_tls_memory = M /\ Q.memory_used = n

LEMMA WithTlsHolds ==
    ASSUME NEW P \in Process, Space(P), Backed(P.areas, P.holding_memory), NEW f,
           NeedsTlsPage(P) => f \in FCRAM /\ Len(P.tls_slots) < Cardinality(Threads),
           NEW Q, Q = WithTls(P, f)
    PROVE  /\ Backed(Q.areas, Q.holding_memory)
           /\ NeedsTlsPage(P) =>
                 TlsMemory(P, Q, P.holding_tls_memory \cup {f}, P.memory_used + 1)
           /\ ~NeedsTlsPage(P) => TlsMemory(P, Q, P.holding_tls_memory, P.memory_used)
<1> DEFINE slots == P.tls_slots
<1>1. Len(slots) \in Nat
  BY SlotSets
<1>2. CASE NeedsTlsPage(P)
  <2> DEFINE target == TLS_AREA_VADDR + Len(slots)
             as == MapBackingMemory(P.areas, target, f, 1, "Locked")
             held == P.holding_tls_memory \cup {f}
             used == P.memory_used + 1
             longer == Append(slots, {0})
  <2>1. Q = [P EXCEPT !.holding_tls_memory = held, !.memory_used = used, !.tls_slots = longer,
                      !.areas = as]
    BY <1>2 DEF WithTls
  <2>2. /\ f \in Nat /\ f + 1 <= Frames /\ target \in Nat /\ target + 1 <= MAX_ADDRESS
        /\ target >= TLS_AREA_VADDR
    <3>1. f \in Nat /\ f + 1 <= Frames
      BY <1>2, Numbers
    <3>2. Len(slots) < Cardinality(Threads)
      BY <1>2
    <3> HIDE DEF slots
    <3> QED
      BY <1>1, <3>1, <3>2, Layout, Numbers
  <2>3. \A v \in Pages : v >= target => FreePage(P.areas, v)
    BY DEF Space
  <2> HIDE DEF target
  <2>4. Backs(as, P.areas, target, 1, f, "Locked")
    <3>1. \A v \in Pages : InSpan(v, target, 1) => FreePage(P.areas, v)
      BY <2>3 DEF InSpan
    <3>2. Tiled(P.areas) /\ FreeMerged(P.areas) /\ "Locked" \in Used
      BY DEF Space, Used
    <3>3. 1 \in Nat /\ 1 <= 1
      OBVIOUS
    <3> QED
      BY <2>2, <3>1, <3>2, <3>3, MapPages
  <2> HIDE DEF as, held, used, longer
  <2>5. Backed(as, P.holding_memory)
    BY <2>2, <2>4, TlsShrinks, ShrunkBacked
  <2>6. Q.areas = as /\ TlsMemory(P, Q, held, used)
    BY <2>1 DEF Process, TlsMemory
  <2> QED
    BY <1>2, <2>5, <2>6 DEF TlsMemory, held, used
<1>3. CASE ~NeedsTlsPage(P)
  <2> DEFINE slot == TlsSlot(P)
             more == [slots EXCEPT ![slot[1]] = @ \cup {slot[2]}]
  <2>1. Q = [P EXCEPT !.tls_slots = more]
    BY <1>3 DEF WithTls
  <2> HIDE DEF more
  <2>2. Q.areas = P.areas /\ TlsMemory(P, Q, P.holding_tls_memory, P.memory_used)
    BY <2>1 DEF Process, TlsMemory
  <2> QED
    BY <1>3, <2>2 DEF TlsMemory
<1> QED
  BY <1>2, <1>3

(* A new thread gets a slot that no other has.                             *)
LEMMA ThreadAddedTls ==
    ASSUME MemoryInv, TlsInv, NEW p \in Processes, NEW t \in Threads, thread[t] = NoThread,
           NEW P, Exists(p) => P = process[p],
           NEW Q \in Process, Q.status = "Running", process' = [process EXCEPT ![p] = Q],
           NEW k \in Nat \X Nat, thread' = [thread EXCEPT ![t] = [process |-> p, slot |-> k]],
           \A n, i : IsUsed(Q, n, i) <=> IsUsed(P, n, i) \/ k = <<n, i>>,
           \A n, i : k = <<n, i>> => ~IsUsed(P, n, i), limit'.Thread = limit.Thread + 1
    PROVE  TlsInv'
<1> DEFINE th == [process |-> p, slot |-> k]
<1>1. th.process = p /\ th.slot = k /\ th # NoThread
  <2>1. th \in Thread
    BY DEF Thread
  <2> QED
    BY <2>1, NullAssumption
<1> HIDE DEF th
<1>2. /\ thread'[t] = th /\ \A u \in Threads : u # t => thread'[u] = thread[u]
  <2>1. thread' = [thread EXCEPT ![t] = th]
    BY DEF th
  <2> QED
    BY <2>1 DEF MemoryInv
<1>3. /\ process'[p] = Q /\ \A q \in Processes : q # p => process'[q] = process[q]
  BY DEF MemoryInv
<1>4. Q # NoProcess
  BY ProcessFields
<1>5. ThreadsOf(p)' = ThreadsOf(p) \cup {t} /\ \A q : q # p => ThreadsOf(q)' = ThreadsOf(q)
  BY <1>1, <1>2 DEF ThreadsOf
<1>6. \A q : \A u \in ThreadsOf(q) : u \in Threads /\ u # t /\ thread'[u] = thread[u]
  BY <1>2 DEF ThreadsOf
<1>7. /\ \A u \in Threads : thread[u] # NoThread => Running(thread[u].process)
      /\ \A q \in Live : SlotsMatch(q)
  BY DEF TlsInv
<1>8. SlotsMatch(p)'
  <2>1. ASSUME NEW u \in ThreadsOf(p)
        PROVE  \E n, i : thread[u].slot = <<n, i>> /\ IsUsed(P, n, i)
    <3>1. Exists(p)
      BY <1>7 DEF ThreadsOf, Running
    <3>2. p \in Live
      BY <3>1 DEF Live
    <3> QED
      BY <1>7, <3>1, <3>2 DEF SlotsMatch
  <2>2. ASSUME NEW u \in ThreadsOf(p)'
        PROVE  \E n, i : thread'[u].slot = <<n, i>> /\ IsUsed(Q, n, i)
    <3>1. CASE u = t
      <4>1. PICK n \in Nat, i \in Nat : k = <<n, i>>
        OBVIOUS
      <4>2. IsUsed(Q, n, i)
        BY <4>1
      <4> QED
        BY <1>1, <1>2, <3>1, <4>1, <4>2
    <3>2. CASE u # t
      <4>1. u \in ThreadsOf(p)
        BY <1>5, <2>2, <3>2
      <4>2. PICK n, i : thread[u].slot = <<n, i>> /\ IsUsed(P, n, i)
        BY <2>1, <4>1
      <4>3. thread'[u].slot = <<n, i>> /\ IsUsed(Q, n, i)
        BY <1>6, <4>1, <4>2
      <4> QED
        BY <4>3
    <3> QED
      BY <3>1, <3>2
  <2>3. \A u \in ThreadsOf(p) : thread[u].slot # k
    <3> SUFFICES ASSUME NEW u \in ThreadsOf(p), thread[u].slot = k
                 PROVE  FALSE
      OBVIOUS
    <3>1. PICK n, i : thread[u].slot = <<n, i>> /\ IsUsed(P, n, i)
      BY <2>1
    <3> QED
      BY <3>1
  <2>4. \A u, w \in ThreadsOf(p) : thread[u].slot = thread[w].slot => u = w
    <3> SUFFICES ASSUME NEW u \in ThreadsOf(p), NEW w \in ThreadsOf(p)
                 PROVE  thread[u].slot = thread[w].slot => u = w
      OBVIOUS
    <3>1. p \in Live
      BY <1>7 DEF ThreadsOf, Running, Live
    <3> QED
      BY <1>7, <3>1 DEF SlotsMatch
  <2>5. \A u, w \in ThreadsOf(p)' : thread'[u].slot = thread'[w].slot => u = w
    BY <1>1, <1>2, <1>5, <1>6, <2>3, <2>4
  <2> QED
    BY <1>3, <2>2, <2>5 DEF SlotsMatch
<1>9. ASSUME NEW q \in Live', q # p
      PROVE  SlotsMatch(q)'
  <2>1. q \in Processes /\ process'[q] = process[q]
    BY <1>3, <1>9 DEF Live
  <2>2. q \in Live /\ SlotsMatch(q)
    BY <1>7, <2>1 DEF Live, Exists
  <2>3. ThreadsOf(q)' = ThreadsOf(q) /\ \A u \in ThreadsOf(q) : thread'[u] = thread[u]
    BY <1>5, <1>6, <1>9
  <2> QED
    BY <2>1, <2>2, <2>3 DEF SlotsMatch
<1>10. ASSUME NEW u \in Threads, thread'[u] # NoThread
       PROVE  Running(thread[u].process)'
  <2>1. CASE thread'[u].process = p
    BY <1>3, <1>4, <2>1 DEF Running, Exists
  <2>2. CASE thread'[u].process # p
    <3>1. u # t /\ thread'[u] = thread[u]
      BY <1>1, <1>2, <2>2
    <3>2. Running(thread[u].process)
      BY <1>7, <1>10, <3>1
    <3>3. thread[u].process \in Processes
      BY <1>10, <3>1 DEF MemoryInv, Thread
    <3>4. process'[thread[u].process] = process[thread[u].process]
      BY <1>3, <2>2, <3>1, <3>3
    <3> QED
      BY <3>1, <3>2, <3>4 DEF Running, Exists
  <2> QED
    BY <2>1, <2>2
<1>11. (limit.Thread = Cardinality({u \in Threads : thread[u] # NoThread}))'
  <2> DEFINE T == {u \in Threads : thread[u] # NoThread}
  <2>1. T' = T \cup {t} /\ t \notin T
    BY <1>1, <1>2
  <2>2. IsFiniteSet(T) /\ limit.Thread = Cardinality(T)
    BY BoundsAssumption, FS_Subset DEF TlsInv
  <2> HIDE DEF T
  <2>3. Cardinality(T') = Cardinality(T) + 1
    BY <2>1, <2>2, FS_AddElement
  <2>4. limit'.Thread = Cardinality(T')
    BY <2>2, <2>3
  <2> QED
    BY <2>4 DEF T
<1>12. \A q \in Live' : SlotsMatch(q)'
  BY <1>8, <1>9
<1> QED
  BY <1>10, <1>11, <1>12 DEF TlsInv

LEMMA CreateThreadBooks ==
    ASSUME "exhausts_base" \notin Misuse, MemoryInv, BooksInv, NEW p \in Processes, NEW t \in Threads,
           CreateThread(p, t)
    PROVE  BooksInv'
<1> DEFINE P == process[p]
           F == IF NeedsTlsPage(P) THEN {Lowest(FreeBase)} ELSE {}
           page == IF F = {} THEN 0 ELSE Lowest(F)
           Q == WithTls(P, page)
<1>1. /\ Running(p) /\ Exists(p) /\ thread[t] = NoThread /\ UNCHANGED shared_memory
      /\ NeedsTlsPage(P) => FreeBase # {}
      /\ process' = [process EXCEPT ![p] = Q]
      /\ thread' = [thread EXCEPT ![t] = [process |-> p, slot |-> TlsSlot(P)]]
      /\ Taken(F) /\ limit' = [limit EXCEPT !.Thread = @ + 1]
  BY DEF CreateThread, Running
<1>2. P \in Process /\ Space(P) /\ Backed(P.areas, P.holding_memory) /\ P.status = "Running"
      /\ P.memory_used \in Int
  BY <1>1, LiveBooks, ProcessFields DEF BooksInv, Running
<1>3. HoldingsInv /\ NumbersInv /\ TlsInv /\ failed = FALSE /\ p \in Live
  BY <1>1 DEF BooksInv, Live
<1>4. FreeBase \in SUBSET FCRAM /\ FreeBase \in SUBSET Nat /\ FreeBase \subseteq free_blocks
      /\ FreeBase \subseteq BASE
  <2>1. FreeBase \in SUBSET FCRAM
    BY Layout DEF FreeBase
  <2> QED
    BY <2>1, Numbers DEF FreeBase
<1>5. /\ NeedsTlsPage(P) => F = {page} /\ page \in FreeBase
      /\ ~NeedsTlsPage(P) => F = {}
  <2>1. CASE NeedsTlsPage(P)
    <3>1. Lowest(FreeBase) \in FreeBase
      BY <1>1, <1>4, <2>1, LowestIn
    <3>2. F = {Lowest(FreeBase)} /\ F \in SUBSET Nat /\ F # {} /\ page = Lowest(F)
      BY <1>4, <2>1, <3>1
    <3>3. page \in F
      <4> HIDE DEF F
      <4> QED
        BY <3>2, LowestIn
    <3> QED
      BY <2>1, <3>1, <3>2, <3>3
  <2>2. CASE ~NeedsTlsPage(P)
    BY <2>2
  <2> QED
    BY <2>1, <2>2
<1> HIDE DEF F, page
<1>6. NeedsTlsPage(P) => page \in FCRAM /\ Len(P.tls_slots) < Cardinality(Threads)
  BY <1>1, <1>4, <1>5, TlsRoom
<1>7. /\ Q \in Process /\ TlsSlot(P) \in Nat \X Nat
      /\ \A n, i : IsUsed(Q, n, i) <=> IsUsed(P, n, i) \/ TlsSlot(P) = <<n, i>>
      /\ \A n, i : TlsSlot(P) = <<n, i>> => ~IsUsed(P, n, i)
  <2> HIDE DEF P
  <2> QED
    BY <1>2, <1>6, TlsKept
<1>8. /\ Backed(Q.areas, Q.holding_memory)
      /\ NeedsTlsPage(P) => TlsMemory(P, Q, P.holding_tls_memory \cup {page}, P.memory_used + 1)
      /\ ~NeedsTlsPage(P) => TlsMemory(P, Q, P.holding_tls_memory, P.memory_used)
  <2> HIDE DEF P, Q
  <2>1. Q = WithTls(P, page)
    BY DEF Q
  <2> QED
    BY <1>2, <1>6, <2>1, WithTlsHolds
<1> HIDE DEF Q
<1>9. /\ Q.status = P.status /\ Q.holding_memory = P.holding_memory
      /\ Q.holding_tls_memory = P.holding_tls_memory \cup F
      /\ Q.memory_used = P.memory_used + Cardinality(F)
  <2>1. CASE NeedsTlsPage(P)
    <3>1. Cardinality(F) = 1
      BY <1>5, <2>1, FS_Singleton
    <3> QED
      BY <1>5, <1>8, <2>1, <3>1 DEF TlsMemory
  <2>2. CASE ~NeedsTlsPage(P)
    <3>1. Cardinality(F) = 0
      BY <1>5, <2>2, FS_EmptySet
    <3> QED
      BY <1>2, <1>5, <1>8, <2>2, <3>1 DEF TlsMemory
  <2> QED
    BY <2>1, <2>2
<1>10. F \subseteq free_blocks /\ F \subseteq BASE /\ F \cap APPLICATION = {}
  BY <1>4, <1>5, RegionsApart
<1>11. ProcessHolds(P)
  BY <1>3 DEF HoldingsInv
<1>12. OfProcess(p) = P.holding_memory \cup P.holding_tls_memory /\ HeapOf(p) = P.holding_memory
       /\ UsedBy(p) = P.memory_used
  BY <1>1 DEF OfProcess, HeapOf, UsedBy
<1>13. Grows(p, Q, F)
  <2>1. ProcessHolds(Q)
    BY <1>8, <1>9, <1>10, <1>11 DEF ProcessHolds
  <2>2. free_blocks' = free_blocks \ F
    BY <1>1 DEF Taken
  <2>3. Q.holding_memory = HeapOf(p) \cup (F \cap APPLICATION)
    BY <1>9, <1>10, <1>12
  <2>4. Q.holding_memory \cup Q.holding_tls_memory = OfProcess(p) \cup F
    BY <1>9, <1>12
  <2>5. Q.memory_used = UsedBy(p) + Cardinality(F)
    BY <1>9, <1>12
  <2> QED
    BY <1>1, <1>7, <1>10, <2>1, <2>2, <2>3, <2>4, <2>5 DEF Grows
<1>14. LimitMoves(0, 1, 0) /\ Cardinality(F \cap APPLICATION) = 0
  <2>1. 1 \in Int /\ limit' = [limit EXCEPT !.Thread = @ + 1]
    BY <1>1
  <2>2. LimitMoves(0, 1, 0)
    BY <1>3, <2>1, LimitFieldMoves
  <2> QED
    BY <1>10, <2>2, FS_EmptySet
<1>15. TlsInv'
  <2>1. limit'.Thread = limit.Thread + 1
    BY <1>14 DEF LimitMoves
  <2>2. Q.status = "Running" /\ (Exists(p) => P = process[p])
    BY <1>2, <1>9
  <2> DEFINE k == TlsSlot(P)
  <2>3. thread' = [thread EXCEPT ![t] = [process |-> p, slot |-> k]] /\ k \in Nat \X Nat
    BY <1>1, <1>7
  <2>4. /\ \A n, i : IsUsed(Q, n, i) <=> IsUsed(P, n, i) \/ k = <<n, i>>
        /\ \A n, i : k = <<n, i>> => ~IsUsed(P, n, i)
    BY <1>7
  <2>5. /\ TlsInv /\ thread[t] = NoThread /\ Q \in Process
        /\ process' = [process EXCEPT ![p] = Q]
    BY <1>1, <1>3, <1>7
  <2> HIDE DEF k, P
  <2> QED
    BY <2>1, <2>2, <2>3, <2>4, <2>5, ThreadAddedTls
<1>16. failed' = FALSE
  BY <1>1, <1>3 DEF Taken
<1>17. LimitMoves(Cardinality(F \cap APPLICATION), 1, 0)
  BY <1>14
<1> QED
  BY <1>13, <1>15, <1>16, <1>17, GrowsStep

LEMMA EmptyFits ==
    /\ EmptyProcess \in Process /\ Space(EmptyProcess)
    /\ EmptyProcess.areas = EmptySpace /\ EmptyProcess.tls_slots = <<>>
    /\ EmptyProcess.holding_memory = {} /\ EmptyProcess.holding_tls_memory = {}
    /\ EmptyProcess.memory_used = 0 /\ EmptyProcess.status = "Running"
    /\ Backed(EmptySpace, {}) /\ Vacant(EmptySpace, PROCESS_IMAGE_VADDR, 1)
    /\ Usable(PROCESS_IMAGE_VADDR, 1) /\ PROCESS_IMAGE_VADDR \in Pages
    /\ \A S : Placeable(S, PROCESS_IMAGE_VADDR, 1)
<1>1. /\ EmptyProcess.areas = EmptySpace /\ EmptyProcess.tls_slots = <<>>
      /\ EmptyProcess.holding_memory = {} /\ EmptyProcess.holding_tls_memory = {}
      /\ EmptyProcess.memory_used = 0 /\ EmptyProcess.status = "Running"
  BY DEF EmptyProcess
<1>2. EmptyProcess \in Process
  <2>1. EmptySpace \in SUBSET Area
    BY EmptySpaceTiled, Zenon DEF Tiled
  <2> QED
    BY <2>1 DEF EmptyProcess, Process
<1>3. Space(EmptyProcess)
  <2>1. HEAP_VADDR_END \in Pages
    BY Layout, Numbers DEF Pages
  <2> QED
    BY <1>1, <2>1, EmptySpaceTiled DEF Space
<1>4. PROCESS_IMAGE_VADDR = 0 /\ 0 + 1 <= HEAP_VADDR_END /\ 0 \in Nat /\ 1 \in Nat /\ 1 <= 1
  BY Layout DEF PROCESS_IMAGE_VADDR
<1>5. Usable(PROCESS_IMAGE_VADDR, 1) /\ PROCESS_IMAGE_VADDR \in Pages
  BY <1>4, HeapUsable
<1>6. \A S : Placeable(S, PROCESS_IMAGE_VADDR, 1)
  BY <1>4, HeapPlaceable
<1>7. Vacant(EmptySpace, PROCESS_IMAGE_VADDR, 1)
  <2>1. Tiled(EmptySpace) /\ FreeMerged(EmptySpace) /\ \A v \in Pages : FreePage(EmptySpace, v)
    BY EmptySpaceTiled
  <2>2. 0 + 1 <= MAX_ADDRESS
    BY Numbers
  <2> QED
    BY <1>4, <2>1, <2>2, FreeVacant
<1>8. Backed(EmptySpace, {})
  <2>1. \A v \in Pages : ~OwnPage(EmptySpace, v)
    <3>1. \A v \in Pages : FreePage(EmptySpace, v) /\ At(EmptySpace, v).state = "Free"
      BY EmptySpaceTiled, FreeState
    <3> QED
      BY <3>1 DEF OwnPage, Own
  <2> QED
    BY <2>1 DEF Backed, InMemory, OnceEach, InPlace
<1> QED
  BY <1>1, <1>2, <1>3, <1>5, <1>6, <1>7, <1>8

LEMMA LimitBoth ==
    ASSUME NumbersInv, NEW c \in Int, NEW n \in Int, NEW m \in Int
    PROVE  /\ limit' = [limit EXCEPT !.Commit = @ + c, !.Thread = @ + n] => LimitMoves(c, n, 0)
           /\ limit' = [limit EXCEPT !.Commit = @ - c, !.SharedMemory = @ - m] =>
                 LimitMoves(0 - c, 0, 0 - m)
<1>1. /\ limit \in [Counts -> Int]
      /\ limit.Commit \in Int /\ limit.Thread \in Int /\ limit.SharedMemory \in Int
  BY LimitFields DEF NumbersInv, Counts
<1>2. ASSUME limit' = [limit EXCEPT !.Commit = @ + c, !.Thread = @ + n]
      PROVE  LimitMoves(c, n, 0)
  <2>1. /\ limit'.Commit = limit.Commit + c /\ limit'.Thread = limit.Thread + n
        /\ limit'.SharedMemory = limit.SharedMemory + 0
    BY <1>1, <1>2 DEF Counts
  <2>2. limit' \in [Counts -> Int]
    <3> DEFINE a == limit.Commit + c
               b == limit.Thread + n
    <3>1. a \in Int /\ b \in Int /\ limit' = [limit EXCEPT !.Commit = a, !.Thread = b]
      BY <1>1, <1>2 DEF Counts
    <3> HIDE DEF a, b
    <3> QED
      BY <1>1, <3>1, Zenon
  <2> QED
    BY <2>1, <2>2 DEF LimitMoves
<1>3. ASSUME limit' = [limit EXCEPT !.Commit = @ - c, !.SharedMemory = @ - m]
      PROVE  LimitMoves(0 - c, 0, 0 - m)
  <2>1. /\ limit'.Commit = limit.Commit - c /\ limit'.Thread = limit.Thread
        /\ limit'.SharedMemory = limit.SharedMemory - m
    BY <1>1, <1>3 DEF Counts
  <2>2. limit' \in [Counts -> Int]
    <3> DEFINE a == limit.Commit - c
               b == limit.SharedMemory - m
    <3>1. a \in Int /\ b \in Int /\ limit' = [limit EXCEPT !.Commit = a, !.SharedMemory = b]
      BY <1>1, <1>3 DEF Counts
    <3> HIDE DEF a, b
    <3> QED
      BY <1>1, <3>1, Zenon
  <2>3. /\ limit'.Commit = limit.Commit + (0 - c) /\ limit'.Thread = limit.Thread + 0
        /\ limit'.SharedMemory = limit.SharedMemory + (0 - m)
    BY <1>1, <2>1
  <2> QED
    BY <2>2, <2>3 DEF LimitMoves
<1> QED
  BY <1>2, <1>3

LEMMA RunBooks ==
    ASSUME MemoryInv, BooksInv, NEW p \in Processes, NEW t \in Threads, Run(p, t)
    PROVE  BooksInv'
<1> DEFINE A == free_blocks \cap APPLICATION
           S == IF A = {} THEN {} ELSE HighestPages(A, 1)
           f == Lowest(FreeBase)
           F == S \cup {f}
           n == Cardinality(S)
           P == IF S = {} THEN EmptyProcess
                ELSE WithMemory(EmptyProcess, PROCESS_IMAGE_VADDR, S, "Code", "ReadExecute")
           Q == WithTls(P, f)
           k == TlsSlot(P)
<1>1. /\ ~Exists(p) /\ thread[t] = NoThread /\ FreeBase # {}
      /\ process' = [process EXCEPT ![p] = Q]
      /\ thread' = [thread EXCEPT ![t] = [process |-> p, slot |-> k]]
      /\ Taken(F) /\ UNCHANGED shared_memory
      /\ limit' = [limit EXCEPT !.Commit = @ + n, !.Thread = @ + 1]
  BY DEF Run
<1>2. A \in SUBSET FCRAM /\ A \in SUBSET Nat /\ IsFiniteSet(A) /\ FreeBase \in SUBSET FCRAM
      /\ FreeBase \in SUBSET Nat /\ A \subseteq free_blocks /\ A \subseteq APPLICATION
      /\ FreeBase \subseteq free_blocks /\ FreeBase \subseteq BASE
  <2>1. A \in SUBSET FCRAM /\ FreeBase \in SUBSET FCRAM
    BY Layout DEF FreeBase
  <2>2. FCRAM \in SUBSET Nat /\ IsFiniteSet(FCRAM)
    BY Numbers, FS_Interval
  <2> QED
    BY <2>1, <2>2, FS_Subset DEF FreeBase
<1> HIDE DEF A
<1>3. S \in SUBSET A /\ n \in Nat /\ (S # {} => n = 1) /\ (S = {} => n = 0)
  <2>0. Cardinality({}) = 0
    BY FS_EmptySet
  <2> SUFFICES ASSUME A # {}
               PROVE  HighestPages(A, 1) \in SUBSET A /\ Cardinality(HighestPages(A, 1)) = 1
    BY <2>0
  <2>1. Cardinality(A) \in Nat /\ Cardinality(A) # 0
    BY <1>2, FS_CardinalityType, FS_EmptySet
  <2>2. 1 \in Nat /\ 1 <= Cardinality(A)
    BY <2>1
  <2> QED
    BY <1>2, <2>2, HighestExist
<1>4. f \in FreeBase
  BY <1>1, <1>2, LowestIn
<1>5. HoldingsInv /\ NumbersInv /\ TlsInv /\ failed = FALSE
  BY DEF BooksInv
<1>6. S \in SUBSET FCRAM /\ S \subseteq free_blocks /\ S \subseteq APPLICATION
      /\ f \in free_blocks /\ f \in BASE /\ f \in FCRAM
  BY <1>2, <1>3, <1>4
<1> HIDE DEF S, f
<1>7. "Code" \in Used /\ "ReadExecute" \in Perms
  BY DEF Used, Perms
<1>8. /\ P \in Process /\ Space(P) /\ P.tls_slots = <<>> /\ P.status = "Running"
      /\ P.holding_tls_memory = {} /\ P.holding_memory = S /\ P.memory_used = n
      /\ Backed(P.areas, P.holding_memory)
  <2> DEFINE E == EmptyProcess
  <2>1. /\ E \in Process /\ Space(E) /\ E.areas = EmptySpace /\ E.tls_slots = <<>>
        /\ E.holding_memory = {} /\ E.holding_tls_memory = {}
        /\ E.memory_used = 0 /\ E.status = "Running" /\ Backed(E.areas, E.holding_memory)
        /\ Vacant(E.areas, PROCESS_IMAGE_VADDR, 1) /\ S \cap E.holding_memory = {}
    BY EmptyFits
  <2>2. /\ Usable(PROCESS_IMAGE_VADDR, 1) /\ PROCESS_IMAGE_VADDR \in Pages
        /\ Placeable(S, PROCESS_IMAGE_VADDR, 1)
    BY EmptyFits
  <2>3. CASE S = {}
    <3>1. P = E
      BY <2>3
    <3> HIDE DEF P, E
    <3> QED
      BY <1>3, <2>1, <2>3, <3>1
  <2> SUFFICES ASSUME S # {}
               PROVE  /\ P \in Process /\ Space(P) /\ P.tls_slots = <<>> /\ P.status = "Running"
                      /\ P.holding_tls_memory = {} /\ P.holding_memory = S /\ P.memory_used = n
                      /\ Backed(P.areas, P.holding_memory)
    BY <2>3
  <2>4. P = WithMemory(E, PROCESS_IMAGE_VADDR, S, "Code", "ReadExecute")
    OBVIOUS
  <2> HIDE DEF P, E
  <2>5. P \in Process /\ P.tls_slots = E.tls_slots /\ KeepsSpace(E.areas, P.areas)
    BY <1>3, <1>6, <1>7, <2>1, <2>2, <2>4, WithMemoryKept
  <2>6. Space(P)
    BY <2>1, <2>5, SpaceKept
  <2>7. /\ Alike(E, P) /\ Backed(P.areas, P.holding_memory)
        /\ P.holding_memory = E.holding_memory \cup S
        /\ P.memory_used = E.memory_used + Cardinality(S)
    <3>1. /\ E \in Process /\ Space(E) /\ Backed(E.areas, E.holding_memory)
          /\ Vacant(E.areas, PROCESS_IMAGE_VADDR, 1) /\ S \cap E.holding_memory = {}
      BY <2>1
    <3>2. S \in SUBSET FCRAM /\ Cardinality(S) = 1 /\ "Code" \in Used /\ "ReadExecute" \in Perms
      BY <1>3, <1>6, <1>7
    <3> QED
      BY <2>2, <2>4, <3>1, <3>2, WithMemoryHolds
  <2> QED
    BY <1>3, <2>1, <2>5, <2>6, <2>7 DEF Alike
<1> HIDE DEF P
<1>9. /\ Len(P.tls_slots) = 0 /\ (\A m, i : ~IsUsed(P, m, i)) /\ NeedsTlsPage(P)
      /\ 0 < Cardinality(Threads)
  <2>1. Len(P.tls_slots) = 0 /\ \A m, i : ~IsUsed(P, m, i)
    BY <1>8 DEF IsUsed
  <2>2. NeedsTlsPage(P)
    <3> SUFFICES ASSUME ~NeedsTlsPage(P)
                 PROVE  FALSE
      OBVIOUS
    <3>1. PICK m \in 1..Len(P.tls_slots) : TRUE
      BY <1>8, TlsSlotFits
    <3> QED
      BY <2>1, <3>1
  <2>3. 0 < Cardinality(Threads)
    BY BoundsAssumption, FS_CardinalityType, FS_EmptySet
  <2> QED
    BY <2>1, <2>2, <2>3
<1>10. NeedsTlsPage(P) => f \in FCRAM /\ Len(P.tls_slots) < Cardinality(Threads)
  BY <1>6, <1>9
<1> HIDE DEF Q
<1>11. Q = WithTls(P, f)
  BY DEF Q
<1>12. /\ Q \in Process /\ k \in Nat \X Nat
       /\ \A m, i : IsUsed(Q, m, i) <=> IsUsed(P, m, i) \/ k = <<m, i>>
       /\ \A m, i : k = <<m, i>> => ~IsUsed(P, m, i)
  BY <1>8, <1>10, <1>11, TlsKept
<1>13. /\ Backed(Q.areas, Q.holding_memory)
       /\ NeedsTlsPage(P) => TlsMemory(P, Q, P.holding_tls_memory \cup {f}, P.memory_used + 1)
  BY <1>8, <1>10, <1>11, WithTlsHolds
<1>14. /\ Q.status = "Running" /\ Q.holding_memory = S /\ Q.holding_tls_memory = {f}
       /\ Q.memory_used = n + 1
  BY <1>8, <1>9, <1>13 DEF TlsMemory
<1>15. Grows(p, Q, F)
  <2>1. F \cap APPLICATION = S /\ F \subseteq free_blocks
    BY <1>6, RegionsApart
  <2>2. Cardinality(F) = n + 1
    <3>1. f \notin S /\ IsFiniteSet(S)
      BY <1>2, <1>3, <1>6, RegionsApart, FS_Subset
    <3>2. Cardinality(S \cup {f}) = Cardinality(S) + 1
      BY <3>1, FS_AddElement
    <3> QED
      BY <1>3, <3>2
  <2>3. OfProcess(p) = {} /\ HeapOf(p) = {} /\ UsedBy(p) = 0
    BY <1>1 DEF OfProcess, HeapOf, UsedBy
  <2>4. ProcessHolds(Q)
    BY <1>6, <1>13, <1>14 DEF ProcessHolds
  <2>5. Q.holding_memory \cup Q.holding_tls_memory = OfProcess(p) \cup F
    BY <1>14, <2>3
  <2>6. Q.holding_memory = HeapOf(p) \cup (F \cap APPLICATION)
    BY <1>14, <2>1, <2>3
  <2>7. Q.memory_used = UsedBy(p) + Cardinality(F)
    BY <1>3, <1>14, <2>2, <2>3
  <2>8. free_blocks' = free_blocks \ F
    BY <1>1 DEF Taken
  <2> HIDE DEF F
  <2> QED
    BY <1>1, <1>12, <2>1, <2>4, <2>5, <2>6, <2>7, <2>8 DEF Grows
<1>16. LimitMoves(n, 1, 0) /\ Cardinality(F \cap APPLICATION) = n
  <2>1. F \cap APPLICATION = S
    BY <1>6, RegionsApart
  <2>2. n \in Int /\ 1 \in Int /\ 0 \in Int
    BY <1>3
  <2>3. LimitMoves(n, 1, 0)
    <3> HIDE DEF n
    <3> QED
      BY <1>1, <1>5, <2>2, LimitBoth
  <2> QED
    BY <1>3, <2>1, <2>3
<1>17. TlsInv'
  <2>1. limit'.Thread = limit.Thread + 1
    BY <1>16 DEF LimitMoves
  <2>2. Exists(p) => P = process[p]
    BY <1>1
  <2>3. thread' = [thread EXCEPT ![t] = [process |-> p, slot |-> k]] /\ thread[t] = NoThread
        /\ process' = [process EXCEPT ![p] = Q]
    BY <1>1
  <2> HIDE DEF k
  <2> QED
    BY <1>5, <1>12, <1>14, <2>1, <2>2, <2>3, ThreadAddedTls
<1>18. failed' = FALSE
  BY <1>1, <1>5 DEF Taken
<1> HIDE DEF F
<1>19. LimitMoves(Cardinality(F \cap APPLICATION), 1, 0)
  BY <1>16
<1> QED
  BY <1>15, <1>17, <1>18, <1>19, GrowsStep

(***************************************************************************)
(* Threads that end.                                                       *)
(***************************************************************************)
LEMMA StopBooks ==
    ASSUME MemoryInv, BooksInv, NEW p \in Processes, Exists(p), NEW S \in SUBSET ThreadsOf(p),
           NEW status \in {"Running", "Exited"}, Stop(p, S, status),
           status = "Running" \/ S = ThreadsOf(p), process[p].status = "Running"
    PROVE  BooksInv'
<1> DEFINE P == process[p]
           k == Len(P.tls_slots)
           gone(n) == {thread[t].slot[2] : t \in {u \in S : thread[u].slot[1] = n}}
           slots == [n \in 1..k |-> P.tls_slots[n] \ gone(n)]
           Q == [P EXCEPT !.tls_slots = slots, !.status = status]
           T == {u \in Threads : thread[u] # NoThread}
<1>1. /\ process' = [process EXCEPT ![p] = Q]
      /\ thread' = [t \in Threads |-> IF t \in S THEN NoThread ELSE thread[t]]
      /\ UNCHANGED <<free_blocks, shared_memory>>
      /\ limit' = [limit EXCEPT !.Thread = @ - Cardinality(S)]
      /\ failed' = (failed \/ \E t \in S : thread[t].slot[1] = 0)
  BY DEF Stop, SlotsReset
<1>2. P \in Process /\ P.memory_used \in Int /\ ProcessHolds(P)
  BY LiveProcess, ProcessFields DEF BooksInv, HoldingsInv, Live
<1>3. HoldingsInv /\ NumbersInv /\ TlsInv /\ failed = FALSE /\ p \in Live
  BY DEF BooksInv, Live
<1>4. k \in Nat /\ \A n \in 1..k : P.tls_slots[n] \in SUBSET (0..(TLS_ENTRIES - 1))
  BY <1>2, SlotSets
<1>5. /\ slots \in Seq(SUBSET (0..(TLS_ENTRIES - 1))) /\ Len(slots) = k
      /\ \A n \in 1..k : slots[n] = P.tls_slots[n] \ gone(n)
  <2>1. \A n \in 1..k : slots[n] = P.tls_slots[n] \ gone(n)
    OBVIOUS
  <2>2. slots = [n \in 1..k |-> slots[n]]
    OBVIOUS
  <2> HIDE DEF slots, gone, k
  <2>3. \A n \in 1..k : slots[n] \in SUBSET (0..(TLS_ENTRIES - 1))
    BY <1>4, <2>1
  <2> QED
    BY <1>4, <2>1, <2>2, <2>3, MakeSeq
<1>6. /\ \A t, u \in ThreadsOf(p) : thread[t].slot = thread[u].slot => t = u
      /\ \A t \in ThreadsOf(p) : \E n, i : thread[t].slot = <<n, i>> /\ IsUsed(P, n, i)
  BY <1>3 DEF TlsInv, SlotsMatch
<1>7. ASSUME NEW n, NEW i, IsUsed(P, n, i), NEW u \in ThreadsOf(p), u \notin S,
             thread[u].slot = <<n, i>>
      PROVE  n \in 1..k /\ i \in slots[n]
  <2>1. n \in 1..k /\ i \in P.tls_slots[n]
    BY <1>7 DEF IsUsed
  <2>2. i \notin gone(n)
    <3> SUFFICES ASSUME NEW t \in S, thread[t].slot[1] = n, thread[t].slot[2] = i
                 PROVE  FALSE
      OBVIOUS
    <3>1. PICK m, j : thread[t].slot = <<m, j>>
      BY <1>6
    <3>2. thread[t].slot = <<n, i>>
      BY <3>1
    <3>3. t = u
      BY <1>6, <1>7, <3>2
    <3> QED
      BY <1>7, <3>3
  <2> QED
    BY <1>5, <2>1, <2>2
<1> HIDE DEF slots, P, gone
<1>8. /\ Q \in Process /\ Q.areas = P.areas /\ Q.tls_slots = slots /\ Q # NoProcess
      /\ Q.status = status /\ Q.holding_memory = P.holding_memory
      /\ Q.holding_tls_memory = P.holding_tls_memory /\ Q.memory_used = P.memory_used
  <2>1. /\ Q \in Process /\ Q.areas = P.areas /\ Q.tls_slots = slots
        /\ Q.status = status /\ Q.holding_memory = P.holding_memory
        /\ Q.holding_tls_memory = P.holding_tls_memory /\ Q.memory_used = P.memory_used
    BY <1>2, <1>5 DEF Process
  <2> HIDE DEF Q
  <2> QED
    BY <2>1, ProcessFields
<1> HIDE DEF Q
<1>9. Grows(p, Q, {})
  <2>1. ProcessHolds(Q)
    BY <1>2, <1>8 DEF ProcessHolds
  <2>2. /\ OfProcess(p) = P.holding_memory \cup P.holding_tls_memory
        /\ HeapOf(p) = P.holding_memory /\ UsedBy(p) = P.memory_used
    BY DEF OfProcess, HeapOf, UsedBy, P
  <2>3. Cardinality({}) = 0
    BY FS_EmptySet
  <2>4. /\ Q.holding_memory \cup Q.holding_tls_memory = OfProcess(p) \cup {}
        /\ Q.holding_memory = HeapOf(p) \cup ({} \cap APPLICATION)
    BY <1>8, <2>2
  <2>5. Q.memory_used = UsedBy(p) + Cardinality({})
    BY <1>2, <1>8, <2>2, <2>3
  <2>6. {} \subseteq free_blocks /\ free_blocks' = free_blocks \ {}
    BY <1>1
  <2> QED
    BY <1>1, <1>8, <2>1, <2>4, <2>5, <2>6 DEF Grows
<1>10. /\ process'[p] = Q
       /\ \A q \in Processes : q # p => process'[q] = process[q]
  BY <1>9, GrowsHolds
<1>11. \A u \in Threads : thread'[u] = IF u \in S THEN NoThread ELSE thread[u]
  BY <1>1
<1>12. /\ ThreadsOf(p)' = ThreadsOf(p) \ S
       /\ \A q : q # p => ThreadsOf(q)' = ThreadsOf(q)
       /\ \A u \in Threads : thread'[u] # NoThread => u \notin S /\ thread'[u] = thread[u]
  BY <1>11 DEF ThreadsOf
<1>13. failed' = FALSE
  <2>1. ASSUME NEW t \in S
        PROVE  thread[t].slot[1] # 0
    <3>1. PICK n, i : thread[t].slot = <<n, i>> /\ IsUsed(P, n, i)
      BY <1>6
    <3>2. n # 0 /\ thread[t].slot[1] = n
      BY <3>1 DEF IsUsed
    <3> QED
      BY <3>2
  <2> QED
    BY <1>1, <1>3, <2>1
<1>14. SlotsMatch(p)'
  <2>1. ASSUME NEW u \in ThreadsOf(p)'
        PROVE  \E n, i : thread'[u].slot = <<n, i>> /\ IsUsed(Q, n, i)
    <3>1. u \in ThreadsOf(p) /\ u \notin S /\ thread'[u] = thread[u]
      BY <1>11, <1>12, <2>1 DEF ThreadsOf
    <3>2. PICK n, i : thread[u].slot = <<n, i>> /\ IsUsed(P, n, i)
      BY <1>6, <3>1
    <3>3. n \in 1..k /\ i \in slots[n]
      BY <1>7, <3>1, <3>2
    <3>4. IsUsed(Q, n, i)
      BY <1>5, <1>8, <3>3 DEF IsUsed
    <3> QED
      BY <3>1, <3>2, <3>4
  <2>2. \A u, w \in ThreadsOf(p)' : thread'[u].slot = thread'[w].slot => u = w
    BY <1>6, <1>11, <1>12 DEF ThreadsOf
  <2> QED
    BY <1>10, <2>1, <2>2 DEF SlotsMatch
<1>15. ASSUME NEW q \in Live', q # p
       PROVE  SlotsMatch(q)'
  <2>1. q \in Processes /\ process'[q] = process[q]
    BY <1>10, <1>15 DEF Live
  <2>2. q \in Live /\ SlotsMatch(q)
    BY <1>3, <2>1 DEF Live, Exists, TlsInv
  <2>3. ThreadsOf(q)' = ThreadsOf(q) /\ \A u \in ThreadsOf(q) : thread'[u] = thread[u]
    BY <1>11, <1>12, <1>15 DEF ThreadsOf
  <2> QED
    BY <2>1, <2>2, <2>3 DEF SlotsMatch
<1>16. ASSUME NEW u \in Threads, thread'[u] # NoThread
       PROVE  Running(thread[u].process)'
  <2>1. u \notin S /\ thread'[u] = thread[u] /\ Running(thread[u].process)
        /\ thread[u].process \in Processes
    BY <1>3, <1>12, <1>16 DEF TlsInv, MemoryInv, Thread
  <2>2. CASE thread[u].process = p
    <3>1. u \in ThreadsOf(p)
      BY <1>16, <2>1, <2>2 DEF ThreadsOf
    <3>2. status = "Running"
      BY <2>1, <3>1
    <3> QED
      BY <1>8, <1>10, <2>1, <2>2, <3>2 DEF Running, Exists
  <2>3. CASE thread[u].process # p
    BY <1>10, <2>1, <2>3 DEF Running, Exists
  <2> QED
    BY <2>2, <2>3
<1>17. IsFiniteSet(T) /\ S \subseteq T /\ T' = T \ S /\ limit.Thread = Cardinality(T)
  <2>1. IsFiniteSet(T)
    BY BoundsAssumption, FS_Subset
  <2>2. S \subseteq T
    BY DEF ThreadsOf
  <2>3. T' = T \ S
    BY <1>11
  <2> QED
    BY <1>3, <2>1, <2>2, <2>3 DEF TlsInv
<1> HIDE DEF T
<1>18. /\ Cardinality(S) \in Int /\ Cardinality(T) \in Int
       /\ Cardinality(T') = Cardinality(T) - Cardinality(S)
  <2>1. IsFiniteSet(S) /\ IsFiniteSet(T \ S) /\ (T \ S) \cup S = T /\ (T \ S) \cap S = {}
    BY <1>17, FS_Subset, FS_Difference
  <2>2. Cardinality((T \ S) \cup S) = Cardinality(T \ S) + Cardinality(S) - Cardinality((T \ S) \cap S)
    BY <2>1, FS_Union
  <2>3. Cardinality(S) \in Nat /\ Cardinality(T \ S) \in Nat /\ Cardinality(T) \in Nat
        /\ Cardinality({}) = 0
    BY <1>17, <2>1, FS_CardinalityType, FS_EmptySet
  <2>4. Cardinality(T) = Cardinality(T \ S) + Cardinality(S) - 0
    BY <2>1, <2>2, <2>3
  <2> QED
    BY <1>17, <2>3, <2>4
<1>19. LimitMoves(0, 0 - Cardinality(S), 0)
  BY <1>1, <1>3, <1>18, LimitFalls
<1>20. TlsInv'
  <2>1. \A q \in Live' : SlotsMatch(q)'
    BY <1>14, <1>15
  <2>2. limit'.Thread = Cardinality(T')
    <3>1. limit'.Thread = limit.Thread + (0 - Cardinality(S))
      BY <1>19 DEF LimitMoves
    <3> QED
      BY <1>17, <1>18, <3>1
  <2> QED
    BY <1>16, <2>1, <2>2 DEF TlsInv, T
<1>21. LimitMoves(Cardinality({} \cap APPLICATION), 0 - Cardinality(S), 0)
  <2>1. Cardinality({} \cap APPLICATION) = 0
    BY FS_EmptySet
  <2> QED
    BY <1>19, <2>1
<1> QED
  BY <1>9, <1>13, <1>20, <1>21, GrowsStep

(***************************************************************************)
(* A process that is destroyed.                                            *)
(***************************************************************************)
LEMMA EndedLive ==
    ASSUME MemoryInv, NEW p \in Processes, NEW closed \in SUBSET Blocks, DestroyProcess(p, closed)
    PROVE  /\ Exists(p) /\ process[p].status = "Exited" /\ closed \in SUBSET LiveBlocks
           /\ Live' = Live \ {p} /\ ~Exists(p)'
           /\ \A q \in Processes : q # p => process'[q] = Settled(q, closed)
<1>1. /\ Exists(p) /\ process[p].status = "Exited" /\ \A s \in closed : shared_memory[s] # NoBlock
      /\ process' = [q \in Processes |-> IF q = p THEN NoProcess ELSE Settled(q, closed)]
  BY DEF DestroyProcess
<1>2. ASSUME NEW q \in Processes, q # p
      PROVE  Exists(q)' <=> Exists(q)
  <2>1. process'[q] = Settled(q, closed)
    BY <1>1, <1>2
  <2>2. CASE Exists(q)
    <3>1. Settled(q, closed) \in Process
      BY <1>1, <2>2, SettledKept
    <3> QED
      BY <2>1, <2>2, <3>1, ProcessFields DEF Exists
  <2>3. CASE ~Exists(q)
    <3>1. Returning(q, closed) = {}
      BY <1>1, <2>3, NoneReturning
    <3> QED
      BY <2>1, <2>3, <3>1 DEF Settled, Exists
  <2> QED
    BY <2>2, <2>3
<1>3. ~Exists(p)' /\ \A q \in Processes : q # p => process'[q] = Settled(q, closed)
  BY <1>1 DEF Exists
<1>4. closed \in SUBSET LiveBlocks
  BY <1>1 DEF LiveBlocks
<1>5. Live' = Live \ {p}
  BY <1>2, <1>3 DEF Live
<1> QED
  BY <1>1, <1>3, <1>4, <1>5

Orphaned(b) == [b EXCEPT !.owner_process = NoProcess]

LEMMA OrphanedFields ==
    ASSUME NEW b \in SharedBlock
    PROVE  /\ Orphaned(b) # NoBlock /\ Orphaned(b).owner_process = NoProcess
           /\ Orphaned(b).base_address = b.base_address /\ Orphaned(b).size = b.size
           /\ Orphaned(b).holding_memory = b.holding_memory
           /\ Orphaned(b).backing_blocks = b.backing_blocks
<1> DEFINE c == Orphaned(b)
<1>1. /\ c \in SharedBlock /\ c.owner_process = NoProcess /\ c.base_address = b.base_address
      /\ c.size = b.size /\ c.holding_memory = b.holding_memory
      /\ c.backing_blocks = b.backing_blocks
  BY DEF Orphaned, SharedBlock
<1> HIDE DEF c
<1>2. c # NoBlock
  BY <1>1, NullAssumption
<1> QED
  BY <1>1, <1>2 DEF c

LEMMA EndedBlocks ==
    ASSUME MemoryInv, NEW p \in Processes, NEW closed \in SUBSET Blocks, DestroyProcess(p, closed),
           NEW s \in Blocks
    PROVE  /\ s \in closed => shared_memory'[s] = NoBlock
           /\ s \notin closed =>
                 \/ shared_memory'[s] = shared_memory[s]
                    /\ (shared_memory[s] # NoBlock => shared_memory[s].owner_process # p)
                 \/ /\ shared_memory[s] \in SharedBlock /\ shared_memory[s].owner_process = p
                    /\ shared_memory[s] # NoBlock /\ shared_memory'[s] = Orphaned(shared_memory[s])
<1>1. shared_memory' = [u \in Blocks |->
          IF u \in closed THEN NoBlock
          ELSE IF shared_memory[u] # NoBlock /\ shared_memory[u].owner_process = p
          THEN Orphaned(shared_memory[u]) ELSE shared_memory[u]]
  BY DEF DestroyProcess, Orphaned
<1>2. shared_memory[s] # NoBlock => shared_memory[s] \in SharedBlock
  BY DEF MemoryInv, LiveBlocks, BlockSound, BlockFits
<1>3. CASE s \in closed
  BY <1>1, <1>3
<1>4. CASE s \notin closed /\ shared_memory[s] # NoBlock /\ shared_memory[s].owner_process = p
  BY <1>1, <1>2, <1>4
<1>5. CASE s \notin closed /\ ~(shared_memory[s] # NoBlock /\ shared_memory[s].owner_process = p)
  BY <1>1, <1>5
<1> QED
  BY <1>3, <1>4, <1>5

(* Blocks that are left hold what they held, and count if another made     *)
(* them.                                                                   *)
LEMMA EndedHoldings ==
    ASSUME MemoryInv, NEW p \in Processes, NEW closed \in SUBSET Blocks, DestroyProcess(p, closed),
           NEW s \in Blocks
    PROVE  /\ OfBlock(s)' = IF s \in closed THEN {} ELSE OfBlock(s)
           /\ \A q \in Processes : q # p => (Charges(s, q)' <=> Charges(s, q) /\ s \notin closed)
           /\ s \in LiveBlocks' /\ (s \in LiveBlocks => BlockHolds(shared_memory[s])) =>
                 BlockHolds(shared_memory'[s])
           /\ s \in Counted' => s \in Counted /\ s \notin closed
<1> DEFINE b == shared_memory[s]
<1>1. /\ s \in closed => shared_memory'[s] = NoBlock
      /\ s \notin closed => \/ shared_memory'[s] = b
                            \/ /\ b \in SharedBlock /\ b.owner_process = p /\ b # NoBlock
                               /\ shared_memory'[s] = Orphaned(b)
  BY EndedBlocks
<1>2. CASE s \in closed
  BY <1>1, <1>2 DEF OfBlock, Charges, LiveBlocks, Counted
<1>3. CASE s \notin closed /\ shared_memory'[s] = b
  BY <1>3 DEF OfBlock, Charges, LiveBlocks, Counted, Automatic
<1>4. CASE /\ s \notin closed /\ b \in SharedBlock /\ b.owner_process = p /\ b # NoBlock
           /\ shared_memory'[s] = Orphaned(b)
  <2> DEFINE c == Orphaned(b)
  <2>1. /\ c # NoBlock /\ c.owner_process = NoProcess /\ c.base_address = b.base_address
        /\ c.size = b.size /\ c.holding_memory = b.holding_memory
        /\ c.backing_blocks = b.backing_blocks
    BY <1>4, OrphanedFields
  <2>2. shared_memory'[s] = c
    BY <1>4
  <2> HIDE DEF c
  <2>3. OfBlock(s)' = OfBlock(s)
    BY <1>4, <2>1, <2>2 DEF OfBlock
  <2>4. ASSUME NEW q \in Processes, q # p
        PROVE  Charges(s, q)' <=> Charges(s, q)
    BY <1>4, <2>1, <2>2, <2>4, NullAssumption DEF Charges, Automatic
  <2>5. (s \in LiveBlocks => BlockHolds(b)) => BlockHolds(c)
    BY <1>4, <2>1 DEF LiveBlocks, BlockHolds
  <2>6. s \notin Counted'
    BY <2>1, <2>2 DEF Counted
  <2> QED
    BY <1>4, <2>2, <2>3, <2>4, <2>5, <2>6
<1> QED
  BY <1>1, <1>2, <1>3, <1>4

LEMMA EndedCloses ==
    ASSUME MemoryInv, BooksInv, NEW p \in Processes, NEW closed \in SUBSET Blocks,
           DestroyProcess(p, closed)
    PROVE  /\ Closes(closed, {p}) /\ Free(GivenUp(closed, {p}))
           /\ Committed' = Committed \ process[p].holding_memory
           /\ process[p].holding_memory \subseteq Committed
<1>1. /\ Exists(p) /\ process[p].status = "Exited" /\ closed \in SUBSET LiveBlocks
      /\ Live' = Live \ {p} /\ ~Exists(p)'
      /\ \A q \in Processes : q # p => process'[q] = Settled(q, closed)
  BY EndedLive
<1>2. HoldingsInv /\ Parted
  BY DEF BooksInv, HoldingsInv
<1>3. p \in Live /\ \A q \in Live' : q \in Live /\ q \in Processes /\ q # p
  BY <1>1 DEF Live
<1>4. \A q \in Live' : Keeps(process[q], process'[q])
  BY <1>1, <1>2, <1>3, SettledHolds
<1>5. \A q \in Processes : OfProcess(q)' = IF q \in {p} THEN {} ELSE OfProcess(q)
  <2> SUFFICES ASSUME NEW q \in Processes
               PROVE  OfProcess(q)' = IF q \in {p} THEN {} ELSE OfProcess(q)
    OBVIOUS
  <2>1. CASE q = p
    BY <1>1, <2>1 DEF OfProcess
  <2>2. CASE q # p /\ q \in Live
    <3>1. q \in Live' /\ Exists(q) /\ Exists(q)'
      BY <1>1, <2>2 DEF Live
    <3>2. Keeps(process[q], process'[q])
      BY <1>4, <3>1
    <3> QED
      BY <2>2, <3>1, <3>2 DEF Keeps, Alike, OfProcess
  <2>3. CASE q # p /\ q \notin Live
    <3>1. ~Exists(q) /\ ~Exists(q)'
      BY <1>1, <2>3 DEF Live
    <3> QED
      BY <2>3, <3>1 DEF OfProcess
  <2> QED
    BY <2>1, <2>2, <2>3
<1>6. \A s \in Blocks : /\ OfBlock(s)' = IF s \in closed THEN {} ELSE OfBlock(s)
                        /\ \A q \in Processes : q # p =>
                              (Charges(s, q)' <=> Charges(s, q) /\ s \notin closed)
  BY EndedHoldings
<1>7. Closes(closed, {p})
  BY <1>1, <1>3, <1>5, <1>6 DEF Closes
<1>8. Free(GivenUp(closed, {p}))
  <2>1. Free((process[p].holding_memory \cup process[p].holding_tls_memory)
                 \cup (UNION {shared_memory[s].holding_memory : s \in closed}))
    BY DEF DestroyProcess
  <2>2. UNION {OfProcess(q) : q \in {p}} = process[p].holding_memory \cup process[p].holding_tls_memory
    BY <1>1 DEF OfProcess
  <2>3. \A s \in closed : OfBlock(s) = shared_memory[s].holding_memory
    BY <1>1 DEF OfBlock, LiveBlocks
  <2>4. UNION {OfBlock(s) : s \in closed} = UNION {shared_memory[s].holding_memory : s \in closed}
    BY <2>3
  <2> QED
    BY <2>1, <2>2, <2>4 DEF GivenUp
<1>9. \A q \in Live' : process'[q].holding_memory = process[q].holding_memory
  BY <1>4 DEF Keeps
<1>10. \A q \in Live' : process[q].holding_memory \cap process[p].holding_memory = {}
  <2>1. \A q \in Live : process[q].holding_memory \subseteq OfProcess(q)
    BY DEF Live, OfProcess
  <2>2. \A q \in Live' : OfProcess(q) \cap OfProcess(p) = {}
    BY <1>2, <1>3, HeldApart
  <2> QED
    BY <1>3, <2>1, <2>2
<1>11. \A x : x \in Committed' <=> \E q \in Live' : x \in process'[q].holding_memory
  BY DEF Committed
<1>12. \A x : x \in Committed' <=> x \in Committed /\ x \notin process[p].holding_memory
  <2>1. \A x : x \in Committed' <=> \E q \in Live' : x \in process[q].holding_memory
    BY <1>9, <1>11
  <2>2. \A q : q \in Live <=> q \in Live' \/ q = p
    BY <1>1, <1>3
  <2> QED
    BY <1>10, <2>1, <2>2, CommittedBy
<1>13. Committed' = Committed \ process[p].holding_memory
  <2> DEFINE C == Committed'
  <2>1. \A x : x \in C <=> x \in Committed /\ x \notin process[p].holding_memory
    BY <1>12
  <2> HIDE DEF C
  <2>2. C = Committed \ process[p].holding_memory
    BY <2>1
  <2> QED
    BY <2>2 DEF C
<1>14. process[p].holding_memory \subseteq Committed
  BY <1>3, CommittedBy
<1> QED
  BY <1>7, <1>8, <1>13, <1>14

LEMMA DestroyProcessBooks ==
    ASSUME MemoryInv, BooksInv, NEW p \in Processes, NEW closed \in SUBSET Blocks,
           DestroyProcess(p, closed)
    PROVE  BooksInv'
<1> DEFINE M == process[p].holding_memory
           R == {s \in closed : shared_memory[s].owner_process \notin {p, NoProcess}}
           c == Cardinality(M)
           m == Cardinality(R)
<1>1. /\ Exists(p) /\ process[p].status = "Exited" /\ closed \in SUBSET LiveBlocks
      /\ Live' = Live \ {p}
      /\ \A q \in Processes : q # p => process'[q] = Settled(q, closed)
  BY EndedLive
<1>2. /\ Closes(closed, {p}) /\ Free(GivenUp(closed, {p}))
      /\ Committed' = Committed \ M /\ M \subseteq Committed
  BY EndedCloses
<1>3. HoldingsInv /\ NumbersInv /\ TlsInv /\ Parted
  BY DEF BooksInv, HoldingsInv
<1>4. \A q \in Live' : process'[q] = Settled(q, closed) /\ AtMostOne(Returning(q, closed))
  <2>1. \A q \in Processes \ {p} : \A s, u \in Returning(q, closed) : s = u
    BY DEF DestroyProcess
  <2>2. \A q \in Live' : q \in Processes \ {p}
    BY <1>1 DEF Live
  <2> QED
    BY <1>1, <2>1, <2>2 DEF AtMostOne
<1>5. \A q \in Processes : Running(q) => q \in Live'
  BY <1>1 DEF Running, Live
<1>6. \A s \in LiveBlocks' : BlockHolds(shared_memory'[s])
  <2>1. \A s \in LiveBlocks : BlockHolds(shared_memory[s])
    BY <1>3 DEF HoldingsInv
  <2>2. \A s \in LiveBlocks' : s \in Blocks
    BY DEF LiveBlocks
  <2> QED
    BY <2>1, <2>2, EndedHoldings
<1>7. limit' = [limit EXCEPT !.Commit = @ - c, !.SharedMemory = @ - m] /\ UNCHANGED thread
  BY DEF DestroyProcess
<1>8. Committed \subseteq FCRAM
  <2>1. \A q \in Live : q \in Processes /\ process[q].holding_memory \subseteq OfProcess(q)
    BY DEF Live, OfProcess
  <2> QED
    BY <1>3, <2>1, HeldApart, CommittedBy
<1>9. Cardinality(Committed') = Cardinality(Committed) - c /\ c \in Nat /\ Cardinality(Committed) \in Nat
  <2>1. M \subseteq FCRAM
    BY <1>2, <1>8
  <2> HIDE DEF M
  <2> QED
    BY <1>2, <1>8, <2>1, FewerPages, FcramFinite
<1>10. R \subseteq Counted /\ IsFiniteSet(Counted) /\ \A s : s \in Counted' => s \in Counted \ R
  <2>1. R \subseteq Counted
    BY <1>1 DEF Counted
  <2>2. \A s : s \in Counted' => s \in Blocks
    BY DEF Counted, LiveBlocks
  <2>3. \A s : s \in Counted' => s \in Counted /\ s \notin closed
    BY <2>2, EndedHoldings
  <2> QED
    BY <1>3, <2>1, <2>3 DEF NumbersInv
<1> HIDE DEF M, R
<1>11. IsFiniteSet(R) /\ m \in Nat /\ IsFiniteSet(Counted) /\ Cardinality(Counted) \in Nat
  BY <1>10, FS_Subset, FS_CardinalityType
<1>12. IsFiniteSet(Counted') /\ Cardinality(Counted') <= Cardinality(Counted) - m
  <2> DEFINE N == Counted'
             D == Counted \ R
  <2>1. IsFiniteSet(D) /\ Cardinality(D) = Cardinality(Counted) - Cardinality(Counted \cap R)
    BY <1>11, FS_Difference
  <2>2. Counted \cap R = R
    BY <1>10
  <2>3. N \subseteq D
    BY <1>10
  <2> HIDE DEF N, D
  <2>4. IsFiniteSet(N) /\ Cardinality(N) <= Cardinality(D)
    BY <2>1, <2>3, FS_Subset
  <2>5. Cardinality(D) = Cardinality(Counted) - m
    BY <2>1, <2>2
  <2>6. IsFiniteSet(N) /\ Cardinality(N) <= Cardinality(Counted) - m
    BY <2>4, <2>5
  <2> QED
    BY <2>6 DEF N
<1> HIDE DEF c, m
<1>13. LimitMoves(0 - c, 0, 0 - m)
  <2>1. c \in Int /\ m \in Int /\ 0 \in Int
    BY <1>9, <1>11
  <2> QED
    BY <1>3, <1>7, <2>1, LimitBoth
<1>14. /\ 0 - c \in Int /\ 0 - m \in Int /\ {p} \in SUBSET Processes
       /\ Cardinality(Committed') = Cardinality(Committed) + (0 - c)
       /\ IsFiniteSet(Counted') /\ Cardinality(Counted') <= Cardinality(Counted) + (0 - m)
  <2>1. 0 - c \in Int /\ 0 - m \in Int /\ {p} \in SUBSET Processes
    BY <1>9, <1>11
  <2>2. Cardinality(Committed') = Cardinality(Committed) + (0 - c)
    BY <1>9
  <2>3. Cardinality(Counted) - m = Cardinality(Counted) + (0 - m)
    BY <1>11
  <2>4. IsFiniteSet(Counted') /\ Cardinality(Counted') <= Cardinality(Counted) + (0 - m)
    BY <1>12, <2>3
  <2> QED
    BY <2>1, <2>2, <2>4
<1> QED
  BY <1>2, <1>4, <1>5, <1>6, <1>7, <1>13, <1>14, ClosingStep

(***************************************************************************)
(* The theorems about the books.                                           *)
(***************************************************************************)
(* Guests that give back what they got, wherever they map, lend and start  *)
(* threads only with what is there; they may unmap what does not belong    *)
(* together, close what is mapped and end while they lend.                 *)
InOrder == Misuse \cap {"frees_lent", "maps_anywhere", "lends_unready", "exhausts_base"} = {}

BlocksIndexed == shared_memory = [s \in Blocks |-> shared_memory[s]]

LEMMA BooksInit == Init => BooksInv /\ BlocksIndexed
<1> SUFFICES ASSUME Init
             PROVE  BooksInv /\ BlocksIndexed
  OBVIOUS
<1>1. /\ \A p \in Processes : process[p] = NoProcess
      /\ \A s \in Blocks : shared_memory[s] = NoBlock
      /\ \A t \in Threads : thread[t] = NoThread
      /\ free_blocks = FCRAM /\ failed = FALSE
      /\ limit = [Commit |-> 0, Thread |-> 0, SharedMemory |-> 0]
  BY DEF Init
<1>2. Live = {} /\ LiveBlocks = {} /\ Counted = {}
  BY <1>1 DEF Live, Exists, LiveBlocks, Counted
<1>3. Parted
  <2>1. /\ \A p \in Processes : OfProcess(p) = {}
        /\ \A s \in Blocks : OfBlock(s) = {}
    BY <1>1 DEF OfProcess, Exists, OfBlock
  <2>2. \A h \in Holders : HeldBy(h) = IF h = <<"free", NoProcess>> THEN FCRAM ELSE {}
    <3> SUFFICES ASSUME NEW h \in Holders
                 PROVE  HeldBy(h) = IF h = <<"free", NoProcess>> THEN FCRAM ELSE {}
      OBVIOUS
    <3>1. CASE h = <<"free", NoProcess>>
      BY <1>1, <3>1, TheHolders
    <3>2. CASE \E p \in Processes : h = <<"process", p>>
      BY <2>1, <3>2, TheHolders
    <3>3. CASE \E s \in Blocks : h = <<"block", s>>
      BY <2>1, <3>3, TheHolders
    <3> QED
      BY <3>1, <3>2, <3>3, TheHolders
  <2>3. <<"free", NoProcess>> \in Holders
    BY TheHolders
  <2> QED
    BY <2>2, <2>3 DEF Parted
<1>4. HoldingsInv
  BY <1>2, <1>3 DEF HoldingsInv
<1>5. NumbersInv
  <2>1. IsFiniteSet(Counted) /\ Cardinality(Counted) = 0
    BY <1>2, FS_EmptySet
  <2>2. UNION {process[p].holding_memory : p \in Live} = {}
    BY <1>2
  <2>3. Cardinality(UNION {process[p].holding_memory : p \in Live}) = 0
    BY <2>2, FS_EmptySet
  <2>4. /\ limit \in [{"Commit", "Thread", "SharedMemory"} -> Int]
        /\ limit.Commit = 0 /\ limit.SharedMemory = 0
    BY <1>1
  <2> QED
    BY <1>2, <2>1, <2>3, <2>4 DEF NumbersInv
<1>6. TlsInv
  <2>1. {t \in Threads : thread[t] # NoThread} = {}
    BY <1>1
  <2>2. Cardinality({t \in Threads : thread[t] # NoThread}) = 0
    BY <2>1, FS_EmptySet
  <2>3. limit.Thread = 0
    BY <1>1
  <2> QED
    BY <1>1, <1>2, <2>2, <2>3 DEF TlsInv
<1>7. BlocksIndexed
  BY DEF Init, BlocksIndexed
<1> QED
  BY <1>1, <1>4, <1>5, <1>6, <1>7 DEF BooksInv

LEMMA BooksStay ==
    ASSUME MemoryInv, BooksInv, UNCHANGED vars
    PROVE  BooksInv'
<1>1. UNCHANGED <<process, free_blocks, limit, thread, shared_memory, failed>>
  BY DEF vars
<1>2. HoldingsInv /\ NumbersInv /\ TlsInv /\ failed = FALSE
  BY DEF BooksInv
<1>3. Live' = Live /\ LiveBlocks' = LiveBlocks /\ Counted' = Counted
  BY <1>1 DEF Live, Exists, LiveBlocks, Counted
<1>4. \A h \in Holders : HeldBy(h)' = HeldBy(h)
  BY <1>1 DEF HeldBy, OfProcess, OfBlock, Exists
<1>5. HoldingsInv'
  <2>1. Parted'
    BY <1>2, <1>4, NothingMoved DEF HoldingsInv
  <2> QED
    BY <1>1, <1>2, <1>3, <2>1 DEF HoldingsInv
<1>6. NumbersInv'
  <2>1. \A p : Charged(p)' = Charged(p)
    BY <1>1, <1>3 DEF Charged, Holdings, BlockHoldings, Automatic
  <2> QED
    BY <1>1, <1>2, <1>3, <2>1 DEF NumbersInv
<1>7. TlsInv'
  <2>1. \A q \in Processes : Running(q) => Running(q)'
    BY <1>1 DEF Running, Exists
  <2>2. UNCHANGED thread /\ limit'.Thread = limit.Thread
        /\ \A q \in Live' : q \in Live /\ process'[q].tls_slots = process[q].tls_slots
    BY <1>1, <1>3
  <2> QED
    BY <1>2, <2>1, <2>2, TlsStays
<1> QED
  BY <1>1, <1>2, <1>5, <1>6, <1>7 DEF BooksInv

LEMMA ExitThreadBooks ==
    ASSUME MemoryInv, BooksInv, NEW p \in Processes, NEW t \in Threads, ExitThread(p, t)
    PROVE  BooksInv'
<1>1. /\ Exists(p) /\ process[p].status = "Running" /\ {t} \in SUBSET ThreadsOf(p)
      /\ Stop(p, {t}, "Running") /\ "Running" \in {"Running", "Exited"}
  BY DEF ExitThread, Running
<1> QED
  BY <1>1, StopBooks

LEMMA TerminateProcessBooks ==
    ASSUME MemoryInv, BooksInv, NEW p \in Processes, TerminateProcess(p)
    PROVE  BooksInv'
<1>1. /\ Exists(p) /\ process[p].status = "Running" /\ ThreadsOf(p) \in SUBSET ThreadsOf(p)
      /\ Stop(p, ThreadsOf(p), "Exited") /\ "Exited" \in {"Running", "Exited"}
  BY DEF TerminateProcess, Running
<1> QED
  BY <1>1, StopBooks

LEMMA BooksNext == InOrder /\ MemoryInv /\ BooksInv /\ [Next]_vars => BooksInv'
<1> SUFFICES ASSUME InOrder, MemoryInv, BooksInv, [Next]_vars
             PROVE  BooksInv'
  OBVIOUS
<1> /\ "frees_lent" \notin Misuse /\ "maps_anywhere" \notin Misuse
    /\ "lends_unready" \notin Misuse /\ "exhausts_base" \notin Misuse
  BY DEF InOrder
<1>1. ASSUME NEW p \in Processes, NEW size \in Sizes, NEW v \in Heap(size),
             NEW perms \in Permissions,
             HeapAllocate(p, v, size, perms) \/ Protect(p, v, size, perms)
      PROVE  BooksInv'
  BY <1>1, HeapAllocateBooks, ProtectBooks
<1>2. ASSUME NEW p \in Processes, NEW size \in Sizes, NEW v \in Heap(size),
             HeapFree(p, v, size)
      PROVE  BooksInv'
  BY <1>2, HeapFreeBooks
<1>3. ASSUME NEW p \in Processes, NEW size \in Sizes, NEW v \in Heap(size), NEW s \in Blocks,
             CreateFromHeap(p, s, v, size, "ReadWrite")
      PROVE  BooksInv'
  BY <1>3, CreateFromHeapBooks
<1>4. ASSUME NEW p \in Processes, NEW size \in Sizes, NEW v \in Heap(size),
             NEW w \in Targets(size),
             Map(p, w, v, size, "ReadWrite") \/ Unmap(p, w, v, size, "ReadWrite")
      PROVE  BooksInv'
  BY <1>4, MapBooks, UnmapBooks
<1>5. ASSUME NEW p \in Processes, NEW size \in Sizes,
             \/ LinearAllocate(p, size, "ReadWrite")
             \/ \E v \in LinearHeap(size) : LinearFree(p, v, size)
             \/ \E s \in Blocks : CreateAutomatic(p, s, size)
      PROVE  BooksInv'
  BY <1>5, LinearAllocateBooks, LinearFreeBooks, CreateAutomaticBooks
<1>6. ASSUME NEW p \in Processes, NEW s \in Blocks,
             \/ \E v \in Heap(1) \cup {0} : MapBlock(p, s, v, "ReadWrite")
             \/ \E v \in Heap(1) : UnmapBlock(p, s, v)
      PROVE  BooksInv'
  BY <1>6, MapBlockBooks, UnmapBlockBooks
<1>7. ASSUME NEW s \in Blocks, DestroyBlock(s)
      PROVE  BooksInv'
  BY <1>7, DestroyBlockBooks
<1>8. ASSUME NEW p \in Processes, NEW t \in Threads,
             Run(p, t) \/ CreateThread(p, t) \/ ExitThread(p, t)
      PROVE  BooksInv'
  BY <1>8, RunBooks, CreateThreadBooks, ExitThreadBooks
<1>9. ASSUME NEW p \in Processes, TerminateProcess(p)
      PROVE  BooksInv'
  BY <1>9, TerminateProcessBooks
<1>10. ASSUME NEW p \in Processes, NEW closed \in SUBSET Blocks, DestroyProcess(p, closed)
       PROVE  BooksInv'
  BY <1>10, DestroyProcessBooks
<1>11. CASE UNCHANGED vars
  BY <1>11, BooksStay
<1> QED
  BY <1>1, <1>2, <1>3, <1>4, <1>5, <1>6, <1>7, <1>8, <1>9, <1>10, <1>11 DEF Next

LEMMA BlocksNext == BlocksIndexed /\ DOMAIN shared_memory = Blocks /\ [Next]_vars => BlocksIndexed'
<1> SUFFICES ASSUME BlocksIndexed, DOMAIN shared_memory = Blocks, [Next]_vars
             PROVE  BlocksIndexed'
  OBVIOUS
<1>1. ASSUME shared_memory' = shared_memory
      PROVE  BlocksIndexed'
  BY <1>1 DEF BlocksIndexed
<1>2. ASSUME NEW s \in Blocks, NEW b, shared_memory' = [shared_memory EXCEPT ![s] = b]
      PROVE  BlocksIndexed'
  BY <1>2 DEF BlocksIndexed
<1>3. ASSUME NEW p \in Processes, NEW size \in Sizes, NEW v, NEW w, NEW perms,
             \/ HeapAllocate(p, v, size, perms) \/ HeapFree(p, v, size)
             \/ LinearAllocate(p, size, perms) \/ LinearFree(p, v, size)
             \/ Protect(p, v, size, perms)
             \/ Map(p, w, v, size, perms) \/ Unmap(p, w, v, size, perms)
      PROVE  BlocksIndexed'
  <2>1. UNCHANGED shared_memory
    BY <1>3 DEF HeapAllocate, HeapFree, LinearAllocate, LinearFree, Protect, Map, Unmap
  <2> QED
    BY <1>1, <2>1
<1>4. ASSUME NEW p \in Processes, NEW s \in Blocks, NEW size \in Sizes, NEW v, NEW perms,
             CreateAutomatic(p, s, size) \/ CreateFromHeap(p, s, v, size, perms)
      PROVE  BlocksIndexed'
  BY <1>1, <1>2, <1>4 DEF CreateAutomatic, CreateFromHeap
<1>5. ASSUME NEW p \in Processes, NEW s \in Blocks, NEW v, NEW perms,
             MapBlock(p, s, v, perms) \/ UnmapBlock(p, s, v)
      PROVE  BlocksIndexed'
  BY <1>1, <1>5 DEF MapBlock, UnmapBlock
<1>6. ASSUME NEW s \in Blocks, DestroyBlock(s)
      PROVE  BlocksIndexed'
  BY <1>2, <1>6 DEF DestroyBlock
<1>7. ASSUME NEW p \in Processes, NEW t \in Threads,
             Run(p, t) \/ CreateThread(p, t) \/ ExitThread(p, t)
      PROVE  BlocksIndexed'
  BY <1>1, <1>7 DEF Run, CreateThread, ExitThread, Stop
<1>8. ASSUME NEW p \in Processes, TerminateProcess(p)
      PROVE  BlocksIndexed'
  BY <1>1, <1>8 DEF TerminateProcess, Stop
<1>9. ASSUME NEW p \in Processes, NEW closed \in SUBSET Blocks, DestroyProcess(p, closed)
      PROVE  BlocksIndexed'
  BY <1>9 DEF DestroyProcess, BlocksIndexed
<1>10. CASE UNCHANGED vars
  BY <1>1, <1>10 DEF vars
<1> QED
  BY <1>3, <1>4, <1>5, <1>6, <1>7, <1>8, <1>9, <1>10 DEF Next

LEMMA BooksAccount == MemoryInv /\ BooksInv => Accounting
<1> SUFFICES ASSUME MemoryInv, BooksInv
             PROVE  Accounting
  OBVIOUS
<1>1. HoldingsInv /\ NumbersInv /\ TlsInv /\ Parted /\ ~failed
  BY DEF BooksInv, HoldingsInv
<1>2. FcramConserved
  BY <1>1, PartedConserved
<1>3. BooksBalance
  BY <1>1 DEF NumbersInv, TlsInv, BooksBalance
<1>4. TlsSlotsExact
  <2> SUFFICES ASSUME NEW p \in Live
               PROVE  /\ \A t, u \in ThreadsOf(p) : t # u => thread[t].slot # thread[u].slot
                      /\ {thread[t].slot : t \in ThreadsOf(p)} =
                            UNION {{<<n, i>> : i \in process[p].tls_slots[n]} :
                                      n \in 1..Len(process[p].tls_slots)}
    BY DEF TlsSlotsExact
  <2>1. SlotsMatch(p) /\ SlotsOwned(p)
    BY <1>1 DEF TlsInv, MemoryInv
  <2>2. \A t, u \in ThreadsOf(p) : t # u => thread[t].slot # thread[u].slot
    BY <2>1 DEF SlotsMatch
  <2> DEFINE A == {thread[t].slot : t \in ThreadsOf(p)}
             B == UNION {{<<n, i>> : i \in process[p].tls_slots[n]} :
                            n \in 1..Len(process[p].tls_slots)}
  <2>3. \A x : x \in B <=> \E n \in 1..Len(process[p].tls_slots) :
                               \E i \in process[p].tls_slots[n] : x = <<n, i>>
    OBVIOUS
  <2>4. \A x : x \in A <=> \E t \in ThreadsOf(p) : x = thread[t].slot
    OBVIOUS
  <2> HIDE DEF A, B
  <2>5. ASSUME NEW x, x \in A
        PROVE  x \in B
    <3>1. PICK t \in ThreadsOf(p) : x = thread[t].slot
      BY <2>4, <2>5
    <3>2. PICK n, i : thread[t].slot = <<n, i>> /\ IsUsed(process[p], n, i)
      BY <2>1 DEF SlotsMatch
    <3> QED
      BY <2>3, <3>1, <3>2 DEF IsUsed
  <2>6. ASSUME NEW x, x \in B
        PROVE  x \in A
    <3>1. PICK n \in 1..Len(process[p].tls_slots) :
              \E i \in process[p].tls_slots[n] : x = <<n, i>>
      BY <2>3, <2>6
    <3>2. PICK i \in process[p].tls_slots[n] : x = <<n, i>>
      BY <3>1
    <3>3. PICK t \in ThreadsOf(p) : thread[t].slot = <<n, i>>
      BY <2>1 DEF SlotsOwned
    <3> QED
      BY <2>4, <3>2, <3>3
  <2>7. A = B
    BY <2>5, <2>6
  <2> QED
    BY <2>2, <2>7 DEF A, B
<1> QED
  BY <1>1, <1>2, <1>3, <1>4 DEF Accounting, NoAssertionFails

LEMMA BooksTyped == MemoryInv /\ BooksInv /\ BlocksIndexed => TypeOK
<1> SUFFICES ASSUME MemoryInv, BooksInv, BlocksIndexed
             PROVE  TypeOK
  OBVIOUS
<1>1. HoldingsInv /\ NumbersInv /\ TlsInv /\ Parted /\ failed \in BOOLEAN
  BY DEF BooksInv, HoldingsInv
<1>2. limit \in [{"Commit", "Thread", "SharedMemory"} -> Nat]
  <2>1. limit \in [{"Commit", "Thread", "SharedMemory"} -> Int]
    BY <1>1 DEF NumbersInv
  <2>2. limit.Commit \in Nat
    <3>1. \A q \in Live : q \in Processes /\ process[q].holding_memory \subseteq OfProcess(q)
      BY DEF Live, OfProcess
    <3>2. Committed \subseteq FCRAM
      BY <1>1, <3>1, HeldApart, CommittedBy
    <3> QED
      BY <1>1, <3>2, LimitFields, FcramFinite
  <2>3. limit.Thread \in Nat
    <3> DEFINE T == {t \in Threads : thread[t] # NoThread}
    <3>1. T \subseteq Threads /\ limit.Thread = Cardinality(T)
      BY <1>1 DEF TlsInv
    <3> HIDE DEF T
    <3>2. IsFiniteSet(T)
      BY <3>1, BoundsAssumption, FS_Subset
    <3> QED
      BY <3>1, <3>2, FS_CardinalityType
  <2>4. limit.SharedMemory \in Nat
    <3>1. Cardinality(Counted) \in Nat /\ limit.SharedMemory >= Cardinality(Counted)
          /\ limit.SharedMemory \in Int
      BY <1>1, LimitFields, FS_CardinalityType DEF NumbersInv
    <3> QED
      BY <3>1
  <2> QED
    BY <2>1, <2>2, <2>3, <2>4
<1>3. shared_memory \in [Blocks -> SharedBlock \cup {NoBlock}]
  <2>1. \A s \in Blocks : shared_memory[s] \in SharedBlock \cup {NoBlock}
    BY DEF MemoryInv, LiveBlocks, BlockSound, BlockFits
  <2> QED
    BY <2>1 DEF BlocksIndexed
<1>4. ASSUME NEW p \in Live
      PROVE  /\ process[p] \in Process /\ process[p].memory_used \in Nat
             /\ process[p].holding_memory \subseteq APPLICATION
             /\ process[p].holding_tls_memory \subseteq BASE
  <2>1. process[p] \in Process
    BY DEF MemoryInv, Live, Exists
  <2>2. process[p].memory_used \in Nat
    BY <1>1, ChargedFinite DEF NumbersInv
  <2>3. ProcessHolds(process[p])
    BY <1>1 DEF HoldingsInv
  <2> QED
    BY <2>1, <2>2, <2>3 DEF ProcessHolds
<1>5. free_blocks \subseteq FCRAM /\ thread \in [Threads -> Thread \cup {NoThread}]
  BY DEF MemoryInv
<1> QED
  BY <1>1, <1>2, <1>3, <1>4, <1>5 DEF TypeOK

(* Through any order of allocating, lending, freeing and ending, each page *)
(* of FCRAM is free or held once; memory_used of every process and the     *)
(* shared limit agree with what is held; no two threads share a slot of    *)
(* thread-local storage; and no assertion fails (memory.cpp:181-269,       *)
(* process.cpp:325-327, 354-355, 429-497, 600-620): for every size of the  *)
(* heap, of FCRAM and of a call, and any number of processes, threads and  *)
(* blocks, among guests that are in order.                                 *)
THEOREM BooksAlwaysBalance == ASSUME InOrder PROVE Spec => []Accounting
<1>1. Init => MemoryInv /\ BooksInv
  BY MemoryInit, BooksInit
<1>2. MemoryInv /\ BooksInv /\ [Next]_vars => (MemoryInv /\ BooksInv)'
  BY MemoryNext, BooksNext
<1>3. MemoryInv /\ BooksInv => Accounting
  BY BooksAccount
<1> QED
  BY <1>1, <1>2, <1>3, PTL DEF Spec

(* Among the same guests every variable has its type and no count, of      *)
(* memory, threads or blocks, goes below zero (process.cpp:355, 620,       *)
(* shared_memory.cpp:26-33, thread.cpp:119).                               *)
THEOREM MemoryTypeCorrect == ASSUME InOrder PROVE Spec => []TypeOK
<1>1. Init => MemoryInv /\ BooksInv /\ BlocksIndexed
  BY MemoryInit, BooksInit
<1>2. MemoryInv /\ BooksInv /\ BlocksIndexed /\ [Next]_vars =>
          (MemoryInv /\ BooksInv /\ BlocksIndexed)'
  <2>1. MemoryInv => DOMAIN shared_memory = Blocks
    BY DEF MemoryInv
  <2> QED
    BY <2>1, MemoryNext, BooksNext, BlocksNext
<1>3. MemoryInv /\ BooksInv /\ BlocksIndexed => TypeOK
  BY BooksTyped
<1> QED
  BY <1>1, <1>2, <1>3, PTL DEF Spec
=============================================================================

---- MODULE LibraryViews_proofs ----
(***************************************************************************)
(* What the views of nhddl's library keep: lemmas about the operations of  *)
(* CoverCache and GridPages, for a cache and a page of any size and a list *)
(* of any length.  Library_proofs puts them together.                      *)
(***************************************************************************)
EXTENDS CoverCache, GridPages, TLAPS, FiniteSetTheorems

----------------------------------------------------------------------------
(* Counting up: the least number of a set, what holds from step to step,   *)
(* and that a recursive function over an interval exists.                  *)

LEMMA LeastNat ==
    ASSUME NEW T \in SUBSET Nat, T # {}
    PROVE  \E n \in T : \A m \in T : n <= m
<1> DEFINE R == OpToRel(<, Nat)
<1>1. \A i, j \in Nat : i < j => <<i, j>> \in R
  BY DEF OpToRel
<1>2. IsWellFoundedOn(R, Nat)
  BY NatLessThanWellFounded
<1> HIDE DEF R
<1>3. PICK n \in T : \A y \in T : <<y, n>> \notin R
  BY <1>2, WFMin
<1>4. \A m \in T : m \in Nat /\ n \in Nat /\ ~ (m < n)
  BY <1>1, <1>3
<1>5. \A m \in T : n <= m
  BY <1>4
<1> QED BY <1>3, <1>5

LEMMA MinIsLeast ==
    ASSUME NEW T \in SUBSET Nat, T # {}
    PROVE  Min(T) \in T /\ \A m \in T : Min(T) <= m
BY LeastNat DEF Min

LEMMA UpTo ==
    ASSUME NEW n \in Nat, NEW T, NEW f, f[0] \in T,
           \A k \in 1 .. n : f[k - 1] \in T => f[k] \in T
    PROVE  \A k \in 0 .. n : f[k] \in T
<1> DEFINE B == {k \in 0 .. n : f[k] \notin T}
<1>1. SUFFICES ASSUME B # {} PROVE FALSE
  OBVIOUS
<1>2. PICK k \in B : \A m \in B : k <= m
  <2>1. B \in SUBSET Nat
    OBVIOUS
  <2> HIDE DEF B
  <2> QED BY <1>1, <2>1, LeastNat
<1>3. k \in 0 .. n /\ f[k] \notin T /\ k # 0
  BY <1>2
<1>4. k - 1 \notin B
  BY <1>2, <1>3
<1>5. f[k - 1] \in T
  BY <1>3, <1>4
<1> QED BY <1>3, <1>5

\* f is the run of `step` from `start` through n steps, within T.
Run(f, n, T, start, step) ==
    /\ f \in [0 .. n -> T] /\ f[0] = start
    /\ \A k \in 1 .. n : f[k] = step[f[k - 1]][k - 1]

LEMMA RunExists ==
    ASSUME NEW n \in Nat, NEW T, NEW start \in T,
           NEW step \in [T -> [0 .. n - 1 -> T]]
    PROVE  \E f : Run(f, n, T, start, step)
<1> DEFINE Is(f, m) == Run(f, m, T, start, step)
           B == {m \in 0 .. n : ~ \E f : Is(f, m)}
<1>1. SUFFICES ASSUME B # {} PROVE FALSE
  BY n \in 0 .. n
<1>2. PICK m \in B : \A k \in B : m <= k
  <2>1. B \in SUBSET Nat
    OBVIOUS
  <2> HIDE DEF B
  <2> QED BY <1>1, <2>1, LeastNat
<1>3. m \in 0 .. n /\ ~ \E f : Is(f, m)
  BY <1>2
<1>4. m # 0
  <2> DEFINE g == [k \in 0 .. 0 |-> start]
  <2>1. g \in [0 .. 0 -> T] /\ g[0] = start /\ 1 .. 0 = {}
    OBVIOUS
  <2> HIDE DEF g
  <2>2. Is(g, 0)
    BY <2>1 DEF Run
  <2> QED BY <2>2, <1>3
<1>5. m - 1 \in 0 .. n /\ m \in 1 .. n /\ m - 1 \notin B
  <2>1. m - 1 \in 0 .. n /\ m \in 1 .. n /\ ~ (m <= m - 1)
    BY <1>3, <1>4
  <2> HIDE DEF B
  <2> QED BY <2>1, <1>2
<1>6. PICK f : Run(f, m - 1, T, start, step)
  BY <1>5
<1> DEFINE g == [k \in 0 .. m |-> IF k = m THEN step[f[m - 1]][m - 1] ELSE f[k]]
<1>7. f[m - 1] \in T /\ m - 1 \in 0 .. n - 1
  BY <1>6, <1>5 DEF Run
<1>8. step[f[m - 1]][m - 1] \in T
  BY <1>7
<1>9. g \in [0 .. m -> T]
  <2>1. \A k \in 0 .. m : g[k] \in T
    BY <1>6, <1>8, <1>5 DEF Run
  <2> QED BY <2>1
<1>10. g[0] = start
  BY <1>5, <1>6 DEF Run
<1>11. ASSUME NEW k \in 1 .. m PROVE g[k] = step[g[k - 1]][k - 1]
  <2>1. CASE k = m
    BY <2>1, <1>5
  <2>2. CASE k # m
    BY <2>2, <1>5, <1>6 DEF Run
  <2> QED BY <2>1, <2>2
<1>12. Is(g, m)
  BY <1>9, <1>10, <1>11 DEF Run
<1> QED BY <1>12, <1>3

----------------------------------------------------------------------------
(* A slot of the cover cache.                                              *)

SlotTypes == [target : Int, tried : BOOLEAN, loaded : BOOLEAN, full : BOOLEAN,
              src : Int, mem : {"none", "source", "thumb"}, vram : BOOLEAN]

\* A cover that is drawn has pixels; one at full size in video memory is
\* drawn; nothing is kept for a slot that was not tried or stands for no title.
GoodSlots ==
    {s \in SlotTypes :
       /\ s.loaded => s.src # NoTitle
       /\ s.src # NoTitle => s.tried /\ s.target >= 0
       /\ s.src = NoTitle => s.mem = "none" /\ ~s.vram
       /\ s.vram /\ s.mem = "source" => s.loaded}

\* The cover is that of the title the slot stands for.
Fitting(titles) ==
    {s \in GoodSlots : s.src # NoTitle => s.src = TitleAt(titles, s.target)}

Big(s) == s.loaded /\ s.mem = "source"

LEMMA EmptyIsGood ==
    ASSUME NEW target \in Int
    PROVE  /\ EmptySlot \in GoodSlots /\ EmptySlot \in SlotTypes
           /\ EmptySlot.mem = "none" /\ EmptySlot.full = FALSE
           /\ [EmptySlot EXCEPT !.target = target] \in GoodSlots
           /\ EmptySlot.src = NoTitle /\ ~EmptySlot.loaded /\ ~EmptySlot.vram
           /\ [EmptySlot EXCEPT !.target = target].src = NoTitle
           /\ [EmptySlot EXCEPT !.target = target].target = target
           /\ ~[EmptySlot EXCEPT !.target = target].vram
<1>1. EmptySlot \in SlotTypes
  BY DEF EmptySlot, SlotTypes, NoTitle
<1>2. /\ EmptySlot.src = NoTitle /\ ~EmptySlot.loaded /\ ~EmptySlot.vram
      /\ EmptySlot.mem = "none"
  BY DEF EmptySlot
<1> DEFINE e == [EmptySlot EXCEPT !.target = target]
<1>3. /\ e \in SlotTypes /\ e.src = NoTitle /\ ~e.loaded /\ ~e.vram
      /\ e.mem = "none" /\ e.target = target
  BY <1>1, <1>2 DEF SlotTypes
<1> HIDE DEF e
<1>4. EmptySlot \in GoodSlots /\ e \in GoodSlots
  BY <1>1, <1>2, <1>3 DEF GoodSlots
<1>5. EmptySlot.full = FALSE
  BY DEF EmptySlot
<1> QED BY <1>1, <1>2, <1>3, <1>4, <1>5 DEF e

\* A cover changes size: never its title, and demoted it is not full-size.
LEMMA ResizedSlot ==
    ASSUME NEW s \in GoodSlots, NEW selected \in BOOLEAN, NEW fails \in BOOLEAN
    PROVE  LET r == Resized(s, selected, fails)
           IN  /\ r \in GoodSlots
               /\ r.target = s.target /\ r.src = s.src /\ r.tried = s.tried
               /\ r.loaded => s.loaded
               /\ ~selected => ~Big(r)
<1> DEFINE r == Resized(s, selected, fails)
<1>1. CASE ~s.loaded \/ s.src = NoTitle
  BY <1>1 DEF Resized, Big, GoodSlots
<1>2. CASE ~(~s.loaded \/ s.src = NoTitle)
  <2>1. CASE s.full = selected /\ (selected \/ s.mem # "source")
    <3>1. r = [s EXCEPT !.vram = TRUE]
      BY <1>2, <2>1 DEF Resized
    <3> QED BY <1>2, <2>1, <3>1 DEF Big, GoodSlots, SlotTypes
  <2>2. CASE ~(s.full = selected /\ (selected \/ s.mem # "source")) /\ selected
    <3>1. r = [s EXCEPT !.mem = "source", !.vram = TRUE, !.full = TRUE]
      BY <1>2, <2>2 DEF Resized
    <3> QED BY <1>2, <2>2, <3>1 DEF Big, GoodSlots, SlotTypes
  <2>3. CASE ~(s.full = selected /\ (selected \/ s.mem # "source")) /\ ~selected
    <3>1. CASE fails
      <4>1. r = [s EXCEPT !.mem = "source", !.vram = FALSE, !.full = TRUE,
                          !.loaded = FALSE]
        BY <1>2, <2>3, <3>1 DEF Resized
      <4> QED BY <1>2, <2>3, <4>1 DEF Big, GoodSlots, SlotTypes
    <3>2. CASE ~fails
      <4>1. r = [s EXCEPT !.mem = "thumb", !.vram = TRUE, !.full = FALSE]
        BY <1>2, <2>3, <3>2 DEF Resized
      <4> QED BY <1>2, <2>3, <4>1 DEF Big, GoodSlots, SlotTypes
    <3> QED BY <3>1, <3>2
  <2> QED BY <2>1, <2>2, <2>3
<1> QED BY <1>1, <1>2

LEMMA TitlesAreNumbers ==
    \A title \in Art : title \in Int /\ title # NoTitle
BY NavigationAssumption DEF NoTitle

\* A cover that was not tried is loaded as a thumbnail.
LEMMA TriedSlot ==
    ASSUME NEW s \in GoodSlots, ~s.tried, s.target >= 0, NEW title,
           NEW fails \in BOOLEAN
    PROVE  LET r == Resized(Tried(s, title), FALSE, fails)
           IN  /\ r \in GoodSlots /\ r.target = s.target
               /\ r.src # NoTitle => r.src = title
               /\ ~Big(r)
<1> DEFINE d == Tried(s, title)
<1>1. /\ d \in GoodSlots /\ d.target = s.target
      /\ d.src # NoTitle => d.src = title
  <2>1. CASE title \in Art
    <3>1. title \in Int /\ title # NoTitle
      BY <2>1, TitlesAreNumbers
    <3>2. d = [[s EXCEPT !.tried = TRUE] EXCEPT !.src = title, !.mem = "source",
                                                !.loaded = TRUE]
      BY <2>1 DEF Tried, Decoded
    <3> QED BY <3>1, <3>2 DEF GoodSlots, SlotTypes
  <2>2. CASE title \notin Art
    <3>1. d = [s EXCEPT !.tried = TRUE]
      BY <2>2 DEF Tried, Decoded
    <3> QED BY <3>1 DEF GoodSlots, SlotTypes
  <2> QED BY <2>1, <2>2
<1> HIDE DEF d
<1>2. LET r == Resized(d, FALSE, fails)
      IN  r \in GoodSlots /\ r.target = d.target /\ r.src = d.src /\ ~Big(r)
  BY <1>1, ResizedSlot
<1> QED BY <1>1, <1>2 DEF d

LEMMA WrapRange ==
    ASSUME NEW total \in Nat, total # 0, NEW i \in Int
    PROVE  NavWrap(total, i) \in 0 .. total - 1
BY DEF NavWrap

\* A slot that is loaded with its neighbours keeps the cover at full size only
\* where the focus is or goes.
LEMMA EntrySlot ==
    ASSUME NEW titles, Len(titles) \in Nat \ {0}, NEW selected \in Int,
           NEW i \in CoverSlots, NEW bad
    PROVE  LET e == LoadedEntry(titles, selected, i, bad)
           IN  /\ e \in Fitting(titles) /\ e.tried
               /\ e.target = NavWrap(Len(titles), selected + i - CoverFocus)
               /\ e.vram /\ e.mem = "source" => i \in {CoverFocus - 1, CoverFocus}
<1> DEFINE target == NavWrap(Len(titles), selected + i - CoverFocus)
           title == TitleAt(titles, target)
           near == i \in {CoverFocus - 1, CoverFocus}
           d == Decoded(EmptySlot, title)
           r == Resized(d, near, i \in bad)
           e == LoadedEntry(titles, selected, i, bad)
<1>1. target \in Int /\ target >= 0
  <2>1. selected + i - CoverFocus \in Int
    BY NavigationAssumption DEF CoverSlots
  <2>2. Len(titles) \in Nat /\ Len(titles) # 0
    OBVIOUS
  <2>3. target \in 0 .. Len(titles) - 1
    BY <2>1, <2>2, WrapRange
  <2> QED BY <2>2, <2>3
<1>2. e = [r EXCEPT !.loaded = title \in Art, !.target = target, !.tried = TRUE]
  BY DEF LoadedEntry
<1> HIDE DEF target, e
<1>3. CASE title \notin Art
  <2>1. r = EmptySlot
    BY <1>3 DEF Decoded, Resized, EmptySlot
  <2> HIDE DEF r
  <2>2. /\ e \in SlotTypes /\ ~e.loaded /\ e.src = NoTitle /\ e.mem = "none"
        /\ ~e.vram /\ e.tried /\ e.target = target
    <3> HIDE DEF title
    <3>1. e = [EmptySlot EXCEPT !.loaded = FALSE, !.target = target, !.tried = TRUE]
      <4>1. (title \in Art) = FALSE
        BY <1>3
      <4> QED BY <1>2, <2>1, <4>1
    <3> QED BY <1>1, <3>1, EmptyIsGood DEF SlotTypes
  <2> HIDE DEF title
  <2>3. e \in GoodSlots
    BY <2>2 DEF GoodSlots
  <2> QED BY <2>2, <2>3 DEF Fitting, target, e
<1>4. CASE title \in Art
  <2>1. title \in Int /\ title # NoTitle
    BY <1>4, TitlesAreNumbers
  <2>2. d = [EmptySlot EXCEPT !.src = title, !.mem = "source", !.loaded = TRUE]
    BY <1>4 DEF Decoded
  <2>3. d.loaded /\ d.src = title /\ d.full = FALSE /\ d.mem = "source"
        /\ ~d.vram /\ d \in SlotTypes
    BY <2>1, <2>2, EmptyIsGood DEF SlotTypes
  <2> HIDE DEF d, title
  <2>4. /\ r \in SlotTypes /\ r.src = title
        /\ r.mem \in {"source", "thumb"}
        /\ r.vram /\ r.mem = "source" => near
    <3>1. CASE near
      <4>1. r = [d EXCEPT !.mem = "source", !.vram = TRUE, !.full = TRUE]
        BY <2>1, <2>3, <3>1 DEF Resized
      <4> HIDE DEF r, near
      <4> QED BY <2>3, <3>1, <4>1 DEF SlotTypes
    <3>2. CASE ~near /\ i \in bad
      <4>1. r = [d EXCEPT !.mem = "source", !.vram = FALSE, !.full = TRUE,
                          !.loaded = FALSE]
        BY <2>1, <2>3, <3>2 DEF Resized
      <4> HIDE DEF r, near
      <4> QED BY <2>3, <3>2, <4>1 DEF SlotTypes
    <3>3. CASE ~near /\ i \notin bad
      <4>1. r = [d EXCEPT !.mem = "thumb", !.vram = TRUE, !.full = FALSE]
        BY <2>1, <2>3, <3>3 DEF Resized
      <4> HIDE DEF r, near
      <4> QED BY <2>3, <3>3, <4>1 DEF SlotTypes
    <3> QED BY <3>1, <3>2, <3>3
  <2> HIDE DEF r, near
  <2>5. /\ e \in SlotTypes /\ e.loaded /\ e.src = title /\ e.tried
        /\ e.target = target /\ e.mem = r.mem /\ e.vram = r.vram
    BY <1>1, <1>2, <1>4, <2>4 DEF SlotTypes
  <2>6. e \in GoodSlots
    BY <1>1, <2>1, <2>5 DEF GoodSlots
  <2> QED BY <2>4, <2>5, <2>6 DEF Fitting, title, near, target, e
<1> QED BY <1>3, <1>4

----------------------------------------------------------------------------
(* The cache.                                                              *)

Lists == {"none", "all", "favourites"}

\* Never more than two at full size, not now and not before.
CachesOf(slots) ==
    {c \in [slots : [CoverSlots -> slots], list : Lists, peak : 0 .. 2] :
       Cardinality(FullSize(c.slots)) <= 2}
Caches == CachesOf(GoodSlots)

\* The slots whose cover is drawn with the pixels of the file.
Large(slots) == {i \in CoverSlots : Big(slots[i])}

LEMMA SlotsAreFinite ==
    /\ IsFiniteSet(CoverSlots) /\ CoverSlots \in SUBSET Nat
    /\ CoverFocus \in CoverSlots /\ CoverFocus - 1 \in CoverSlots
    /\ 0 \notin {CoverFocus - 1, CoverFocus}
    /\ CoverCount - 1 \notin {CoverFocus - 1, CoverFocus}
    /\ 0 \in CoverSlots /\ CoverCount - 1 \in CoverSlots
<1>1. CoverCount \in Nat /\ CoverFocus \in Int /\ CoverFocus >= 2
      /\ CoverFocus <= CoverCount - 2
  BY NavigationAssumption, CoverCacheAssumption
<1>2. IsFiniteSet(0 .. CoverCount - 1)
  BY <1>1, FS_Interval
<1> QED BY <1>1, <1>2 DEF CoverSlots

\* Fewer slots, fewer covers.
LEMMA FewerOf ==
    ASSUME NEW S \in SUBSET CoverSlots, NEW T \in SUBSET S, Cardinality(S) <= 2
    PROVE  Cardinality(T) <= 2 /\ Cardinality(T) \in Nat
<1>1. IsFiniteSet(S)
  BY SlotsAreFinite, FS_Subset
<1>2. IsFiniteSet(T) /\ Cardinality(T) <= Cardinality(S)
  BY <1>1, FS_Subset
<1> QED BY <1>1, <1>2, FS_CardinalityType

LEMMA TwoAreTwo ==
    ASSUME NEW a, NEW b
    PROVE  IsFiniteSet({a, b}) /\ Cardinality({a, b}) <= 2
<1>1. IsFiniteSet({a}) /\ Cardinality({a}) = 1
  BY FS_Singleton
<1>2. IsFiniteSet({a} \cup {b}) /\ Cardinality({a} \cup {b}) <= 2
  BY <1>1, FS_AddElement
<1>3. {a, b} = {a} \cup {b}
  OBVIOUS
<1> QED BY <1>2, <1>3

\* Every change of a slot.
LEMMA WithKept ==
    ASSUME NEW S, NEW R, NEW c \in CachesOf(R), NEW slots \in [CoverSlots -> S], Cardinality(FullSize(slots)) <= 2
    PROVE  /\ With(c, slots) \in CachesOf(S)
           /\ With(c, slots).slots = slots /\ With(c, slots).list = c.list
<1>1. Cardinality(FullSize(slots)) \in 0 .. 2
  <2>1. FullSize(slots) \in SUBSET CoverSlots
    BY DEF FullSize
  <2>2. Cardinality(FullSize(slots)) \in Nat
    BY <2>1, FewerOf
  <2> QED BY <2>2
<1> DEFINE n == Cardinality(FullSize(slots))
<1>2. Max({c.peak, n}) \in 0 .. 2
  <2> HIDE DEF n
  <2>1. n \in 0 .. 2 /\ c.peak \in 0 .. 2
    BY <1>1 DEF n, CachesOf
  <2>2. \E x \in {c.peak, n} : \A y \in {c.peak, n} : x >= y
    <3>1. CASE c.peak <= n
      BY <3>1, <2>1
    <3>2. CASE n <= c.peak
      BY <3>2, <2>1
    <3> QED BY <3>1, <3>2, <2>1
  <2> QED BY <2>1, <2>2 DEF Max
<1>3. With(c, slots) = [c EXCEPT !.slots = slots, !.peak = Max({c.peak, n})]
  BY DEF With
<1>4. c \in [slots : [CoverSlots -> R], list : Lists, peak : 0 .. 2]
  BY DEF CachesOf
<1> HIDE DEF n
<1> QED BY <1>2, <1>3, <1>4 DEF CachesOf

LEMMA FullIsLarge ==
    ASSUME NEW slots \in [CoverSlots -> GoodSlots]
    PROVE  FullSize(slots) \subseteq Large(slots)
BY DEF FullSize, Large, Big, GoodSlots

LEMMA FittingIsGood ==
    ASSUME NEW titles
    PROVE  /\ Fitting(titles) \subseteq GoodSlots
           /\ CachesOf(Fitting(titles)) \subseteq Caches
           /\ EmptySlot \in Fitting(titles)
<1>1. Fitting(titles) \subseteq GoodSlots
  BY DEF Fitting
<1>2. [CoverSlots -> Fitting(titles)] \subseteq [CoverSlots -> GoodSlots]
  BY <1>1
<1>3. CachesOf(Fitting(titles)) \subseteq Caches
  BY <1>2 DEF CachesOf, Caches
<1>4. EmptySlot \in GoodSlots /\ EmptySlot.src = NoTitle
  BY 0 \in Int, EmptyIsGood
<1> QED BY <1>1, <1>3, <1>4 DEF Fitting

\* What a change of sizes leaves alone.
SameCovers(c, d) ==
    /\ d.list = c.list
    /\ \A i \in CoverSlots :
         /\ d.slots[i].target = c.slots[i].target
         /\ d.slots[i].src = c.slots[i].src /\ d.slots[i].tried = c.slots[i].tried
         /\ d.slots[i].loaded => c.slots[i].loaded

LEMMA ResizedFits ==
    ASSUME NEW titles, NEW s \in Fitting(titles), NEW selected \in BOOLEAN,
           NEW fails \in BOOLEAN
    PROVE  LET r == Resized(s, selected, fails)
           IN  /\ r \in Fitting(titles)
               /\ r.target = s.target /\ r.src = s.src /\ r.tried = s.tried
               /\ r.loaded => s.loaded
               /\ ~selected => ~Big(r)
<1> DEFINE r == Resized(s, selected, fails)
<1>1. s \in GoodSlots /\ (s.src # NoTitle => s.src = TitleAt(titles, s.target))
  BY DEF Fitting
<1>2. /\ r \in GoodSlots
      /\ r.target = s.target /\ r.src = s.src /\ r.tried = s.tried
      /\ r.loaded => s.loaded
      /\ ~selected => ~Big(r)
  BY <1>1, ResizedSlot
<1> HIDE DEF r
<1>3. r \in Fitting(titles)
  BY <1>1, <1>2 DEF Fitting
<1> QED BY <1>2, <1>3 DEF r

\* The slots of a set change size together.
SlotsResized(c, set, selected, bad) ==
    [i \in CoverSlots |-> IF i \in set THEN Resized(c.slots[i], selected, i \in bad)
                          ELSE c.slots[i]]

LEMMA ResizeAllSlots ==
    ASSUME NEW titles, NEW c \in CachesOf(Fitting(titles)),
           NEW set, NEW selected \in BOOLEAN, NEW bad
    PROVE  LET slots == SlotsResized(c, set, selected, bad)
           IN  /\ slots \in [CoverSlots -> Fitting(titles)]
               /\ SameCovers(c, [c EXCEPT !.slots = slots])
               /\ ~selected => Large(slots) \subseteq Large(c.slots) \ set
               /\ Large(slots) \subseteq Large(c.slots) \cup set
               /\ ~selected => FullSize(slots) \subseteq FullSize(c.slots)
<1> DEFINE slots == SlotsResized(c, set, selected, bad)
<1>1. c.slots \in [CoverSlots -> Fitting(titles)]
  BY DEF CachesOf
<1>2. ASSUME NEW i \in CoverSlots, i \in set
      PROVE  /\ slots[i] \in Fitting(titles)
             /\ slots[i].target = c.slots[i].target
             /\ slots[i].src = c.slots[i].src /\ slots[i].tried = c.slots[i].tried
             /\ slots[i].loaded => c.slots[i].loaded
             /\ ~selected => ~Big(slots[i])
  <2>1. slots[i] = Resized(c.slots[i], selected, i \in bad)
    BY <1>2 DEF SlotsResized
  <2> DEFINE fails == i \in bad
  <2>2. c.slots[i] \in Fitting(titles) /\ fails \in BOOLEAN
    BY <1>1
  <2> HIDE DEF fails
  <2>3. LET r == Resized(c.slots[i], selected, fails)
        IN  /\ r \in Fitting(titles)
            /\ r.target = c.slots[i].target /\ r.src = c.slots[i].src
            /\ r.tried = c.slots[i].tried
            /\ r.loaded => c.slots[i].loaded
            /\ ~selected => ~Big(r)
    BY <2>2, ResizedFits
  <2> QED BY <2>1, <2>3 DEF fails
<1>3. ASSUME NEW i \in CoverSlots, i \notin set
      PROVE  slots[i] = c.slots[i] /\ slots[i] \in Fitting(titles)
  BY <1>1, <1>3 DEF SlotsResized
<1>4. DOMAIN slots = CoverSlots /\ slots = [i \in CoverSlots |-> slots[i]]
  BY DEF SlotsResized
<1> HIDE DEF slots
<1>5. \A i \in CoverSlots : slots[i] \in Fitting(titles)
  BY <1>2, <1>3
<1>6. slots \in [CoverSlots -> Fitting(titles)]
  BY <1>4, <1>5
<1>7. SameCovers(c, [c EXCEPT !.slots = slots])
  <2>1. c \in [slots : [CoverSlots -> Fitting(titles)], list : Lists, peak : 0 .. 2]
    BY DEF CachesOf
  <2>2. [c EXCEPT !.slots = slots].slots = slots
        /\ [c EXCEPT !.slots = slots].list = c.list
    BY <2>1
  <2> QED BY <2>2, <1>2, <1>3 DEF SameCovers
<1>8. ~selected => Large(slots) \subseteq Large(c.slots) \ set
  BY <1>2, <1>3 DEF Large
<1>9. Large(slots) \subseteq Large(c.slots) \cup set
  BY <1>3 DEF Large
<1>10. ~selected => FullSize(slots) \subseteq FullSize(c.slots)
  <2>1. ASSUME ~selected, NEW i \in FullSize(slots)
        PROVE  i \in FullSize(c.slots)
    <3>1. i \in CoverSlots /\ slots[i].vram /\ slots[i].mem = "source"
      BY <2>1 DEF FullSize
    <3>2. Big(slots[i])
      BY <3>1, <1>5 DEF Fitting, GoodSlots, Big
    <3>3. i \notin set
      BY <3>1, <3>2, <1>2, <2>1
    <3> QED BY <3>1, <3>3, <1>3 DEF FullSize
  <2> QED BY <2>1
<1> QED BY <1>6, <1>7, <1>8, <1>9, <1>10 DEF slots

LEMMA DemoteAllKept ==
    ASSUME NEW titles, NEW c \in CachesOf(Fitting(titles)), NEW set, NEW bad
    PROVE  LET d == DemoteAll(c, set, bad)
           IN  /\ d \in CachesOf(Fitting(titles)) /\ SameCovers(c, d)
               /\ Large(d.slots) \subseteq Large(c.slots) \ set
<1> DEFINE slots == SlotsResized(c, set, FALSE, bad)
           d == DemoteAll(c, set, bad)
<1>1. /\ slots \in [CoverSlots -> Fitting(titles)]
      /\ SameCovers(c, [c EXCEPT !.slots = slots])
      /\ Large(slots) \subseteq Large(c.slots) \ set
      /\ FullSize(slots) \subseteq FullSize(c.slots)
  BY ResizeAllSlots
<1>2. d = With(c, slots)
  BY DEF DemoteAll, ResizeAll, SlotsResized
<1>3. c \in [slots : [CoverSlots -> Fitting(titles)], list : Lists, peak : 0 .. 2]
      /\ Cardinality(FullSize(c.slots)) <= 2
  BY DEF CachesOf
<1> HIDE DEF slots, d
<1>4. Cardinality(FullSize(slots)) <= 2
  <2>1. FullSize(c.slots) \in SUBSET CoverSlots
    BY DEF FullSize
  <2> QED BY <1>1, <1>3, <2>1, FewerOf
<1>5. d \in CachesOf(Fitting(titles)) /\ d.slots = slots /\ d.list = c.list
  BY <1>1, <1>2, <1>3, <1>4, WithKept
<1>6. [c EXCEPT !.slots = slots].slots = slots
  BY <1>3
<1>7. SameCovers(c, d)
  BY <1>1, <1>5, <1>6 DEF SameCovers
<1> QED BY <1>1, <1>5, <1>7 DEF d

LEMMA PromoteAllKept ==
    ASSUME NEW titles, NEW c \in CachesOf(Fitting(titles)),
           NEW set \in SUBSET CoverSlots, Cardinality(set) <= 2,
           Large(c.slots) \subseteq set
    PROVE  LET d == PromoteAll(c, set)
           IN  /\ d \in CachesOf(Fitting(titles)) /\ SameCovers(c, d)
               /\ Large(d.slots) \subseteq set
<1> DEFINE slots == SlotsResized(c, set, TRUE, {})
           d == PromoteAll(c, set)
<1>1. /\ slots \in [CoverSlots -> Fitting(titles)]
      /\ SameCovers(c, [c EXCEPT !.slots = slots])
      /\ Large(slots) \subseteq Large(c.slots) \cup set
  BY ResizeAllSlots
<1>2. d = With(c, slots)
  BY DEF PromoteAll, ResizeAll, SlotsResized
<1>3. c \in [slots : [CoverSlots -> Fitting(titles)], list : Lists, peak : 0 .. 2]
  BY DEF CachesOf
<1> HIDE DEF slots, d
<1>4. FullSize(slots) \subseteq set /\ Large(slots) \subseteq set
  <2>1. slots \in [CoverSlots -> GoodSlots]
    BY <1>1, FittingIsGood
  <2> QED BY <1>1, <2>1, FullIsLarge
<1>5. Cardinality(FullSize(slots)) <= 2
  BY <1>4, FewerOf
<1>6. d \in CachesOf(Fitting(titles)) /\ d.slots = slots /\ d.list = c.list
  BY <1>1, <1>2, <1>3, <1>5, WithKept
<1>7. [c EXCEPT !.slots = slots].slots = slots
  BY <1>3
<1>8. SameCovers(c, d)
  BY <1>1, <1>6, <1>7 DEF SameCovers
<1> QED BY <1>4, <1>6, <1>8 DEF d

\* Of three covers one is farther than both others, so two are nearest.
LEMMA NearestTwo ==
    ASSUME NEW c, NEW offset \in Int
    PROVE  /\ Nearest(c, offset) \in SUBSET CoverSlots
           /\ Cardinality(Nearest(c, offset)) <= 2
<1> DEFINE loaded == {i \in CoverSlots : c.slots[i].loaded}
           nearer(i, j) == \/ Away(i, offset) < Away(j, offset)
                           \/ Away(i, offset) = Away(j, offset) /\ i < j
           N == Nearest(c, offset)
<1>1. N = {i \in loaded : \A j, k \in loaded : nearer(j, i) /\ nearer(k, i) => j = k}
  BY DEF Nearest
<1>2. \A i \in CoverSlots : i \in Int /\ Away(i, offset) \in Int
  BY NavigationAssumption DEF CoverSlots, Away
<1>3. ASSUME NEW a \in N, NEW b \in N, NEW d \in N, a # b, b # d, a # d
      PROVE  FALSE
  <2>1. /\ a \in loaded /\ b \in loaded /\ d \in loaded
        /\ ~(nearer(a, b) /\ nearer(d, b)) /\ ~(nearer(b, a) /\ nearer(d, a))
        /\ ~(nearer(a, d) /\ nearer(b, d))
    <3> HIDE DEF nearer, loaded
    <3>1. a \in loaded /\ b \in loaded /\ d \in loaded
      BY <1>1
    <3> QED BY <1>1, <1>3, <3>1
  <2>2. /\ a \in Int /\ b \in Int /\ d \in Int
        /\ Away(a, offset) \in Int /\ Away(b, offset) \in Int /\ Away(d, offset) \in Int
    BY <2>1, <1>2
  <2> QED BY <2>1, <2>2, <1>3
<1>4. N \in SUBSET CoverSlots
  BY <1>1
<1> HIDE DEF N, nearer, loaded
<1>5. \E a, b \in CoverSlots : N \subseteq {a, b}
  <2>1. CASE \E a, b \in N : a # b
    <3>1. PICK a \in N, b \in N : a # b
      BY <2>1
    <3>2. N \subseteq {a, b}
      BY <3>1, <1>3
    <3> QED BY <3>2, <1>4
  <2>2. CASE \E a \in N : \A b \in N : a = b
    BY <2>2, <1>4
  <2>3. CASE N = {}
    BY <2>3, SlotsAreFinite
  <2> QED BY <2>1, <2>2, <2>3
<1>6. PICK a \in CoverSlots, b \in CoverSlots : N \subseteq {a, b}
  BY <1>5
<1>7. {a, b} \in SUBSET CoverSlots /\ Cardinality({a, b}) <= 2
  BY TwoAreTwo
<1>8. Cardinality(N) <= 2
  BY <1>6, <1>7, FewerOf
<1> QED BY <1>4, <1>8 DEF N

LEMMA SameTwice ==
    ASSUME NEW c, NEW d, NEW e, SameCovers(c, d), SameCovers(d, e)
    PROVE  SameCovers(c, e)
BY DEF SameCovers

\* updatePSBBNCoverResidency leaves at most two covers at full size, the
\* others demoted before these are promoted.
LEMMA ResidencyKept ==
    ASSUME NEW titles, NEW c \in CachesOf(Fitting(titles)), NEW offset \in Int,
           NEW bad
    PROVE  LET d == UpdateResidency(c, offset, bad)
           IN  /\ d \in CachesOf(Fitting(titles)) /\ SameCovers(c, d)
               /\ Cardinality(Large(d.slots)) <= 2
<1> DEFINE N == Nearest(c, offset)
           down == DemoteAll(c, CoverSlots \ N, bad)
           d == UpdateResidency(c, offset, bad)
<1>1. d = PromoteAll(down, N)
  BY DEF UpdateResidency, DemoteFirst
<1>2. N \in SUBSET CoverSlots /\ Cardinality(N) <= 2
  BY NearestTwo
<1> HIDE DEF N
<1>3. /\ down \in CachesOf(Fitting(titles)) /\ SameCovers(c, down)
      /\ Large(down.slots) \subseteq Large(c.slots) \ (CoverSlots \ N)
  BY DemoteAllKept
<1> HIDE DEF down
<1>4. Large(down.slots) \subseteq N
  BY <1>3 DEF Large
<1>5. /\ d \in CachesOf(Fitting(titles)) /\ SameCovers(down, d)
      /\ Large(d.slots) \subseteq N
  BY <1>1, <1>2, <1>3, <1>4, PromoteAllKept
<1> HIDE DEF d
<1>6. Cardinality(Large(d.slots)) <= 2
  BY <1>2, <1>5, FewerOf
<1>7. SameCovers(c, d)
  BY <1>3, <1>5, SameTwice
<1> QED BY <1>5, <1>6, <1>7 DEF d

LEMMA ResizeKept ==
    ASSUME NEW titles, NEW c \in CachesOf(Fitting(titles)), NEW offset \in Int,
           NEW fast, NEW bad
    PROVE  LET d == Resize(c, offset, fast, bad)
           IN  /\ d \in CachesOf(Fitting(titles)) /\ SameCovers(c, d)
               /\ Cardinality(Large(d.slots)) <= 2
<1> DEFINE d == DemoteAll(c, CoverSlots, bad)
<1>1. /\ d \in CachesOf(Fitting(titles)) /\ SameCovers(c, d)
      /\ Large(d.slots) \subseteq Large(c.slots) \ CoverSlots
  BY DemoteAllKept
<1> HIDE DEF d
<1>2. Large(d.slots) = {}
  BY <1>1 DEF Large
<1>3. Cardinality(Large(d.slots)) <= 2
  BY <1>2, FS_EmptySet
<1>4. CASE fast
  BY <1>1, <1>3, <1>4 DEF Resize, d
<1>5. CASE ~fast
  BY <1>5, ResidencyKept DEF Resize
<1> QED BY <1>4, <1>5

\* A frame binds what is loaded, full-size covers among it only where a
\* change of sizes left them.
LEMMA DrawnKept ==
    ASSUME NEW titles, NEW c \in CachesOf(Fitting(titles)),
           Cardinality(Large(c.slots)) <= 2
    PROVE  /\ Drawn(c) \in CachesOf(Fitting(titles))
           /\ SameCovers(c, Drawn(c))
<1> DEFINE slots == [i \in CoverSlots |->
                       [c.slots[i] EXCEPT !.vram = @ \/ c.slots[i].loaded]]
<1>1. c.slots \in [CoverSlots -> Fitting(titles)]
  BY DEF CachesOf
<1>2. ASSUME NEW i \in CoverSlots
      PROVE  /\ slots[i] \in Fitting(titles)
             /\ slots[i].target = c.slots[i].target
             /\ slots[i].src = c.slots[i].src /\ slots[i].tried = c.slots[i].tried
             /\ slots[i].loaded = c.slots[i].loaded
             /\ slots[i].mem = c.slots[i].mem
             /\ slots[i].vram /\ slots[i].mem = "source" => Big(c.slots[i])
  <2> DEFINE s == c.slots[i]
             v == s.vram \/ s.loaded
  <2>1. s \in GoodSlots /\ (s.src # NoTitle => s.src = TitleAt(titles, s.target))
    BY <1>1 DEF Fitting
  <2>2. slots[i] = [s EXCEPT !.vram = v]
    OBVIOUS
  <2>3. v \in BOOLEAN /\ s \in SlotTypes
    BY <2>1 DEF GoodSlots
  <2>4. v /\ s.mem = "source" => Big(s)
    BY <2>1 DEF GoodSlots, Big
  <2>5. v => s.src # NoTitle
    BY <2>1 DEF GoodSlots
  <2> HIDE DEF s, v, slots
  <2>6. /\ slots[i] \in SlotTypes /\ slots[i].vram = v
        /\ slots[i].target = s.target
        /\ slots[i].src = s.src /\ slots[i].tried = s.tried
        /\ slots[i].loaded = s.loaded /\ slots[i].mem = s.mem
    BY <2>2, <2>3 DEF SlotTypes
  <2>7. slots[i] \in GoodSlots
    BY <2>1, <2>4, <2>5, <2>6 DEF GoodSlots, Big
  <2>8. slots[i] \in Fitting(titles)
    BY <2>1, <2>6, <2>7 DEF Fitting
  <2> QED BY <2>4, <2>6, <2>8 DEF s
<1>3. Drawn(c) = With(c, slots) /\ slots = [i \in CoverSlots |-> slots[i]]
  BY DEF Drawn
<1> HIDE DEF slots
<1>4. slots \in [CoverSlots -> Fitting(titles)]
  BY <1>2, <1>3
<1>5. FullSize(slots) \subseteq Large(c.slots)
  BY <1>2 DEF FullSize, Large
<1>6. Cardinality(FullSize(slots)) <= 2
  <2>1. Large(c.slots) \in SUBSET CoverSlots
    BY DEF Large
  <2> QED BY <1>5, <2>1, FewerOf
<1>7. /\ Drawn(c) \in CachesOf(Fitting(titles))
      /\ Drawn(c).slots = slots /\ Drawn(c).list = c.list
  BY <1>3, <1>4, <1>6, WithKept
<1> QED BY <1>2, <1>7 DEF SameCovers

----------------------------------------------------------------------------
(* Collection: covers move to their new slots.                             *)

\* A swap neither loses a cover nor doubles one.
LEMMA SwappedKept ==
    ASSUME NEW S, NEW slots \in [CoverSlots -> S], NEW i \in CoverSlots,
           NEW j \in CoverSlots, Cardinality(FullSize(slots)) <= 2
    PROVE  /\ Swapped(slots, i, j) \in [CoverSlots -> S]
           /\ Cardinality(FullSize(Swapped(slots, i, j))) <= 2
<1> DEFINE new == Swapped(slots, i, j)
           from(k) == IF k = i THEN j ELSE IF k = j THEN i ELSE k
<1>1. \A k \in CoverSlots : from(k) \in CoverSlots /\ new[k] = slots[from(k)]
  BY DEF Swapped
<1>2. new \in [CoverSlots -> S]
  BY DEF Swapped
<1> HIDE DEF new
<1> DEFINE f == [k \in FullSize(new) |-> from(k)]
<1>3. f \in [FullSize(new) -> FullSize(slots)]
  BY <1>1 DEF FullSize
<1>4. \A k, l \in FullSize(new) : f[k] = f[l] => k = l
  OBVIOUS
<1> HIDE DEF f
<1>5. f \in Injection(FullSize(new), FullSize(slots))
  BY <1>3, <1>4 DEF Injection, IsInjective
<1>6. FullSize(slots) \in SUBSET CoverSlots /\ FullSize(new) \in SUBSET CoverSlots
  BY DEF FullSize
<1>7. IsFiniteSet(FullSize(slots)) /\ IsFiniteSet(FullSize(new))
  BY <1>6, SlotsAreFinite, FS_Subset
<1>8. Cardinality(FullSize(new)) <= Cardinality(FullSize(slots))
  BY <1>5, <1>7, FS_Injection
<1>9. Cardinality(FullSize(new)) \in Nat /\ Cardinality(FullSize(slots)) \in Nat
  BY <1>7, FS_CardinalityType
<1> QED BY <1>2, <1>8, <1>9 DEF new

LEMMA MatchSlotKept ==
    ASSUME NEW S, NEW s \in [slots : [CoverSlots -> S], matched : SUBSET CoverSlots],
           Cardinality(FullSize(s.slots)) <= 2, NEW wanted, NEW i \in CoverSlots
    PROVE  LET t == MatchSlot(s, wanted, i)
           IN  /\ t \in [slots : [CoverSlots -> S], matched : SUBSET CoverSlots]
               /\ Cardinality(FullSize(t.slots)) <= 2
<1> DEFINE owners == {j \in CoverSlots \ s.matched : s.slots[j].target = wanted[i]}
           swap == Swapped(s.slots, i, Min(owners))
<1>1. CASE wanted[i] < 0 \/ owners = {}
  BY <1>1 DEF MatchSlot
<1>2. CASE ~(wanted[i] < 0 \/ owners = {})
  <2>1. owners \in SUBSET Nat /\ owners # {}
    BY <1>2, SlotsAreFinite
  <2>2. Min(owners) \in CoverSlots
    <3>1. owners \subseteq CoverSlots
      OBVIOUS
    <3> HIDE DEF owners
    <3> QED BY <2>1, <3>1, MinIsLeast
  <2>3. MatchSlot(s, wanted, i) = [slots |-> swap, matched |-> s.matched \cup {i}]
    BY <1>2 DEF MatchSlot
  <2> HIDE DEF owners
  <2>4. s.slots \in [CoverSlots -> S]
    OBVIOUS
  <2>5. swap \in [CoverSlots -> S] /\ Cardinality(FullSize(swap)) <= 2
    BY <2>2, <2>4, SwappedKept
  <2> HIDE DEF swap
  <2> QED BY <2>3, <2>5
<1> QED BY <1>1, <1>2

LEMMA MatchedKept ==
    ASSUME NEW S, NEW c \in CachesOf(S), NEW wanted
    PROVE  /\ Matched(c, wanted) \in [CoverSlots -> S]
           /\ Cardinality(FullSize(Matched(c, wanted))) <= 2
<1> DEFINE T == {s \in [slots : [CoverSlots -> S], matched : SUBSET CoverSlots] :
                   Cardinality(FullSize(s.slots)) <= 2}
           start == [slots |-> c.slots, matched |-> {}]
           step == [s \in T |-> [k \in 0 .. CoverCount - 1 |-> MatchSlot(s, wanted, k)]]
           is(f) == f = [n \in 0 .. CoverCount |->
                           IF n = 0 THEN start ELSE MatchSlot(f[n - 1], wanted, n - 1)]
           after == CHOOSE f : is(f)
<1>1. CoverCount \in Nat /\ CoverSlots = 0 .. CoverCount - 1
  BY NavigationAssumption DEF CoverSlots
<1>2. start \in T
  BY DEF CachesOf
<1>3. ASSUME NEW s \in T, NEW k \in 0 .. CoverCount - 1
      PROVE  MatchSlot(s, wanted, k) \in T
  <2>1. /\ s \in [slots : [CoverSlots -> S], matched : SUBSET CoverSlots]
        /\ Cardinality(FullSize(s.slots)) <= 2 /\ k \in CoverSlots
    BY <1>1
  <2>2. LET t == MatchSlot(s, wanted, k)
        IN  /\ t \in [slots : [CoverSlots -> S], matched : SUBSET CoverSlots]
            /\ Cardinality(FullSize(t.slots)) <= 2
    BY <2>1, MatchSlotKept
  <2> QED BY <2>2
<1>4. step \in [T -> [0 .. CoverCount - 1 -> T]]
  BY <1>3
<1>5. Matched(c, wanted) = after[CoverCount].slots
  BY DEF Matched
<1> HIDE DEF T, start, after
<1>6. \E f : Run(f, CoverCount, T, start, step)
  <2> HIDE DEF step, is
  <2> QED BY <1>1, <1>2, <1>4, RunExists
<1>7. PICK f : Run(f, CoverCount, T, start, step)
  BY <1>6
<1>8. is(f)
  <2>1. ASSUME NEW k \in 1 .. CoverCount
        PROVE  f[k] = MatchSlot(f[k - 1], wanted, k - 1)
    <3>1. f[k - 1] \in T /\ k - 1 \in 0 .. CoverCount - 1
      BY <1>1, <1>7 DEF Run
    <3> QED BY <1>7, <3>1 DEF Run
  <2> QED BY <2>1, <1>1, <1>7 DEF Run
<1>9. is(after)
  BY <1>8 DEF after
<1>10. after[0] \in T
  BY <1>1, <1>2, <1>9
<1>11. ASSUME NEW k \in 1 .. CoverCount, after[k - 1] \in T PROVE after[k] \in T
  BY <1>1, <1>3, <1>9, <1>11
<1>12. \A k \in 0 .. CoverCount : after[k] \in T
  BY <1>1, <1>10, <1>11, UpTo
<1>13. after[CoverCount] \in T
  BY <1>1, <1>12
<1> QED BY <1>5, <1>13 DEF T

LEMMA LayoutType ==
    ASSUME NEW total \in Nat, NEW focus \in Int, NEW offset
    PROVE  /\ CollectionCacheLayout(total, focus, offset) \in [CoverSlots -> Int]
           /\ \A i \in CoverSlots :
                CollectionCacheLayout(total, focus, offset)[i]
                  \in {-1, NavWrap(total, focus + i - CoverFocus)}
<1> DEFINE title(i) == NavWrap(total, focus + i - CoverFocus)
           w == CollectionCacheLayout(total, focus, offset)
<1>1. \A i \in CoverSlots : title(i) \in Int
  BY NavigationAssumption DEF CoverSlots, NavWrap
<1>2. /\ DOMAIN w = CoverSlots /\ \A i \in CoverSlots : w[i] \in {-1, title(i)}
      /\ w = [i \in CoverSlots |-> w[i]]
  BY DEF CollectionCacheLayout
<1> HIDE DEF w
<1>3. w \in [CoverSlots -> Int]
  <2>1. \A i \in CoverSlots : w[i] \in Int
    BY <1>1, <1>2
  <2> QED BY <1>2, <2>1
<1> QED BY <1>2, <1>3 DEF w

\* The covers that stay wanted fit as before, the other slots are emptied.
LEMMA KeptKept ==
    ASSUME NEW titles, NEW c \in CachesOf(Fitting(titles)),
           NEW kept \in [CoverSlots -> Fitting(titles)],
           Cardinality(FullSize(kept)) <= 2, NEW wanted \in [CoverSlots -> Int]
    PROVE  LET d == Kept(c, kept, wanted)
           IN  /\ d \in CachesOf(Fitting(titles)) /\ d.list = c.list
               /\ \A i \in CoverSlots : d.slots[i].target = wanted[i]
<1> DEFINE slots == [i \in CoverSlots |->
                       IF kept[i].target = wanted[i] THEN kept[i]
                       ELSE [EmptySlot EXCEPT !.target = wanted[i]]]
<1>1. Kept(c, kept, wanted) = With(c, slots)
  BY DEF Kept
<1>2. ASSUME NEW i \in CoverSlots
      PROVE  /\ slots[i] \in Fitting(titles) /\ slots[i].target = wanted[i]
             /\ slots[i].vram => slots[i] = kept[i]
  <2>1. CASE kept[i].target = wanted[i]
    BY <2>1
  <2>2. CASE kept[i].target # wanted[i]
    <3>1. slots[i] = [EmptySlot EXCEPT !.target = wanted[i]]
      BY <2>2
    <3>2. wanted[i] \in Int
      OBVIOUS
    <3> HIDE DEF slots
    <3>3. slots[i] \in GoodSlots /\ slots[i].src = NoTitle
          /\ slots[i].target = wanted[i] /\ ~slots[i].vram
      BY <3>1, <3>2, EmptyIsGood
    <3> QED BY <3>3 DEF Fitting
  <2> QED BY <2>1, <2>2
<1>3. slots = [i \in CoverSlots |-> slots[i]]
  OBVIOUS
<1> HIDE DEF slots
<1>4. slots \in [CoverSlots -> Fitting(titles)]
  BY <1>2, <1>3
<1>5. FullSize(slots) \subseteq FullSize(kept) /\ FullSize(kept) \in SUBSET CoverSlots
  BY <1>2 DEF FullSize
<1>6. Cardinality(FullSize(slots)) <= 2
  BY <1>5, FewerOf
<1>7. /\ With(c, slots) \in CachesOf(Fitting(titles))
      /\ With(c, slots).slots = slots /\ With(c, slots).list = c.list
  BY <1>4, <1>6, WithKept
<1> QED BY <1>1, <1>2, <1>7

\* The cover to load next is one that was not tried and stands for a title.
LEMMA NextIsOpen ==
    ASSUME NEW slots, NEW wanted, NEW dir \in Int
    PROVE  LET next == NextToLoad(slots, wanted, dir)
           IN  \/ next = -1
               \/ next \in CoverSlots /\ wanted[next] >= 0 /\ ~slots[next].tried
<1> DEFINE open == {i \in CoverSlots : wanted[i] >= 0 /\ ~slots[i].tried}
           priority(i) ==
             LET r == i - CoverFocus
             IN  2 * (IF r < 0 THEN -r ELSE r) + (IF r * dir < 0 THEN 1 ELSE 0)
           best == {i \in open : \A j \in open : priority(i) <= priority(j)}
           next == NextToLoad(slots, wanted, dir)
<1>1. next = IF open = {} THEN -1 ELSE Min(best)
  BY DEF NextToLoad
<1> HIDE DEF next
<1>2. CASE open = {}
  BY <1>1, <1>2 DEF next
<1>3. CASE open # {}
  <2>1. \A i \in CoverSlots : i \in Nat /\ i - CoverFocus \in Int
    BY SlotsAreFinite, NavigationAssumption
  <2>2. \A i \in CoverSlots : priority(i) \in Nat
    <3>1. ASSUME NEW i \in CoverSlots PROVE priority(i) \in Nat
      <4> DEFINE r == i - CoverFocus
      <4>1. r \in Int
        BY <2>1
      <4> HIDE DEF r
      <4>2. 2 * (IF r < 0 THEN -r ELSE r) + (IF r * dir < 0 THEN 1 ELSE 0) \in Nat
        BY <4>1
      <4> QED BY <4>2 DEF r
    <3> QED BY <3>1
  <2> HIDE DEF priority
  <2> DEFINE ps == {priority(i) : i \in open}
  <2>3. ps \in SUBSET Nat /\ ps # {}
    BY <1>3, <2>2
  <2>4. \E n \in ps : \A m \in ps : n <= m
    <3> HIDE DEF ps
    <3> QED BY <2>3, LeastNat
  <2>5. best # {} /\ best \subseteq open
    BY <2>4
  <2>6. best \in SUBSET Nat /\ best # {}
    BY <2>1, <2>5
  <2>7. Min(best) \in best
    <3> HIDE DEF best
    <3> QED BY <2>6, MinIsLeast
  <2>8. next \in open
    BY <1>1, <1>3, <2>5, <2>7
  <2> QED BY <2>8 DEF next
<1> QED BY <1>2, <1>3

Placed(c, wanted) == \A i \in CoverSlots : c.slots[i].target = wanted[i]

LEMMA LoadNextKept ==
    ASSUME NEW titles, NEW c \in CachesOf(Fitting(titles)),
           NEW wanted \in [CoverSlots -> Int], Placed(c, wanted),
           NEW dir \in Int, NEW allowLoad, NEW bad
    PROVE  LET d == LoadNext(c, titles, wanted, dir, allowLoad, bad)
           IN  /\ d \in CachesOf(Fitting(titles)) /\ d.list = c.list
               /\ Placed(d, wanted)
<1> DEFINE next == NextToLoad(c.slots, wanted, dir)
           title == TitleAt(titles, wanted[next])
           fails == next \in bad
           e == Resized(Tried(c.slots[next], title), FALSE, fails)
           slots == [c.slots EXCEPT ![next] = e]
           d == LoadNext(c, titles, wanted, dir, allowLoad, bad)
<1>1. CASE ~allowLoad \/ next = -1
  BY <1>1 DEF LoadNext, LoadSlot
<1>2. CASE allowLoad /\ next # -1
  <2>1. next \in CoverSlots /\ wanted[next] >= 0 /\ ~c.slots[next].tried
    BY <1>2, NextIsOpen
  <2>2. ~(next < 0)
    <3> HIDE DEF next
    <3>1. next \in Nat
      BY <2>1, SlotsAreFinite
    <3> QED BY <3>1
  <2>3. d = With(c, slots)
    BY <1>2, <2>2 DEF LoadNext, LoadSlot
  <2>4. c.slots \in [CoverSlots -> Fitting(titles)]
        /\ Cardinality(FullSize(c.slots)) <= 2
    BY DEF CachesOf
  <2> HIDE DEF next, title, d
  <2>5. c.slots[next] \in GoodSlots /\ c.slots[next].target = wanted[next]
        /\ c.slots[next].target >= 0 /\ fails \in BOOLEAN
    BY <2>1, <2>4 DEF Placed, Fitting
  <2> HIDE DEF fails
  <2>6. /\ e \in GoodSlots /\ e.target = wanted[next]
        /\ e.src # NoTitle => e.src = title
        /\ ~Big(e)
    BY <2>1, <2>5, TriedSlot
  <2> HIDE DEF e
  <2>7. e \in Fitting(titles)
    BY <2>6 DEF Fitting, title
  <2>8. slots \in [CoverSlots -> Fitting(titles)]
        /\ \A i \in CoverSlots : slots[i] = IF i = next THEN e ELSE c.slots[i]
    BY <2>1, <2>4, <2>7
  <2> HIDE DEF slots
  <2>9. FullSize(slots) \subseteq FullSize(c.slots)
        /\ FullSize(c.slots) \in SUBSET CoverSlots
    BY <2>6, <2>8 DEF FullSize, GoodSlots, Big
  <2>10. Cardinality(FullSize(slots)) <= 2
    BY <2>4, <2>9, FewerOf
  <2>11. d \in CachesOf(Fitting(titles)) /\ d.slots = slots /\ d.list = c.list
    BY <2>3, <2>8, <2>10, WithKept
  <2>12. Placed(d, wanted)
    BY <2>6, <2>8, <2>11 DEF Placed
  <2> QED BY <2>11, <2>12 DEF d
<1> QED BY <1>1, <1>2

LEMMA ReleasedKept ==
    ASSUME NEW c \in Caches, NEW titles, NEW list \in Lists
    PROVE  /\ ReleaseCovers(c) \in CachesOf(Fitting(titles))
           /\ ReleaseCovers(c).list = "none" /\ ReleaseCovers(c).slots = NoCovers
           /\ [ReleaseCovers(c) EXCEPT !.list = list] \in CachesOf(Fitting(titles))
           /\ [ReleaseCovers(c) EXCEPT !.list = list].list = list
           /\ [ReleaseCovers(c) EXCEPT !.list = list].slots = NoCovers
<1>1. NoCovers \in [CoverSlots -> Fitting(titles)]
  BY FittingIsGood DEF NoCovers
<1>2. FullSize(NoCovers) = {}
  BY 0 \in Int, EmptyIsGood DEF FullSize, NoCovers
<1>3. Cardinality(FullSize(NoCovers)) <= 2
  BY <1>2, FS_EmptySet
<1>4. c \in [slots : [CoverSlots -> GoodSlots], list : Lists, peak : 0 .. 2]
  BY DEF Caches, CachesOf
<1>5. ASSUME NEW l \in Lists
      PROVE  [c EXCEPT !.slots = NoCovers, !.list = l] \in CachesOf(Fitting(titles))
  BY <1>1, <1>3, <1>4 DEF CachesOf
<1>6. "none" \in Lists
  BY DEF Lists
<1>7. ReleaseCovers(c) = [c EXCEPT !.slots = NoCovers, !.list = "none"]
  BY DEF ReleaseCovers
<1>8. [ReleaseCovers(c) EXCEPT !.list = list] = [c EXCEPT !.slots = NoCovers, !.list = list]
  BY <1>4, <1>7
<1> QED BY <1>4, <1>5, <1>6, <1>7, <1>8

\* refreshCollectionCovers: every slot stands for the title that belongs
\* there, no cover is lost on its way or shown under another title, and two
\* at most are at full size.
LEMMA RefreshCollectionKept ==
    ASSUME NEW titles, Len(titles) \in Nat, NEW c \in Caches, NEW name \in Lists,
           c.list = name => c \in CachesOf(Fitting(titles)),
           NEW focus \in Int, NEW offset \in Int, NEW dir \in Int,
           NEW allowLoad, NEW fast, NEW bad
    PROVE  LET d == RefreshCollection(c, name, titles, focus, offset, dir,
                                      allowLoad, fast, bad)
           IN  /\ d \in CachesOf(Fitting(titles)) /\ d.list = name
               /\ Placed(d, CollectionCacheLayout(Len(titles), focus, offset))
               /\ Cardinality(Large(d.slots)) <= 2
<1> DEFINE wanted == CollectionCacheLayout(Len(titles), focus, offset)
           own == OfList(c, name)
           kept == Matched(own, wanted)
           moved == Kept(own, kept, wanted)
           filled == LoadNext(moved, titles, wanted, dir, allowLoad, bad)
           d == Resize(filled, offset, fast, bad)
<1>1. own \in CachesOf(Fitting(titles)) /\ own.list = name
  BY ReleasedKept DEF OfList
<1>2. wanted \in [CoverSlots -> Int]
  BY LayoutType
<1> HIDE DEF own, wanted
<1>3. kept \in [CoverSlots -> Fitting(titles)] /\ Cardinality(FullSize(kept)) <= 2
  BY <1>1, MatchedKept
<1> HIDE DEF kept
<1>4. moved \in CachesOf(Fitting(titles)) /\ moved.list = name /\ Placed(moved, wanted)
  BY <1>1, <1>2, <1>3, KeptKept DEF Placed
<1> HIDE DEF moved
<1>5. /\ filled \in CachesOf(Fitting(titles)) /\ filled.list = name
      /\ Placed(filled, wanted)
  BY <1>2, <1>4, LoadNextKept
<1> HIDE DEF filled
<1>6. /\ d \in CachesOf(Fitting(titles)) /\ SameCovers(filled, d)
      /\ Cardinality(Large(d.slots)) <= 2
  BY <1>5, ResizeKept
<1> HIDE DEF d
<1>7. d.list = name /\ Placed(d, wanted)
  BY <1>5, <1>6 DEF SameCovers, Placed
<1>8. d = RefreshCollection(c, name, titles, focus, offset, dir, allowLoad, fast, bad)
  BY DEF RefreshCollection, Refit, d, filled, moved, kept, own, wanted
<1> QED BY <1>6, <1>7, <1>8 DEF wanted

\* prepareCollectionCovers: the same, as often as it runs.
LEMMA PreparedKept ==
    ASSUME NEW titles, Len(titles) \in Nat, NEW c \in Caches, NEW name \in Lists,
           c.list = name => c \in CachesOf(Fitting(titles)),
           NEW focus \in Int, NEW bad
    PROVE  LET d == Prepared(c, name, titles, focus, bad)
           IN  d \in Caches /\ (d.list = name => d \in CachesOf(Fitting(titles)))
<1> DEFINE T == {d \in Caches : d.list = name => d \in CachesOf(Fitting(titles))}
           refresh(d) == RefreshCollection(d, name, titles, focus, 0, 1, TRUE, FALSE, bad)
           step == [d \in T |-> [k \in 0 .. CoverCount - 1 |-> refresh(d)]]
           is(f) == f = [n \in 0 .. CoverCount |-> IF n = 0 THEN c ELSE refresh(f[n - 1])]
           after == CHOOSE f : is(f)
<1>1. CoverCount \in Nat
  BY NavigationAssumption
<1>2. c \in T
  OBVIOUS
<1>3. ASSUME NEW d \in T PROVE refresh(d) \in T
  <2>1. d \in Caches /\ (d.list = name => d \in CachesOf(Fitting(titles)))
    OBVIOUS
  <2>2. refresh(d) \in CachesOf(Fitting(titles))
    <3> DEFINE offset == 0
               dir == 1
               allowLoad == TRUE
               fast == FALSE
               e == RefreshCollection(d, name, titles, focus, offset, dir, allowLoad,
                                      fast, bad)
    <3>1. offset \in Int /\ dir \in Int
      OBVIOUS
    <3>2. refresh(d) = e
      OBVIOUS
    <3> HIDE DEF offset, dir, allowLoad, fast
    <3>3. e \in CachesOf(Fitting(titles))
      BY <2>1, <3>1, RefreshCollectionKept
    <3> QED BY <3>2, <3>3
  <2> QED BY <2>2, FittingIsGood
<1>4. Prepared(c, name, titles, focus, bad) = after[CoverCount]
  BY DEF Prepared
<1> HIDE DEF T, after, refresh
<1>5. step \in [T -> [0 .. CoverCount - 1 -> T]]
  BY <1>3
<1>6. \E f : Run(f, CoverCount, T, c, step)
  <2> HIDE DEF step, is
  <2> QED BY <1>1, <1>2, <1>5, RunExists
<1>7. PICK f : Run(f, CoverCount, T, c, step)
  BY <1>6
<1>8. is(f)
  <2>1. ASSUME NEW k \in 1 .. CoverCount
        PROVE  f[k] = refresh(f[k - 1])
    <3>1. f[k - 1] \in T /\ k - 1 \in 0 .. CoverCount - 1
      BY <1>1, <1>7 DEF Run
    <3> QED BY <1>7, <3>1 DEF Run
  <2> QED BY <2>1, <1>1, <1>7 DEF Run
<1>9. is(after)
  BY <1>8 DEF after
<1>10. after[0] \in T
  BY <1>1, <1>2, <1>9
<1>11. ASSUME NEW k \in 1 .. CoverCount, after[k - 1] \in T PROVE after[k] \in T
  BY <1>1, <1>3, <1>9, <1>11
<1>12. \A k \in 0 .. CoverCount : after[k] \in T
  BY <1>1, <1>10, <1>11, UpTo
<1>13. after[CoverCount] \in T
  BY <1>1, <1>12
<1> QED BY <1>4, <1>13 DEF T

----------------------------------------------------------------------------
(* Orbit: the cache slides with the selected title.                        *)

LEMMA SameRest ==
    ASSUME NEW total \in Nat, total # 0, NEW k \in Int, NEW m \in Int,
           NEW s \in 0 .. total - 1, NEW t \in 0 .. total - 1,
           total * k + s = total * m + t
    PROVE  s = t
<1>1. ASSUME NEW i \in Int, NEW j \in Int, NEW u \in 0 .. total - 1,
             NEW v \in 0 .. total - 1, total * i + u = total * j + v
      PROVE  ~(i < j)
  <2>1. SUFFICES ASSUME i < j PROVE FALSE
    OBVIOUS
  <2>2. total * (j - i - 1) >= 0
    BY <2>1
  <2>3. total * (j - i - 1) = total * j - total * i - total
    OBVIOUS
  <2> QED BY <1>1, <2>2, <2>3
<1>2. k = m
  BY <1>1
<1> QED BY <1>2

\* Titles that differ by whole rounds are the same title.
LEMMA WrapAgain ==
    ASSUME NEW total \in Nat, total # 0, NEW a \in Int, NEW b \in Int
    PROVE  NavWrap(total, NavWrap(total, a) + b) = NavWrap(total, a + b)
<1> DEFINE q == a \div total
           r == a % total
           x == r + b
           k == x \div total
           s == x % total
           y == a + b
           m == y \div total
           t == y % total
<1>1. q \in Int /\ r \in 0 .. total - 1 /\ a = total * q + r
  OBVIOUS
<1>2. x \in Int /\ y = total * q + x
  <2> HIDE DEF q, r
  <2> QED BY <1>1
<1> HIDE DEF x, y
<1>3. k \in Int /\ s \in 0 .. total - 1 /\ x = total * k + s
  BY <1>2
<1>4. y \in Int
  BY DEF y
<1>5. m \in Int /\ t \in 0 .. total - 1 /\ y = total * m + t
  BY <1>4
<1> HIDE DEF q, k, s, m, t
<1>6. total * (q + k) + s = total * m + t /\ q + k \in Int
  BY <1>1, <1>2, <1>3, <1>5
<1>7. s = t
  <2> DEFINE l == q + k
  <2>1. l \in Int /\ total * l + s = total * m + t
    BY <1>6
  <2> HIDE DEF l
  <2> QED BY <1>3, <1>5, <2>1, SameRest
<1> QED BY <1>7 DEF NavWrap, s, t, x, y, r

\* Each cover that is kept is that of the title its slot stands for, around
\* the selected one.
Ringed(c, total, selected) ==
    \A i \in CoverSlots :
      c.slots[i].src # NoTitle =>
        c.slots[i].target = NavWrap(total, selected + i - CoverFocus)

\* What loading a set of slots leaves.
LoadedAnew(c, d, set, total, selected) ==
    /\ \A i \in CoverSlots \cap set :
         d.slots[i].target = NavWrap(total, selected + i - CoverFocus)
    /\ \A i \in CoverSlots \ set : d.slots[i] = c.slots[i]

\* Slots that are loaded anew, when at most the two of the focus can be at
\* full size after it.
LEMMA LoadAllKept ==
    ASSUME NEW titles, Len(titles) \in Nat \ {0}, NEW selected \in Int,
           NEW c \in CachesOf(Fitting(titles)), NEW set, NEW bad,
           \/ FullSize(c.slots) = {}
           \/ set \cap {CoverFocus - 1, CoverFocus} = {}
    PROVE  LET d == LoadAll(c, titles, selected, set, bad)
           IN  /\ d \in CachesOf(Fitting(titles)) /\ d.list = c.list
               /\ LoadedAnew(c, d, set, Len(titles), selected)
<1> DEFINE slots == [i \in CoverSlots |->
                       IF i \in set THEN LoadedEntry(titles, selected, i, bad)
                       ELSE c.slots[i]]
           near == {CoverFocus - 1, CoverFocus}
<1>1. LoadAll(c, titles, selected, set, bad) = With(c, slots)
  BY DEF LoadAll
<1>2. c.slots \in [CoverSlots -> Fitting(titles)]
      /\ Cardinality(FullSize(c.slots)) <= 2
  BY DEF CachesOf
<1>3. ASSUME NEW i \in CoverSlots, i \in set
      PROVE  /\ slots[i] \in Fitting(titles)
             /\ slots[i].target = NavWrap(Len(titles), selected + i - CoverFocus)
             /\ slots[i].vram /\ slots[i].mem = "source" => i \in near
  <2>1. slots[i] = LoadedEntry(titles, selected, i, bad)
    BY <1>3
  <2>2. LET e == LoadedEntry(titles, selected, i, bad)
        IN  /\ e \in Fitting(titles)
            /\ e.target = NavWrap(Len(titles), selected + i - CoverFocus)
            /\ e.vram /\ e.mem = "source" => i \in near
    BY EntrySlot
  <2> HIDE DEF slots, near
  <2> QED BY <2>1, <2>2
<1>4. ASSUME NEW i \in CoverSlots, i \notin set
      PROVE  slots[i] = c.slots[i] /\ slots[i] \in Fitting(titles)
  BY <1>2, <1>4
<1>5. slots = [i \in CoverSlots |-> slots[i]]
  OBVIOUS
<1> HIDE DEF slots
<1>6. slots \in [CoverSlots -> Fitting(titles)]
  BY <1>3, <1>4, <1>5
<1>7. FullSize(slots) \subseteq FullSize(c.slots) \cup (set \cap near)
  BY <1>3, <1>4 DEF FullSize
<1>8. Cardinality(FullSize(slots)) <= 2
  <2>1. CASE FullSize(c.slots) = {}
    <3>1. FullSize(slots) \subseteq near /\ near \in SUBSET CoverSlots
      BY <1>7, <2>1, SlotsAreFinite
    <3>2. Cardinality(near) <= 2
      BY TwoAreTwo
    <3> QED BY <3>1, <3>2, FewerOf
  <2>2. CASE set \cap near = {}
    <3>1. FullSize(slots) \subseteq FullSize(c.slots)
          /\ FullSize(c.slots) \in SUBSET CoverSlots
      BY <1>7, <2>2 DEF FullSize
    <3> QED BY <1>2, <3>1, FewerOf
  <2> QED BY <2>1, <2>2
<1>9. /\ With(c, slots) \in CachesOf(Fitting(titles))
      /\ With(c, slots).slots = slots /\ With(c, slots).list = c.list
  BY <1>6, <1>8, WithKept
<1>10. LoadedAnew(c, With(c, slots), set, Len(titles), selected)
  BY <1>3, <1>4, <1>9 DEF LoadedAnew
<1> QED BY <1>1, <1>9, <1>10

LEMMA SlideKept ==
    ASSUME NEW titles, Len(titles) \in Nat \ {0}, NEW selected \in Int,
           NEW c \in CachesOf(Fitting(titles)), NEW previous \in Int,
           Ringed(c, Len(titles), previous), NEW dir \in {-1, 1},
           NavWrap(Len(titles), previous + dir) = selected, NEW bad
    PROVE  LET d == Slide(c, titles, selected, dir, bad)
           IN  /\ d \in CachesOf(Fitting(titles)) /\ d.list = c.list
               /\ Ringed(d, Len(titles), selected)
<1> DEFINE edge == IF dir > 0 THEN CoverCount - 1 ELSE 0
           slid == [i \in CoverSlots |-> IF i = edge THEN EmptySlot
                                         ELSE c.slots[i + dir]]
           w == With(c, slid)
           d == Slide(c, titles, selected, dir, bad)
<1>1. d = LoadAll(w, titles, selected, {edge}, bad)
  BY DEF Slide
<1>2. c.slots \in [CoverSlots -> Fitting(titles)]
      /\ Cardinality(FullSize(c.slots)) <= 2
  BY DEF CachesOf
<1>3. edge \in CoverSlots /\ {edge} \cap {CoverFocus - 1, CoverFocus} = {}
  BY SlotsAreFinite
<1>4. \A i \in CoverSlots : i # edge => i + dir \in CoverSlots /\ i \in Int
  BY NavigationAssumption DEF CoverSlots
<1>5. slid \in [CoverSlots -> Fitting(titles)]
  BY <1>2, <1>4, FittingIsGood
<1>6. ~EmptySlot.vram
  BY 0 \in Int, EmptyIsGood
<1>7. \A i \in CoverSlots : /\ i = edge => slid[i] = EmptySlot
                            /\ i # edge => slid[i] = c.slots[i + dir]
  OBVIOUS
<1> HIDE DEF slid, edge
<1>8. Cardinality(FullSize(slid)) <= 2
  <2> DEFINE f == [i \in FullSize(slid) |-> i + dir]
  <2>1. \A i \in FullSize(slid) : i \in CoverSlots /\ i # edge
    BY <1>6, <1>7 DEF FullSize
  <2>2. f \in [FullSize(slid) -> FullSize(c.slots)]
    <3>1. \A i \in FullSize(slid) : i + dir \in FullSize(c.slots)
      BY <2>1, <1>4, <1>7 DEF FullSize
    <3> QED BY <3>1
  <2>3. \A i, j \in FullSize(slid) : f[i] = f[j] => i = j
    BY <2>1, <1>4
  <2> HIDE DEF f
  <2>4. f \in Injection(FullSize(slid), FullSize(c.slots))
    BY <2>2, <2>3 DEF Injection, IsInjective
  <2>5. FullSize(c.slots) \in SUBSET CoverSlots /\ FullSize(slid) \in SUBSET CoverSlots
    BY DEF FullSize
  <2>6. IsFiniteSet(FullSize(c.slots)) /\ IsFiniteSet(FullSize(slid))
    BY <2>5, SlotsAreFinite, FS_Subset
  <2>7. Cardinality(FullSize(slid)) <= Cardinality(FullSize(c.slots))
    BY <2>4, <2>6, FS_Injection
  <2>8. Cardinality(FullSize(slid)) \in Nat /\ Cardinality(FullSize(c.slots)) \in Nat
    BY <2>6, FS_CardinalityType
  <2> QED BY <1>2, <2>7, <2>8
<1>9. w \in CachesOf(Fitting(titles)) /\ w.slots = slid /\ w.list = c.list
  BY <1>5, <1>8, WithKept
<1> HIDE DEF w, d
<1>10. /\ d \in CachesOf(Fitting(titles)) /\ d.list = w.list
       /\ d.slots[edge].target = NavWrap(Len(titles), selected + edge - CoverFocus)
       /\ \A i \in CoverSlots : i # edge => d.slots[i] = w.slots[i]
  <2> DEFINE set == {edge}
  <2>1. d = LoadAll(w, titles, selected, set, bad)
    BY <1>1
  <2>2. set \cap {CoverFocus - 1, CoverFocus} = {}
    BY <1>3
  <2>3. edge \in CoverSlots \cap set /\ \A i \in CoverSlots : i # edge => i \in CoverSlots \ set
    BY <1>3
  <2> HIDE DEF set
  <2>4. /\ d \in CachesOf(Fitting(titles)) /\ d.list = w.list
        /\ LoadedAnew(w, d, set, Len(titles), selected)
    BY <1>9, <2>1, <2>2, LoadAllKept
  <2> QED BY <2>3, <2>4 DEF LoadedAnew
<1>11. Ringed(d, Len(titles), selected)
  <2> SUFFICES ASSUME NEW i \in CoverSlots, d.slots[i].src # NoTitle
               PROVE  d.slots[i].target = NavWrap(Len(titles), selected + i - CoverFocus)
    BY DEF Ringed
  <2>1. CASE i = edge
    BY <2>1, <1>10
  <2>2. CASE i # edge
    <3>1. d.slots[i] = c.slots[i + dir] /\ i + dir \in CoverSlots
      BY <2>2, <1>4, <1>7, <1>9, <1>10
    <3>2. d.slots[i].target = NavWrap(Len(titles), previous + (i + dir) - CoverFocus)
      BY <3>1 DEF Ringed
    <3>3. i \in Int /\ CoverFocus \in Int /\ Len(titles) \in Nat /\ Len(titles) # 0
      BY NavigationAssumption DEF CoverSlots
    <3>4. NavWrap(Len(titles), NavWrap(Len(titles), previous + dir) + (i - CoverFocus))
            = NavWrap(Len(titles), previous + dir + (i - CoverFocus))
      <4>1. previous + dir \in Int /\ i - CoverFocus \in Int
        BY <3>3
      <4> QED BY <3>3, <4>1, WrapAgain
    <3>5. /\ previous + dir + (i - CoverFocus) = previous + (i + dir) - CoverFocus
          /\ selected + (i - CoverFocus) = selected + i - CoverFocus
      BY <3>3
    <3> QED BY <3>2, <3>4, <3>5
  <2> QED BY <2>1, <2>2
<1> QED BY <1>9, <1>10, <1>11 DEF d

\* refreshPSBBNCovers: whatever the cache held, and however far the selection
\* moved, each cover is that of the title its slot stands for now.
LEMMA RefreshCoversKept ==
    ASSUME NEW titles, Len(titles) \in Nat \ {0}, NEW c0 \in Caches, NEW name \in Lists,
           c0.list = name => c0 \in CachesOf(Fitting(titles)),
           NEW selected \in Int, NEW previous0 \in Int,
           c0.list = name /\ previous0 >= 0 => Ringed(c0, Len(titles), previous0),
           NEW bad
    PROVE  LET d == RefreshCovers(c0, name, titles, selected, previous0, bad)
           IN  /\ d \in CachesOf(Fitting(titles)) /\ d.list = name
               /\ Ringed(d, Len(titles), selected)
<1> DEFINE other == c0.list # name
           c == IF other THEN [ReleaseCovers(c0) EXCEPT !.list = name] ELSE c0
           previous == IF other THEN -1 ELSE previous0
           dir == NavDirection(Len(titles), previous, selected)
           missing == Missing(c, titles, selected)
           adjacent == NavWrap(Len(titles), previous + dir) = selected
           down == DemoteAll(c, CoverSlots, bad)
           empty == [ReleaseCovers(c) EXCEPT !.list = name]
           d == RefreshCovers(c0, name, titles, selected, previous0, bad)
<1>1. /\ c \in CachesOf(Fitting(titles)) /\ c.list = name /\ previous \in Int
      /\ previous >= 0 => Ringed(c, Len(titles), previous)
  BY ReleasedKept
<1>2. d = CASE previous = selected /\ missing = {} -> c
            [] previous = selected /\ missing # {} ->
                 LoadAll(down, titles, selected, missing, bad)
            [] previous # selected /\ previous >= 0 /\ dir # 0 /\ adjacent ->
                 Slide(c, titles, selected, dir, bad)
            [] OTHER -> LoadAll(empty, titles, selected, CoverSlots, bad)
  BY DEF RefreshCovers
<1>3. dir \in {-1, 0, 1}
  BY DEF NavDirection
<1>4. \A i \in CoverSlots \ missing :
        c.slots[i].target = NavWrap(Len(titles), selected + i - CoverFocus)
  BY DEF Missing
<1> HIDE DEF c, previous, dir, missing, d
<1>5. CASE previous = selected /\ missing = {}
  <2>1. d = c
    BY <1>2, <1>5
  <2>2. Ringed(c, Len(titles), selected)
    BY <1>4, <1>5 DEF Ringed
  <2> QED BY <1>1, <2>1, <2>2 DEF d
<1>6. CASE previous = selected /\ missing # {}
  <2>1. d = LoadAll(down, titles, selected, missing, bad)
    BY <1>2, <1>6
  <2>2. /\ down \in CachesOf(Fitting(titles)) /\ SameCovers(c, down)
        /\ Large(down.slots) \subseteq Large(c.slots) \ CoverSlots
    BY <1>1, DemoteAllKept
  <2> HIDE DEF down
  <2>3. FullSize(down.slots) = {}
    <3>1. down.slots \in [CoverSlots -> GoodSlots]
      BY <2>2, FittingIsGood DEF CachesOf
    <3> QED BY <2>2, <3>1, FullIsLarge DEF Large
  <2>4. /\ d \in CachesOf(Fitting(titles)) /\ d.list = down.list
        /\ LoadedAnew(down, d, missing, Len(titles), selected)
    BY <2>1, <2>2, <2>3, LoadAllKept
  <2>5. \A i \in CoverSlots :
          d.slots[i].target = NavWrap(Len(titles), selected + i - CoverFocus)
    BY <1>4, <2>2, <2>4 DEF SameCovers, LoadedAnew
  <2> QED BY <1>1, <2>2, <2>4, <2>5 DEF SameCovers, Ringed, d
<1>7. CASE previous # selected /\ previous >= 0 /\ dir # 0 /\ adjacent
  <2>1. d = Slide(c, titles, selected, dir, bad) /\ dir \in {-1, 1}
    BY <1>2, <1>3, <1>7
  <2> QED BY <1>1, <1>7, <2>1, SlideKept DEF d
<1>8. CASE /\ previous # selected
           /\ ~(previous # selected /\ previous >= 0 /\ dir # 0 /\ adjacent)
  <2>1. d = LoadAll(empty, titles, selected, CoverSlots, bad)
    BY <1>2, <1>8
  <2>2. /\ empty \in CachesOf(Fitting(titles)) /\ empty.list = name
        /\ empty.slots = NoCovers
    BY <1>1, FittingIsGood, ReleasedKept
  <2> HIDE DEF empty
  <2>3. FullSize(empty.slots) = {}
    BY <2>2, 0 \in Int, EmptyIsGood DEF FullSize, NoCovers
  <2> DEFINE set == CoverSlots
  <2>4. d = LoadAll(empty, titles, selected, set, bad)
    BY <2>1
  <2> HIDE DEF set
  <2>5. /\ d \in CachesOf(Fitting(titles)) /\ d.list = empty.list
        /\ LoadedAnew(empty, d, set, Len(titles), selected)
    BY <2>2, <2>3, <2>4, LoadAllKept
  <2>6. Ringed(d, Len(titles), selected)
    BY <2>5 DEF LoadedAnew, Ringed, set
  <2> QED BY <2>2, <2>5, <2>6 DEF d
<1> QED BY <1>5, <1>6, <1>7, <1>8

\* Leaving for a view without covers keeps their pixels only.
LEMMA ReleasedVRAMKept ==
    ASSUME NEW c \in Caches
    PROVE  ReleaseVRAM(c) \in Caches /\ SameCovers(c, ReleaseVRAM(c))
<1> DEFINE slots == [i \in CoverSlots |-> [c.slots[i] EXCEPT !.vram = FALSE]]
<1>1. c \in [slots : [CoverSlots -> GoodSlots], list : Lists, peak : 0 .. 2]
  BY DEF Caches, CachesOf
<1>2. ReleaseVRAM(c) = [c EXCEPT !.slots = slots]
  BY <1>1 DEF ReleaseVRAM
<1>3. ASSUME NEW i \in CoverSlots
      PROVE  /\ slots[i] \in GoodSlots /\ ~slots[i].vram
             /\ slots[i].target = c.slots[i].target
             /\ slots[i].src = c.slots[i].src /\ slots[i].tried = c.slots[i].tried
             /\ slots[i].loaded = c.slots[i].loaded
  <2> DEFINE s == c.slots[i]
  <2>1. s \in GoodSlots
    BY <1>1
  <2>2. slots[i] = [s EXCEPT !.vram = FALSE] /\ s \in SlotTypes
    BY <2>1 DEF GoodSlots
  <2> HIDE DEF s, slots
  <2>3. /\ slots[i] \in SlotTypes /\ slots[i].vram = FALSE
        /\ slots[i].target = s.target
        /\ slots[i].src = s.src /\ slots[i].tried = s.tried
        /\ slots[i].loaded = s.loaded /\ slots[i].mem = s.mem
    BY <2>2 DEF SlotTypes
  <2>4. slots[i] \in GoodSlots
    BY <2>1, <2>3 DEF GoodSlots
  <2> QED BY <2>3, <2>4 DEF s
<1>4. slots = [i \in CoverSlots |-> slots[i]]
  OBVIOUS
<1> HIDE DEF slots
<1>5. slots \in [CoverSlots -> GoodSlots] /\ FullSize(slots) = {}
  BY <1>3, <1>4 DEF FullSize
<1>6. Cardinality(FullSize(slots)) <= 2
  BY <1>5, FS_EmptySet
<1> QED BY <1>1, <1>2, <1>3, <1>5, <1>6 DEF Caches, CachesOf, SameCovers

\* The same covers are those of the same list.
LEMMA SameFits ==
    ASSUME NEW titles, NEW c \in CachesOf(Fitting(titles)), NEW d \in Caches,
           SameCovers(c, d)
    PROVE  d \in CachesOf(Fitting(titles))
<1>1. ASSUME NEW i \in CoverSlots
      PROVE  d.slots[i] \in Fitting(titles)
  <2>1. c.slots[i] \in Fitting(titles) /\ d.slots[i] \in GoodSlots
    BY DEF Caches, CachesOf
  <2> QED BY <2>1 DEF SameCovers, Fitting
<1>2. d \in [slots : [CoverSlots -> GoodSlots], list : Lists, peak : 0 .. 2]
      /\ Cardinality(FullSize(d.slots)) <= 2
  BY DEF Caches, CachesOf
<1>3. d.slots \in [CoverSlots -> Fitting(titles)]
  BY <1>1, <1>2
<1> QED BY <1>2, <1>3 DEF CachesOf

----------------------------------------------------------------------------
(* The pages of Grid: a buffer holds covers of its own page only, the      *)
(* active page and the incoming one are where they are said to be, and the *)
(* selected title is on one of them.                                       *)

PageFields == {"sel", "pend", "active", "activeBase", "incoming", "incomingBase",
               "bases", "next", "covers", "cascade", "fast", "settling",
               "fastSel", "fastPage"}

Painted(g) ==
    /\ PageFields \subseteq DOMAIN g
    /\ DOMAIN g.bases = Buffers /\ g.next \in [Buffers -> Nat]
    /\ DOMAIN g.covers = Buffers
    /\ \A b \in Buffers :
         /\ DOMAIN g.covers[b] = Slots
         /\ \A s \in Slots : g.covers[b][s] \in {-1, g.bases[b] + s}

Linked(g) ==
    /\ g.active \in Buffers /\ g.bases[g.active] = g.activeBase
    /\ g.cascade => /\ g.incoming \in Buffers
                    /\ g.bases[g.incoming] = g.incomingBase
                    /\ g.incomingBase = PageOf(g.sel)
    /\ ~g.cascade => g.incoming = -1
    /\ g.activeBase >= 0 /\ ~g.cascade => g.activeBase = PageOf(g.sel)
    /\ g.fast => ~g.cascade
    /\ g.fast \/ g.settling => g.fastPage = PageOf(g.fastSel)

GridRight(g) == Painted(g) /\ Linked(g)

\* A page was opened: every frame begins with that.
Opened(g) == ~g.cascade => g.activeBase = PageOf(g.sel)

\* What a change of the large cover, or of when a page is due, leaves alone.
SameScreen(g, h) ==
    /\ DOMAIN h = DOMAIN g
    /\ h.bases = g.bases /\ h.next = g.next /\ h.covers = g.covers
    /\ h.active = g.active /\ h.activeBase = g.activeBase
    /\ h.incoming = g.incoming /\ h.incomingBase = g.incomingBase
    /\ h.cascade = g.cascade /\ h.sel = g.sel /\ h.fast = g.fast
    /\ h.settling = g.settling /\ h.fastSel = g.fastSel /\ h.fastPage = g.fastPage

LEMMA SameRight ==
    ASSUME NEW g, GridRight(g), NEW h, SameScreen(g, h)
    PROVE  GridRight(h) /\ (Opened(g) => Opened(h))
<1>1. Painted(h)
  BY DEF GridRight, Painted, SameScreen
<1>2. Linked(h) /\ (Opened(g) => Opened(h))
  BY DEF GridRight, Linked, Opened, SameScreen
<1> QED BY <1>1, <1>2 DEF GridRight

LEMMA SameScreens ==
    ASSUME NEW g, NEW h, NEW k, SameScreen(g, h), SameScreen(h, k)
    PROVE  SameScreen(g, k)
BY DEF SameScreen

LEMMA LargeAlone ==
    ASSUME NEW g, NEW title
    PROVE  /\ SameScreen(g, LoadLarge(g, title)) /\ LoadLarge(g, title).pend = g.pend
           /\ SameScreen(g, DropLarge(g)) /\ DropLarge(g).pend = g.pend
           /\ SameScreen(g, ShowLarge(g, title)) /\ ShowLarge(g, title).pend = g.pend
<1>1. SameScreen(g, LoadLarge(g, title)) /\ LoadLarge(g, title).pend = g.pend
  BY DEF SameScreen, LoadLarge
<1>2. ASSUME NEW h
      PROVE  SameScreen(h, DropLarge(h)) /\ DropLarge(h).pend = h.pend
  BY DEF SameScreen, DropLarge
<1> DEFINE h == [g EXCEPT !.big = 1 - g.big, !.bigIdx = title]
<1>3. SameScreen(g, h) /\ h.pend = g.pend
  BY DEF SameScreen
<1> HIDE DEF h
<1>4. SameScreen(g, DropLarge(h)) /\ DropLarge(h).pend = g.pend
  BY <1>2, <1>3, SameScreens
<1> QED BY <1>1, <1>2, <1>4 DEF ShowLarge, h

LEMMA StaleAlone ==
    ASSUME NEW g
    PROVE  SameScreen(g, DropStale(g)) /\ DropStale(g).pend = g.pend
<1> DEFINE h == DropLarge(g)
<1>1. SameScreen(g, h) /\ h.pend = g.pend
  BY LargeAlone
<1> HIDE DEF h
<1>2. SameScreen(h, [h EXCEPT !.pendCover = -1])
      /\ [h EXCEPT !.pendCover = -1].pend = h.pend
  BY DEF SameScreen
<1>3. SameScreen(g, [h EXCEPT !.pendCover = -1])
  BY <1>1, <1>2, SameScreens
<1>4. SameScreen(g, g)
  BY DEF SameScreen
<1> QED BY <1>1, <1>2, <1>3, <1>4 DEF DropStale, h

LEMMA SelectedAlone ==
    ASSUME NEW g
    PROVE  SameScreen(g, LoadSelected(g))
<1> DEFINE h == IF g.requested = g.sel THEN g
                ELSE [g EXCEPT !.requested = g.sel, !.attempted = -1]
           large == LoadLarge(h, h.requested)
           tried == [large EXCEPT !.attempted = h.requested]
           none == [tried EXCEPT !.large[tried.big + 1] = -1, !.bigIdx = h.requested]
<1>1. SameScreen(g, h)
  BY DEF SameScreen
<1> HIDE DEF h
<1>2. SameScreen(h, large)
  BY LargeAlone
<1> HIDE DEF large
<1>3. SameScreen(large, tried)
  BY DEF SameScreen
<1> HIDE DEF tried
<1>4. SameScreen(tried, ShowLarge(tried, h.requested))
  BY LargeAlone
<1>5. SameScreen(tried, none)
  BY DEF SameScreen
<1> HIDE DEF none
<1>6. /\ SameScreen(g, h) /\ SameScreen(g, ShowLarge(tried, h.requested))
      /\ SameScreen(g, none)
  BY <1>1, <1>2, <1>3, <1>4, <1>5, SameScreens
<1>7. LoadSelected(g) \in {h, ShowLarge(tried, h.requested), none}
  BY DEF LoadSelected, h, large, tried, none
<1> QED BY <1>6, <1>7

\* One cover of a page: it is one of the page's own.
LEMMA LoadStepRight ==
    ASSUME NEW g, GridRight(g), NEW b \in Buffers, ~Complete(g, b)
    PROVE  LET h == LoadStep(g, b)
           IN  /\ GridRight(h) /\ (Opened(g) => Opened(h))
               /\ h.bases = g.bases /\ h.pend = g.pend /\ h.fast = g.fast
               /\ h.cascade = g.cascade
<1> DEFINE slot == g.next[b]
           title == g.bases[b] + slot
           cover == CoverOf(title)
           taken == [g EXCEPT !.next[b] = slot + 1, !.covers[b][slot] = cover,
                              !.did = TRUE]
           rest == [g EXCEPT !.next[b] = GridPageSize, !.did = FALSE]
<1>1. GridPageSize \in Nat \ {0}
  BY NavigationAssumption
<1>2. slot \in Slots /\ slot + 1 \in Nat
  <2>1. slot \in Nat
    BY DEF GridRight, Painted
  <2> QED BY <1>1, <2>1 DEF Complete, Slots
<1>3. cover \in {-1, title}
  BY DEF CoverOf
<1>4. Painted(taken)
  <2> HIDE DEF cover, slot
  <2>1. /\ taken.bases = g.bases /\ taken.next = [g.next EXCEPT ![b] = slot + 1]
        /\ taken.covers = [g.covers EXCEPT ![b] = [g.covers[b] EXCEPT ![slot] = cover]]
        /\ DOMAIN taken = DOMAIN g
    BY DEF GridRight, Painted, PageFields
  <2> HIDE DEF taken
  <2>2. taken.next \in [Buffers -> Nat] /\ DOMAIN taken.covers = Buffers
    BY <1>2, <2>1 DEF GridRight, Painted
  <2>3. ASSUME NEW c \in Buffers
        PROVE  /\ DOMAIN taken.covers[c] = Slots
               /\ \A s \in Slots : taken.covers[c][s] \in {-1, taken.bases[c] + s}
    <3>1. CASE c = b
      <4>1. taken.covers[c] = [g.covers[b] EXCEPT ![slot] = cover]
        BY <2>1, <3>1 DEF GridRight, Painted
      <4>2. DOMAIN g.covers[b] = Slots
            /\ \A s \in Slots : g.covers[b][s] \in {-1, g.bases[b] + s}
        BY DEF GridRight, Painted
      <4> QED BY <1>2, <1>3, <2>1, <3>1, <4>1, <4>2
    <3>2. CASE c # b
      <4>1. taken.covers[c] = g.covers[c]
        BY <2>1, <3>2 DEF GridRight, Painted
      <4> QED BY <2>1, <4>1 DEF GridRight, Painted
    <3> QED BY <3>1, <3>2
  <2> QED BY <2>1, <2>2, <2>3 DEF GridRight, Painted
<1>5. Painted(rest)
  BY <1>1 DEF GridRight, Painted, PageFields
<1>6. \A h \in {taken, rest} :
        /\ Linked(h) /\ (Opened(g) => Opened(h)) /\ h.bases = g.bases
        /\ h.pend = g.pend /\ h.fast = g.fast /\ h.cascade = g.cascade
  BY ZenonT(60) DEF GridRight, Painted, PageFields, Linked, Opened
<1>7. LoadStep(g, b) \in {taken, rest}
  BY DEF LoadStep, RestOfPage
<1> HIDE DEF taken, rest
<1> QED BY <1>4, <1>5, <1>6, <1>7 DEF GridRight

\* A buffer that is neither on the screen nor coming in is taken for a page.
LEMMA PrepareRight ==
    ASSUME NEW g, Painted(g), NEW b \in Buffers, NEW page
    PROVE  LET h == Prepare(g, b, page)
           IN  /\ Painted(h) /\ DOMAIN h = DOMAIN g
               /\ h.bases = [g.bases EXCEPT ![b] = page]
               /\ h.active = g.active /\ h.activeBase = g.activeBase
               /\ h.incoming = g.incoming /\ h.incomingBase = g.incomingBase
               /\ h.cascade = g.cascade /\ h.sel = g.sel /\ h.fast = g.fast
               /\ h.settling = g.settling /\ h.fastSel = g.fastSel
               /\ h.fastPage = g.fastPage /\ h.pend = g.pend
<1> DEFINE h == Prepare(g, b, page)
<1>1. /\ DOMAIN h = DOMAIN g /\ h.bases = [g.bases EXCEPT ![b] = page]
      /\ h.next = [g.next EXCEPT ![b] = 0] /\ h.covers = [g.covers EXCEPT ![b] = NoPage]
      /\ h.active = g.active /\ h.activeBase = g.activeBase
      /\ h.incoming = g.incoming /\ h.incomingBase = g.incomingBase
      /\ h.cascade = g.cascade /\ h.sel = g.sel /\ h.fast = g.fast
      /\ h.settling = g.settling /\ h.fastSel = g.fastSel
      /\ h.fastPage = g.fastPage /\ h.pend = g.pend
  BY DEF Prepare, Painted, PageFields
<1> HIDE DEF h
<1>2. Painted(h)
  BY <1>1 DEF Painted, NoPage
<1> QED BY <1>1, <1>2 DEF h

LEMMA FoundBuffer ==
    ASSUME NEW bases, NEW page
    PROVE  LET b == NavFindBuffer(bases, page)
           IN  b = -1 \/ (b \in Buffers /\ bases[b] = page)
<1> DEFINE hits == {b \in Buffers : bases[b] = page}
<1>1. CASE hits = {}
  BY <1>1 DEF NavFindBuffer
<1>2. CASE hits # {}
  <2>1. hits \in SUBSET Nat
    BY DEF Buffers
  <2>2. Min(hits) \in hits
    BY <1>2, <2>1, MinIsLeast
  <2> QED BY <1>2, <2>2 DEF NavFindBuffer
<1> QED BY <1>1, <1>2

LEMMA ChosenBuffer ==
    ASSUME NEW bases, NEW used
    PROVE  LET b == NavChooseBuffer(bases, used)
           IN  b = -1 \/ (b \in Buffers /\ b \notin used)
<1> DEFINE free == Buffers \ used
           empty == {b \in free : bases[b] < 0}
<1>1. free \in SUBSET Nat /\ empty \in SUBSET Nat
  BY DEF Buffers
<1>2. CASE empty # {}
  <2>1. Min(empty) \in empty
    BY <1>1, <1>2, MinIsLeast
  <2> QED BY <1>2, <2>1 DEF NavChooseBuffer
<1>3. CASE empty = {} /\ free # {}
  <2>1. Min(free) \in free
    BY <1>1, <1>3, MinIsLeast
  <2> QED BY <1>3, <2>1 DEF NavChooseBuffer
<1>4. CASE empty = {} /\ free = {}
  BY <1>4 DEF NavChooseBuffer
<1> QED BY <1>2, <1>3, <1>4

\* The page gets a buffer of its own, if there is one.
LEMMA BufferedRight ==
    ASSUME NEW g, GridRight(g), NEW page
    PROVE  LET p == Buffered(g, page)
           IN  /\ GridRight(p.g) /\ (Opened(g) => Opened(p.g))
               /\ p.b = -1 \/ (p.b \in Buffers /\ p.g.bases[p.b] = page)
               /\ p.g.pend = g.pend /\ p.g.fast = g.fast /\ p.g.cascade = g.cascade
               /\ DOMAIN p = {"g", "b"}
<1> DEFINE found == NavFindBuffer(g.bases, page)
           free == NavChooseBuffer(g.bases, {g.active, g.previous, g.incoming})
           h == Prepare(g, free, page)
<1>1. found = -1 \/ (found \in Buffers /\ g.bases[found] = page)
  BY FoundBuffer
<1>2. free = -1 \/ (free \in Buffers /\ free # g.active /\ free # g.incoming)
  BY ChosenBuffer
<1> HIDE DEF found, free
<1>3. free \in Buffers =>
        /\ GridRight(h) /\ (Opened(g) => Opened(h)) /\ h.bases[free] = page
        /\ h.pend = g.pend /\ h.fast = g.fast /\ h.cascade = g.cascade
  <2> SUFFICES ASSUME free \in Buffers
               PROVE  /\ GridRight(h) /\ (Opened(g) => Opened(h)) /\ h.bases[free] = page
                      /\ h.pend = g.pend /\ h.fast = g.fast /\ h.cascade = g.cascade
    OBVIOUS
  <2>1. free # g.active /\ free # g.incoming
    BY <1>2 DEF Buffers
  <2>2. /\ Painted(h) /\ h.bases = [g.bases EXCEPT ![free] = page]
        /\ h.active = g.active /\ h.activeBase = g.activeBase
        /\ h.incoming = g.incoming /\ h.incomingBase = g.incomingBase
        /\ h.cascade = g.cascade /\ h.sel = g.sel /\ h.fast = g.fast
        /\ h.settling = g.settling /\ h.fastSel = g.fastSel
        /\ h.fastPage = g.fastPage /\ h.pend = g.pend
    BY PrepareRight DEF GridRight
  <2> HIDE DEF h
  <2>3. Linked(h) /\ (Opened(g) => Opened(h)) /\ h.bases[free] = page
    BY <2>1, <2>2 DEF GridRight, Painted, Linked, Opened
  <2> QED BY <2>2, <2>3 DEF GridRight
<1> HIDE DEF h
<1>4. Buffered(g, page) = IF found >= 0 THEN [g |-> g, b |-> found]
                          ELSE IF free >= 0 THEN [g |-> h, b |-> free]
                          ELSE [g |-> g, b |-> -1]
  BY DEF Buffered, found, free, h
<1> QED BY <1>1, <1>2, <1>3, <1>4 DEF Buffers

\* The page of the pending title while it is loaded.
Pending(p) ==
    /\ DOMAIN p = {"g", "b"}
    /\ GridRight(p.g) /\ Opened(p.g) /\ ~p.g.fast
    /\ p.b = -1 \/ /\ p.b \in Buffers /\ ~p.g.cascade
                   /\ p.g.bases[p.b] = PageOf(p.g.pend)

LEMMA PendingRight ==
    ASSUME NEW g, GridRight(g), Opened(g), ~g.fast
    PROVE  Pending(PendingPage(g))
<1> DEFINE p == Buffered(g, PageOf(g.pend))
           q == [g |-> g, b |-> -1]
<1>1. /\ GridRight(p.g) /\ Opened(p.g) /\ DOMAIN p = {"g", "b"}
      /\ p.b = -1 \/ (p.b \in Buffers /\ p.g.bases[p.b] = PageOf(g.pend))
      /\ p.g.pend = g.pend /\ p.g.fast = g.fast /\ p.g.cascade = g.cascade
  BY BufferedRight
<1> HIDE DEF p
<1>2. ~g.cascade => Pending(p)
  BY <1>1 DEF Pending
<1>3. Pending(q)
  BY DEF Pending
<1>4. PendingPage(g) = q \/ (~g.cascade /\ PendingPage(g) = p)
  BY DEF PendingPage, p
<1> QED BY <1>2, <1>3, <1>4

LEMMA LoadPageRight ==
    ASSUME NEW p, Pending(p)
    PROVE  Pending(LoadPage(p))
<1> DEFINE own == LoadStep(p.g, p.b)
           active == LoadStep(p.g, p.g.active)
<1>1. GridRight(p.g) /\ Opened(p.g) /\ p.g.active \in Buffers
  BY DEF Pending, GridRight, Linked
<1>2. ASSUME NEW b \in Buffers, ~Complete(p.g, b)
      PROVE  Pending([p EXCEPT !.g = LoadStep(p.g, b)])
  <2> DEFINE h == LoadStep(p.g, b)
  <2>1. /\ GridRight(h) /\ Opened(h) /\ h.bases = p.g.bases /\ h.pend = p.g.pend
        /\ h.fast = p.g.fast /\ h.cascade = p.g.cascade
    BY <1>1, <1>2, LoadStepRight
  <2> HIDE DEF h
  <2>2. Pending([p EXCEPT !.g = h])
    BY <2>1 DEF Pending
  <2> QED BY <2>2 DEF h
<1>3. CASE p.b >= 0 /\ ~Complete(p.g, p.b)
  <2>1. p.b \in Buffers
    BY <1>3 DEF Pending
  <2> QED BY <1>2, <1>3, <2>1 DEF LoadPage
<1>4. CASE ~(p.b >= 0 /\ ~Complete(p.g, p.b))
  BY <1>1, <1>2, <1>4 DEF LoadPage
<1> QED BY <1>3, <1>4

LEMMA LoadCoverRight ==
    ASSUME NEW p, Pending(p)
    PROVE  Pending(LoadCover(p))
<1> DEFINE large == LoadLarge(p.g, p.g.pend)
           h == [large EXCEPT !.pendCover = p.g.pend, !.did = TRUE]
<1>1. SameScreen(p.g, large) /\ large.pend = p.g.pend
  BY LargeAlone
<1> HIDE DEF large
<1>2. SameScreen(large, h) /\ h.pend = large.pend
  BY DEF SameScreen
<1>3. SameScreen(p.g, h) /\ h.pend = p.g.pend
  BY <1>1, <1>2, SameScreens
<1> HIDE DEF h
<1>4. GridRight(h) /\ Opened(h)
  BY <1>3, SameRight DEF Pending
<1>5. Pending([p EXCEPT !.g = h])
  BY <1>3, <1>4 DEF Pending, SameScreen
<1>6. LoadCover(p) = p \/ LoadCover(p) = [p EXCEPT !.g = h]
  BY DEF LoadCover, h, large
<1> QED BY <1>5, <1>6

\* The page `page` in buffer b becomes the active one.
LEMMA PromoteRight ==
    ASSUME NEW g, GridRight(g), NEW b \in Buffers, NEW page, NEW dir,
           g.bases[b] = page, page = PageOf(g.sel)
    PROVE  LET h == Promote(g, b, page, dir)
           IN  /\ GridRight(h) /\ Opened(h) /\ ~h.cascade /\ h.fast = g.fast
               /\ h.pend = g.pend /\ h.sel = g.sel
               /\ h.fastSel = g.fastSel /\ h.fastPage = g.fastPage
               /\ h.settling = g.settling
<1> DEFINE h == Promote(g, b, page, dir)
<1>1. /\ DOMAIN h = DOMAIN g /\ h.active = b /\ h.activeBase = page
      /\ h.incoming = -1 /\ h.bases = g.bases /\ h.next = g.next /\ h.covers = g.covers
      /\ h.cascade = FALSE /\ h.fast = g.fast /\ h.pend = g.pend /\ h.sel = g.sel
      /\ h.fastSel = g.fastSel /\ h.fastPage = g.fastPage
      /\ h.settling = g.settling
  BY DEF Promote, GridRight, Painted, PageFields
<1> HIDE DEF h
<1>2. Painted(h)
  BY <1>1 DEF GridRight, Painted
<1>3. Linked(h) /\ Opened(h)
  BY <1>1 DEF GridRight, Linked, Opened
<1> QED BY <1>1, <1>2, <1>3 DEF GridRight, h

LEMMA EndedAlone ==
    ASSUME NEW g
    PROVE  SameScreen(g, EndPending(g))
BY DEF SameScreen, EndPending

LEMMA FinishRight ==
    ASSUME NEW g, GridRight(g), g.cascade
    PROVE  LET h == FinishCascade(g)
           IN  GridRight(h) /\ Opened(h) /\ h.fast = g.fast
<1> DEFINE k == Promote(g, g.incoming, g.incomingBase, g.cascadeDir)
<1>1. g.incoming \in Buffers /\ g.bases[g.incoming] = g.incomingBase
      /\ g.incomingBase = PageOf(g.sel)
  BY DEF GridRight, Linked
<1>2. GridRight(k) /\ Opened(k) /\ k.fast = g.fast
  BY <1>1, PromoteRight
<1> HIDE DEF k
<1>3. SameScreen(k, EndPending(k))
  BY EndedAlone
<1>4. GridRight(EndPending(k)) /\ Opened(EndPending(k)) /\ EndPending(k).fast = g.fast
  BY <1>2, <1>3, SameRight DEF SameScreen
<1> QED BY <1>4 DEF FinishCascade, k

\* The pending title is selected as its page comes in.
LEMMA ShowRight ==
    ASSUME NEW g, GridRight(g), ~g.fast, ~g.cascade,
           NEW b \in Buffers, g.bases[b] = PageOf(g.pend)
    PROVE  LET h == ShowPending(g, b)
           IN  GridRight(h) /\ Opened(h) /\ ~h.fast
<1> DEFINE large == ShowLarge(g, g.pend)
           h == [large EXCEPT !.requested = g.pend, !.attempted = g.pend, !.sel = g.pend]
           page == g.bases[b]
           fdir == IF g.fastDir # 0 THEN g.fastDir ELSE g.pageDir
           cdir == IF g.pageDir # 0 THEN g.pageDir
                   ELSE IF page > g.activeBase THEN 1 ELSE -1
           k == Promote(h, b, page, fdir)
           settled == [EndPending(k) EXCEPT !.settling = FALSE]
           coming == [h EXCEPT !.incoming = b, !.incomingBase = page,
                               !.cascade = TRUE, !.cascadeDir = cdir]
<1>1. SameScreen(g, large)
  BY LargeAlone
<1> HIDE DEF large
<1>2. /\ DOMAIN h = DOMAIN g /\ h.sel = g.pend /\ h.bases = g.bases /\ h.next = g.next
      /\ h.covers = g.covers /\ h.active = g.active /\ h.activeBase = g.activeBase
      /\ h.cascade = g.cascade /\ h.fast = g.fast /\ h.settling = g.settling
      /\ h.fastSel = g.fastSel /\ h.fastPage = g.fastPage
  BY <1>1 DEF SameScreen, GridRight, Painted, PageFields
<1> HIDE DEF h
<1>3. /\ DOMAIN k = DOMAIN g /\ k.active = b /\ k.activeBase = page
      /\ k.incoming = -1
      /\ k.bases = g.bases /\ k.next = g.next /\ k.covers = g.covers
      /\ k.cascade = FALSE /\ k.fast = g.fast /\ k.sel = g.pend
  BY <1>2 DEF Promote, GridRight, Painted, PageFields
<1> HIDE DEF k
<1>4. /\ DOMAIN settled = DOMAIN g /\ settled.active = b /\ settled.activeBase = page
      /\ settled.bases = g.bases /\ settled.next = g.next /\ settled.covers = g.covers
      /\ settled.cascade = FALSE /\ settled.fast = g.fast /\ settled.sel = g.pend
      /\ settled.settling = FALSE /\ settled.incoming = -1
  <2>1. SameScreen(k, EndPending(k))
    BY EndedAlone
  <2> QED BY <1>3, <2>1 DEF SameScreen, GridRight, Painted, PageFields
<1> HIDE DEF settled
<1>5. Painted(settled) /\ Linked(settled) /\ Opened(settled)
  BY <1>4 DEF GridRight, Painted, Linked, Opened
<1>6. /\ DOMAIN coming = DOMAIN g /\ coming.active = g.active
      /\ coming.activeBase = g.activeBase /\ coming.incoming = b
      /\ coming.incomingBase = page /\ coming.cascade = TRUE
      /\ coming.bases = g.bases /\ coming.next = g.next /\ coming.covers = g.covers
      /\ coming.fast = g.fast /\ coming.sel = g.pend /\ coming.settling = g.settling
      /\ coming.fastSel = g.fastSel /\ coming.fastPage = g.fastPage
  <2> HIDE DEF cdir
  <2> QED BY <1>2 DEF GridRight, Painted, PageFields
<1> HIDE DEF coming
<1>7. Painted(coming) /\ Linked(coming) /\ Opened(coming)
  BY <1>6 DEF GridRight, Painted, Linked, Opened
<1>8. ShowPending(g, b) = IF g.settling THEN settled ELSE coming
  BY DEF ShowPending, settled, coming, k, h, large
<1> QED BY <1>4, <1>5, <1>6, <1>7, <1>8 DEF GridRight

LEMMA LoadPendingRight ==
    ASSUME NEW g, GridRight(g), Opened(g), ~g.fast
    PROVE  LET h == LoadPending(g)
           IN  GridRight(h) /\ Opened(h) /\ ~h.fast
<1> DEFINE p == LoadCover(LoadPage(PendingPage(g)))
<1>1. Pending(p)
  BY PendingRight, LoadPageRight, LoadCoverRight
<1> HIDE DEF p
<1>2. CASE Ready(p) /\ p.g.pendCover = p.g.pend
  <2>1. p.b \in Buffers
    BY <1>1, <1>2 DEF Pending, Ready
  <2>2. /\ GridRight(p.g) /\ ~p.g.fast /\ ~p.g.cascade
        /\ p.g.bases[p.b] = PageOf(p.g.pend)
    BY <1>1, <2>1 DEF Pending, Buffers
  <2>3. LET h == ShowPending(p.g, p.b) IN GridRight(h) /\ Opened(h) /\ ~h.fast
    BY <2>1, <2>2, ShowRight
  <2> QED BY <1>2, <2>3 DEF LoadPending, ShowWhenReady, p
<1>3. CASE ~(Ready(p) /\ p.g.pendCover = p.g.pend)
  BY <1>1, <1>3 DEF LoadPending, ShowWhenReady, Pending, p
<1> QED BY <1>2, <1>3

LEMMA PrefetchRight ==
    ASSUME NEW g, GridRight(g), Opened(g), ~g.fast
    PROVE  LET h == Prefetch(g)
           IN  GridRight(h) /\ Opened(h) /\ ~h.fast
<1> DEFINE next == NavPageBase(Total, g.activeBase, g.prefetchDir)
           before == NavPageBase(Total, g.activeBase, -g.prefetchDir)
           first == Buffered(g, next)
           second == Buffered(first.g, before)
           good(h) == GridRight(h) /\ Opened(h) /\ ~h.fast
           open(p) == p.b >= 0 /\ ~Complete(p.g, p.b)
<1>1. good(first.g) /\ first.b \in Buffers \cup {-1}
  <2> HIDE DEF next
  <2> QED BY BufferedRight
<1>2. good(second.g) /\ second.b \in Buffers \cup {-1}
  <2> HIDE DEF before, first
  <2> QED BY <1>1, BufferedRight
<1>3. ASSUME NEW h, good(h), NEW b \in Buffers \cup {-1}, b >= 0, ~Complete(h, b)
      PROVE  good(LoadStep(h, b))
  BY <1>3, LoadStepRight
<1>4. /\ open(first) => good(LoadStep(first.g, first.b))
      /\ open(second) => good(LoadStep(second.g, second.b))
  <2> HIDE DEF first, second, good
  <2> QED BY <1>1, <1>2, <1>3
<1>5. Prefetch(g) \in {g, second.g}
      \/ (open(first) /\ Prefetch(g) = LoadStep(first.g, first.b))
      \/ (open(second) /\ Prefetch(g) = LoadStep(second.g, second.b))
  <2> HIDE DEF next, before
  <2> QED BY DEF Prefetch, next, before
<1> HIDE DEF first, second
<1> QED BY <1>1, <1>2, <1>4, <1>5

\* A frame of Grid.
LEMMA OpenRight ==
    ASSUME NEW g, GridRight(g)
    PROVE  LET h == OpenPage(g)
           IN  GridRight(h) /\ Opened(h) /\ h.fast = g.fast
<1> DEFINE page == PageOf(g.sel)
           k == [g EXCEPT !.activeBase = page]
           h == Prepare(k, g.active, page)
<1>1. CASE g.activeBase >= 0
  BY <1>1 DEF OpenPage, GridRight, Linked, Opened
<1>2. CASE ~(g.activeBase >= 0)
  <2>1. Painted(k) /\ g.active \in Buffers
    BY DEF GridRight, Painted, Linked, PageFields
  <2>2. /\ k.bases = g.bases /\ k.active = g.active /\ k.activeBase = page
        /\ k.incoming = g.incoming /\ k.incomingBase = g.incomingBase
        /\ k.cascade = g.cascade /\ k.sel = g.sel /\ k.fast = g.fast
        /\ k.settling = g.settling /\ k.fastSel = g.fastSel /\ k.fastPage = g.fastPage
    BY DEF GridRight, Painted, PageFields
  <2> HIDE DEF k
  <2>3. /\ Painted(h) /\ h.bases = [k.bases EXCEPT ![g.active] = page]
        /\ h.active = k.active /\ h.activeBase = k.activeBase
        /\ h.incoming = k.incoming /\ h.incomingBase = k.incomingBase
        /\ h.cascade = k.cascade /\ h.sel = k.sel /\ h.fast = k.fast
        /\ h.settling = k.settling /\ h.fastSel = k.fastSel /\ h.fastPage = k.fastPage
    <3> HIDE DEF page
    <3> QED BY <2>1, PrepareRight
  <2> HIDE DEF h
  <2>4. Linked(h) /\ Opened(h)
    <3> HIDE DEF page
    <3>1. /\ h.bases[h.active] = h.activeBase /\ h.active \in Buffers
          /\ h.activeBase = page
      BY <2>1, <2>2, <2>3 DEF GridRight, Painted
    <3>2. h.sel = g.sel /\ page = PageOf(h.sel)
      BY <2>2, <2>3 DEF page
    <3>3. h.cascade => /\ h.incoming \in Buffers
                       /\ h.bases[h.incoming] = h.incomingBase /\ h.incomingBase = page
      BY <2>1, <2>2, <2>3, <3>2 DEF GridRight, Painted, Linked
    <3>4. /\ h.fast => ~h.cascade
          /\ ~h.cascade => h.incoming = -1
          /\ h.fast \/ h.settling => h.fastPage = PageOf(h.fastSel)
      BY <2>2, <2>3 DEF GridRight, Linked
    <3> QED BY <3>1, <3>2, <3>3, <3>4 DEF Linked, Opened
  <2>5. h.fast = g.fast /\ OpenPage(g) = h
    BY <1>2, <2>2, <2>3 DEF OpenPage, h, k
  <2> QED BY <2>3, <2>4, <2>5 DEF GridRight
<1> QED BY <1>1, <1>2

LEMMA GridFrameRight ==
    ASSUME NEW g, GridRight(g), NEW due
    PROVE  GridRight(GridFrame(g, due)) /\ Opened(GridFrame(g, due))
<1> DEFINE o == OpenPage(g)
           good(h) == GridRight(h) /\ Opened(h) /\ ~h.fast
<1>1. GridRight(o) /\ Opened(o) /\ o.fast = g.fast
  BY OpenRight
<1> HIDE DEF o
<1>2. CASE o.fast \/ o.shoulder # 0
  BY <1>1, <1>2 DEF GridFrame, Worked, o
<1>3. CASE ~o.fast /\ o.shoulder = 0
  <2> DEFINE a == LoadPending(o)
             b == CascadeEnd(a, o.cascade, due)
             c == LoadSelected(b)
             d == Prefetch(c)
             e == [d EXCEPT !.did = FALSE]
  <2>1. good(a)
    BY <1>1, <1>3, LoadPendingRight
  <2> HIDE DEF a
  <2>2. good(b)
    BY <2>1, FinishRight DEF CascadeEnd
  <2> HIDE DEF b
  <2>3. SameScreen(b, c)
    BY SelectedAlone
  <2> HIDE DEF c
  <2>4. good(c)
    BY <2>2, <2>3, SameRight DEF SameScreen
  <2>5. good(d)
    BY <2>4, PrefetchRight
  <2> HIDE DEF d
  <2>6. SameScreen(d, e)
    BY DEF SameScreen
  <2> HIDE DEF e
  <2>7. GridRight(e) /\ Opened(e)
    BY <2>5, <2>6, SameRight
  <2> QED BY <1>3, <2>7 DEF GridFrame, Worked, Artwork, o, a, b, c, d, e
<1> QED BY <1>2, <1>3

\* The buttons of Grid select a title only on the page that is on the screen.
LEMMA SelectRight ==
    ASSUME NEW g, GridRight(g), ~g.cascade, NEW to, PageOf(to) = g.activeBase,
           NEW h, DOMAIN h = DOMAIN g, h.sel = to,
           h.bases = g.bases, h.next = g.next, h.covers = g.covers,
           h.active = g.active, h.activeBase = g.activeBase, h.incoming = g.incoming,
           h.cascade = g.cascade,
           h.fast => g.fast, h.settling => g.fast \/ g.settling,
           h.fastSel = g.fastSel, h.fastPage = g.fastPage
    PROVE  GridRight(h)
<1>1. Painted(h)
  BY DEF GridRight, Painted
<1>2. Linked(h)
  BY DEF GridRight, Linked
<1> QED BY <1>1, <1>2 DEF GridRight

LEMMA PendRight ==
    ASSUME NEW g, GridRight(g), NEW to
    PROVE  LET h == [g EXCEPT !.pend = to]
           IN  GridRight(h) /\ SameScreen(g, h)
<1> DEFINE h == [g EXCEPT !.pend = to]
<1>1. SameScreen(g, h)
  BY DEF SameScreen
<1> QED BY <1>1, SameRight

LEMMA TapRight ==
    ASSUME NEW g, GridRight(g), ~g.cascade, NEW dir
    PROVE  LET h == [TapPage(g, dir) EXCEPT !.shoulder = 0]
           IN  GridRight(h)
<1> DEFINE to == NavGridPage(Total, From(g), dir)
           own == [g EXCEPT !.pend = -1, !.sel = to]
           other == [g EXCEPT !.pend = to]
           h == IF PageOf(to) = g.activeBase THEN own ELSE other
           k == DropStale(h)
           m == [k EXCEPT !.pageDir = dir]
           n == [m EXCEPT !.shoulder = 0]
<1> HIDE DEF to
<1>1. ASSUME PageOf(to) = g.activeBase
      PROVE  GridRight(own)
  <2>1. /\ DOMAIN own = DOMAIN g /\ own.sel = to /\ own.bases = g.bases
        /\ own.next = g.next /\ own.covers = g.covers /\ own.active = g.active
        /\ own.activeBase = g.activeBase /\ own.cascade = g.cascade
        /\ own.fast = g.fast /\ own.settling = g.settling
        /\ own.fastSel = g.fastSel /\ own.fastPage = g.fastPage
        /\ own.incoming = g.incoming
    BY DEF GridRight, Painted, PageFields
  <2> HIDE DEF own
  <2> QED BY <1>1, <2>1, SelectRight
<1>2. GridRight(other)
  BY PendRight
<1>3. GridRight(h)
  BY <1>1, <1>2
<1> HIDE DEF h
<1>4. GridRight(k)
  BY <1>3, StaleAlone, SameRight
<1> HIDE DEF k
<1>5. SameScreen(k, m)
  BY DEF SameScreen
<1> HIDE DEF m
<1>6. SameScreen(m, n)
  BY DEF SameScreen
<1> HIDE DEF n
<1>7. GridRight(n)
  BY <1>4, <1>5, <1>6, SameRight
<1> QED BY <1>7 DEF TapPage, n, m, k, h, to

LEMMA MoveRight ==
    ASSUME NEW g, GridRight(g), ~g.cascade, NEW to
    PROVE  GridRight(GridMove(g, to))
<1> DEFINE d == IF g.pendCover >= 0 THEN DropLarge(g) ELSE g
           own == [d EXCEPT !.pend = -1, !.pendCover = -1, !.sel = to]
           other == [g EXCEPT !.pend = to]
           h == IF PageOf(to) = g.activeBase THEN own ELSE DropStale(other)
           dir == NavDirection(Total, From(g), to)
           k == [h EXCEPT !.pageDir = dir]
<1> HIDE DEF dir
<1>1. SameScreen(g, d)
  <2>1. SameScreen(g, g)
    BY DEF SameScreen
  <2> QED BY <2>1, LargeAlone
<1>2. GridRight(d)
  BY <1>1, SameRight
<1>3. ASSUME PageOf(to) = g.activeBase
      PROVE  GridRight(own)
  <2> HIDE DEF d
  <2>1. /\ DOMAIN own = DOMAIN d /\ own.sel = to /\ own.bases = d.bases
        /\ own.next = d.next /\ own.covers = d.covers /\ own.active = d.active
        /\ own.activeBase = d.activeBase /\ own.cascade = d.cascade
        /\ own.fast = d.fast /\ own.settling = d.settling
        /\ own.fastSel = d.fastSel /\ own.fastPage = d.fastPage
        /\ own.incoming = d.incoming
    BY <1>2 DEF GridRight, Painted, PageFields
  <2>2. ~d.cascade /\ PageOf(to) = d.activeBase
    BY <1>1, <1>3 DEF SameScreen
  <2> HIDE DEF own
  <2> QED BY <1>2, <2>1, <2>2, SelectRight
<1>4. GridRight(other)
  BY PendRight
<1> HIDE DEF own, other
<1>5. GridRight(DropStale(other))
  BY <1>4, StaleAlone, SameRight
<1>6. GridRight(h)
  BY <1>3, <1>5
<1> HIDE DEF h
<1>7. SameScreen(h, k)
  BY DEF SameScreen
<1> HIDE DEF k
<1>8. GridRight(k)
  BY <1>6, <1>7, SameRight
<1> QED BY <1>8 DEF GridMove, k, h, own, other, d, dir

\* While the pages run by, the title under the shoulder is on the page shown.
LEMMA FastStepRight ==
    ASSUME NEW g, GridRight(g), NEW from, NEW dir
    PROVE  GridRight(FastStep(g, from, dir))
<1> DEFINE to == NavGridPage(Total, from, dir)
           h == [g EXCEPT !.fastDir = dir, !.fastFrom = PageOf(from),
                          !.fastSel = to, !.fastPage = PageOf(to)]
<1>1. /\ DOMAIN h = DOMAIN g /\ h.bases = g.bases /\ h.next = g.next
      /\ h.covers = g.covers /\ h.active = g.active /\ h.activeBase = g.activeBase
      /\ h.incoming = g.incoming /\ h.incomingBase = g.incomingBase
      /\ h.cascade = g.cascade /\ h.sel = g.sel /\ h.fast = g.fast
      /\ h.settling = g.settling /\ h.fastSel = to /\ h.fastPage = PageOf(to)
  <2> HIDE DEF to
  <2> QED BY DEF GridRight, Painted, PageFields
<1> HIDE DEF h, to
<1>2. Painted(h)
  BY <1>1 DEF GridRight, Painted
<1>3. Linked(h)
  BY <1>1 DEF GridRight, Linked
<1> QED BY <1>2, <1>3 DEF GridRight, FastStep, h, to

LEMMA FastStartRight ==
    ASSUME NEW g, GridRight(g), ~g.fast
    PROVE  GridRight(FastStart(g))
<1> DEFINE landed == g.cascade /\ g.incoming >= 0
           p == Promote(g, g.incoming, g.incomingBase, g.cascadeDir)
           d == IF g.pendCover >= 0 THEN DropLarge(g) ELSE g
           h == IF landed THEN p ELSE d
           from == IF landed THEN g.sel ELSE From(g)
           to == NavGridPage(Total, from, g.shoulder)
           started == [h EXCEPT !.pend = -1, !.pendCover = -1, !.fast = TRUE,
                                !.settling = FALSE]
           k == FastStep(started, from, g.shoulder)
<1>1. ASSUME landed
      PROVE  GridRight(p) /\ ~p.cascade
  <2>1. g.incoming \in Buffers /\ g.bases[g.incoming] = g.incomingBase
        /\ g.incomingBase = PageOf(g.sel)
    BY <1>1 DEF GridRight, Linked
  <2> QED BY <2>1, PromoteRight
<1>2. ASSUME ~landed
      PROVE  GridRight(d) /\ ~d.cascade
  <2>1. SameScreen(g, g)
    BY DEF SameScreen
  <2>2. SameScreen(g, d)
    BY <2>1, LargeAlone
  <2>3. ~g.cascade
    BY <1>2 DEF GridRight, Linked, Buffers
  <2> QED BY <2>2, <2>3, SameRight DEF SameScreen
<1> HIDE DEF p, d
<1>3. GridRight(h) /\ ~h.cascade
  BY <1>1, <1>2
<1> HIDE DEF h, from
<1>4. /\ DOMAIN started = DOMAIN h /\ started.bases = h.bases /\ started.next = h.next
      /\ started.covers = h.covers /\ started.active = h.active
      /\ started.activeBase = h.activeBase /\ started.cascade = h.cascade
      /\ started.sel = h.sel /\ started.incoming = h.incoming /\ started.fast = TRUE /\ started.settling = FALSE
  BY <1>3 DEF GridRight, Painted, PageFields
<1> HIDE DEF started
<1>5. /\ DOMAIN k = DOMAIN h /\ k.bases = h.bases /\ k.next = h.next
      /\ k.covers = h.covers /\ k.active = h.active /\ k.activeBase = h.activeBase
      /\ k.cascade = h.cascade /\ k.sel = h.sel /\ k.incoming = h.incoming
      /\ k.fastSel = to /\ k.fastPage = PageOf(to)
  <2> HIDE DEF to
  <2> QED BY <1>3, <1>4 DEF FastStep, GridRight, Painted, PageFields, to
<1> HIDE DEF k, to
<1>6. Painted(k)
  BY <1>3, <1>5 DEF GridRight, Painted
<1>7. Linked(k)
  BY <1>3, <1>5 DEF GridRight, Linked
<1> QED BY <1>6, <1>7 DEF GridRight, FastStart, k, started, h, p, d, from

LEMMA FastEndRight ==
    ASSUME NEW g, GridRight(g), g.fast
    PROVE  GridRight(FastEnd(g))
<1> DEFINE h == [g EXCEPT !.fast = FALSE, !.shoulder = 0, !.pageDir = g.fastDir,
                          !.pendCover = -1]
           own == [h EXCEPT !.pend = -1, !.sel = g.fastSel, !.settling = FALSE]
           other == [h EXCEPT !.pend = g.fastSel, !.settling = TRUE]
<1>1. /\ DOMAIN h = DOMAIN g /\ h.bases = g.bases /\ h.next = g.next
      /\ h.covers = g.covers /\ h.active = g.active /\ h.activeBase = g.activeBase
      /\ h.incoming = g.incoming /\ h.incomingBase = g.incomingBase
      /\ h.cascade = g.cascade /\ h.sel = g.sel /\ h.fast = FALSE
      /\ h.settling = g.settling /\ h.fastSel = g.fastSel /\ h.fastPage = g.fastPage
  BY DEF GridRight, Painted, PageFields
<1> HIDE DEF h
<1>2. ~g.cascade
  BY DEF GridRight, Linked
<1>3. ASSUME PageOf(g.fastSel) = g.activeBase
      PROVE  GridRight(own)
  <2>1. /\ DOMAIN own = DOMAIN g /\ own.sel = g.fastSel /\ own.bases = g.bases
        /\ own.next = g.next /\ own.covers = g.covers /\ own.active = g.active
        /\ own.activeBase = g.activeBase /\ own.cascade = g.cascade
        /\ own.fast = FALSE /\ own.settling = FALSE
        /\ own.fastSel = g.fastSel /\ own.fastPage = g.fastPage
        /\ own.incoming = g.incoming
    BY <1>1 DEF GridRight, Painted, PageFields
  <2> HIDE DEF own
  <2>2. Painted(own)
    BY <2>1 DEF GridRight, Painted
  <2>3. Linked(own)
    BY <1>2, <1>3, <2>1 DEF GridRight, Linked
  <2> QED BY <2>2, <2>3 DEF GridRight
<1>4. GridRight(other)
  <2>1. /\ DOMAIN other = DOMAIN g /\ other.sel = g.sel /\ other.bases = g.bases
        /\ other.next = g.next /\ other.covers = g.covers /\ other.active = g.active
        /\ other.activeBase = g.activeBase /\ other.cascade = g.cascade
        /\ other.fast = FALSE /\ other.settling = TRUE
        /\ other.fastSel = g.fastSel /\ other.fastPage = g.fastPage
        /\ other.incoming = g.incoming
    BY <1>1 DEF GridRight, Painted, PageFields
  <2> HIDE DEF other
  <2>2. Painted(other)
    BY <2>1 DEF GridRight, Painted
  <2>3. Linked(other)
    BY <1>2, <2>1 DEF GridRight, Linked
  <2> QED BY <2>2, <2>3 DEF GridRight
<1> QED BY <1>3, <1>4 DEF FastEnd, own, other, h

LEMMA ShoulderRight ==
    ASSUME NEW g, GridRight(g), NEW dir
    PROVE  GridRight(ShoulderChange(g, dir))
<1> DEFINE h == [g EXCEPT !.shoulder = dir]
<1>1. SameScreen(g, h)
  BY DEF SameScreen
<1> HIDE DEF h
<1>2. GridRight(h)
  BY <1>1, SameRight
<1>3. GridRight(FastStep(h, g.fastSel, dir))
  BY <1>2, FastStepRight
<1> QED BY <1>2, <1>3 DEF ShoulderChange, h

LEMMA ResetRight ==
    ASSUME NEW sel
    PROVE  GridRight(GridReset(sel))
<1> DEFINE g == GridReset(sel)
<1>1. PageFields \subseteq DOMAIN g
  BY DEF GridReset, PageFields
<1>2. /\ g.bases = [b \in Buffers |-> -1] /\ g.next = [b \in Buffers |-> 0]
      /\ g.covers = [b \in Buffers |-> NoPage] /\ g.active = 0 /\ g.activeBase = -1
      /\ g.incoming = -1 /\ g.cascade = FALSE /\ g.fast = FALSE /\ g.settling = FALSE
  BY DEF GridReset
<1> HIDE DEF g
<1>3. Painted(g)
  BY <1>1, <1>2 DEF Painted, NoPage
<1>4. Linked(g)
  BY <1>2 DEF Linked, Buffers
<1> QED BY <1>3, <1>4 DEF GridRight, g

\* What the screen shows then.
LEMMA ScreenRight ==
    ASSUME NEW g, GridRight(g), Opened(g)
    PROVE  LET pages == Screen(g).pages
           IN  /\ \A page \in pages :
                    page[1] >= 0 /\ page[2] >= 0 =>
                      /\ g.bases[page[2]] = page[1]
                      /\ \A s \in Slots : g.covers[page[2]][s] \in {-1, page[1] + s}
               /\ \E page \in pages : page[1] = PageOf(Screen(g).title)
<1> DEFINE full(base) ==
             LET b == NavFindBuffer(g.bases, base)
             IN  IF b >= 0 /\ Complete(g, b) THEN b ELSE -1
           own(page, b) ==
             page >= 0 /\ b >= 0 =>
               /\ g.bases[b] = page
               /\ \A s \in Slots : g.covers[b][s] \in {-1, page + s}
<1>1. ASSUME NEW page, NEW b, b = -1 \/ (b \in Buffers /\ g.bases[b] = page)
      PROVE  own(page, b)
  BY <1>1 DEF GridRight, Painted
<1>2. ASSUME NEW page
      PROVE  own(page, full(page)) /\ own(page, NavFindBuffer(g.bases, page))
  <2> DEFINE b == NavFindBuffer(g.bases, page)
  <2>1. b = -1 \/ (b \in Buffers /\ g.bases[b] = page)
    BY FoundBuffer
  <2>2. full(page) = b \/ full(page) = -1
    OBVIOUS
  <2> HIDE DEF b, full, own
  <2> QED BY <1>1, <2>1, <2>2 DEF b
<1> HIDE DEF full, own
<1>3. CASE g.fast
  <2>1. /\ Screen(g).pages = {<<g.fastFrom, full(g.fastFrom)>>,
                              <<g.fastPage, full(g.fastPage)>>}
        /\ Screen(g).title = g.fastSel
    BY <1>3 DEF Screen, full
  <2>2. g.fastPage = PageOf(g.fastSel)
    BY <1>3 DEF GridRight, Linked
  <2> QED BY <1>2, <2>1, <2>2 DEF own
<1>4. CASE ~g.fast /\ g.settling /\ ~g.cascade
  <2>1. /\ Screen(g).pages = {<<g.fastPage, NavFindBuffer(g.bases, g.fastPage)>>}
        /\ Screen(g).title = g.fastSel
    BY <1>4 DEF Screen
  <2>2. g.fastPage = PageOf(g.fastSel)
    BY <1>4 DEF GridRight, Linked
  <2> QED BY <1>2, <2>1, <2>2 DEF own
<1>5. CASE ~g.fast /\ ~(g.settling /\ ~g.cascade)
  <2>1. /\ Screen(g).pages = {<<g.activeBase, g.active>>,
                              <<g.incomingBase, g.incoming>>}
        /\ Screen(g).title = g.sel
    BY <1>5 DEF Screen
  <2>2. own(g.activeBase, g.active) /\ own(g.incomingBase, g.incoming)
    BY <1>1 DEF GridRight, Linked
  <2>3. g.activeBase = PageOf(g.sel) \/ g.incomingBase = PageOf(g.sel)
    BY DEF GridRight, Linked, Opened
  <2> QED BY <2>1, <2>2, <2>3 DEF own
<1> QED BY <1>3, <1>4, <1>5
====

---- MODULE Library_proofs ----
(***************************************************************************)
(* What nhddl remembers is kept: proofs about Library, for every list of   *)
(* titles, every history of presses and starts, and every size of a page   *)
(* or of the cover cache.                                                  *)
(***************************************************************************)
EXTENDS Library, LibraryViews_proofs

----------------------------------------------------------------------------
(* The marked titles in order of rank.                                     *)

\* lunaNavMarkedRank numbers the marked titles in their order, from 0 ...
LEMMA RankOrder ==
    ASSUME NEW set \in TitleSets
    PROVE  /\ \A i, j \in set : i < j => NavMarkedRank(set, i) < NavMarkedRank(set, j)
           /\ \A i \in set : NavMarkedRank(set, i) \in 0 .. Cardinality(set) - 1
<1> DEFINE n == Cardinality(set)
           Below(i) == {j \in set : j < i}
<1>1. set \subseteq Int /\ IsFiniteSet(set)
  BY DEF TitleSets
<1>2. n \in Nat
  BY <1>1, FS_CardinalityType
<1>3. \A i \in set : IsFiniteSet(Below(i)) /\ Cardinality(Below(i)) \in Nat
  <2> SUFFICES ASSUME NEW i \in set
               PROVE  IsFiniteSet(Below(i)) /\ Cardinality(Below(i)) \in Nat
    OBVIOUS
  <2>1. Below(i) \in SUBSET set
    OBVIOUS
  <2>2. IsFiniteSet(Below(i))
    BY <2>1, <1>1, FS_Subset
  <2> QED BY <2>2, FS_CardinalityType
<1>4. ASSUME NEW i \in set, NEW j \in set, i < j
      PROVE  Cardinality(Below(i)) < Cardinality(Below(j))
  <2>0. i \in Int /\ j \in Int /\ \A l \in set : l \in Int
    BY <1>1
  <2>1. Below(i) \cup {i} \in SUBSET Below(j) /\ i \notin Below(i)
    <3>1. \A l \in Below(i) : l \in set /\ l < j
      BY <2>0, <1>4
    <3>2. i \in Below(j) /\ i \notin Below(i)
      BY <2>0, <1>4
    <3> QED BY <3>1, <3>2
  <2>2. Cardinality(Below(i) \cup {i}) = Cardinality(Below(i)) + 1
    BY <2>1, <1>3, FS_AddElement
  <2>3. Cardinality(Below(i) \cup {i}) <= Cardinality(Below(j))
    BY <2>1, <1>3, FS_Subset
  <2>4. Cardinality(Below(i)) \in Nat /\ Cardinality(Below(j)) \in Nat
    BY <1>3
  <2> QED BY <2>2, <2>3, <2>4
<1>5. \A i \in set : Cardinality(Below(i)) \in 0 .. n - 1
  <2> SUFFICES ASSUME NEW i \in set
               PROVE  Cardinality(Below(i)) \in 0 .. n - 1
    OBVIOUS
  <2>0. i \in Int
    BY <1>1
  <2>1. Below(i) \cup {i} \in SUBSET set /\ i \notin Below(i)
    BY <2>0
  <2>2. Cardinality(Below(i) \cup {i}) = Cardinality(Below(i)) + 1
    BY <2>1, <1>3, FS_AddElement
  <2>3. Cardinality(Below(i) \cup {i}) <= n
    BY <2>1, <1>1, FS_Subset
  <2> QED BY <2>2, <2>3, <1>3, <1>2
<1>6. \A i \in set : NavMarkedRank(set, i) = Cardinality(Below(i))
  BY DEF NavMarkedRank
<1> QED BY <1>4, <1>5, <1>6

\* ... and without a gap, so that lunaNavMarkedByRank, which wraps, finds one
\* of them for every rank.
LEMMA RankedIsMarked ==
    ASSUME NEW set \in TitleSets, set # {}, NEW rank \in Int
    PROVE  NavMarkedByRank(set, rank) \in set
<1> DEFINE n == Cardinality(set)
           f == [i \in set |-> NavMarkedRank(set, i)]
<1>1. set \subseteq Int /\ IsFiniteSet(set)
  BY DEF TitleSets
<1>2. n \in Nat /\ n # 0
  BY <1>1, FS_CardinalityType, FS_EmptySet
<1>3. f \in Injection(set, 0 .. n - 1)
  <2>1. f \in [set -> 0 .. n - 1]
    BY RankOrder
  <2>2. ASSUME NEW i \in set, NEW j \in set, f[i] = f[j]
        PROVE  i = j
    <3>1. NavMarkedRank(set, i) = NavMarkedRank(set, j)
      BY <2>2
    <3>2. ~(i < j) /\ ~(j < i)
      BY <3>1, <1>2, RankOrder
    <3> QED BY <3>2, <1>1
  <2> QED BY <2>1, <2>2, Zenon DEF Injection, IsInjective
<1>4. f \in Surjection(set, 0 .. n - 1)
  <2>1. IsFiniteSet(0 .. n - 1) /\ Cardinality(0 .. n - 1) = n
    BY <1>2, FS_Interval, SMTT(30)
  <2> QED BY <2>1, <1>3, FS_Injection
<1>5. NavWrap(n, rank) \in 0 .. n - 1
  BY <1>2 DEF NavWrap
<1>6. PICK i \in set : f[i] = NavWrap(n, rank)
  BY <1>4, <1>5 DEF Surjection
<1> QED BY <1>6 DEF NavMarkedByRank

\* A rank is wrapped once: it leads back to the title it is the rank of.
LEMMA RankFound ==
    ASSUME NEW set \in TitleSets, NEW i \in set
    PROVE  NavMarkedByRank(set, NavMarkedRank(set, i)) = i
<1> DEFINE n == Cardinality(set)
           rank == NavMarkedRank(set, i)
           j == NavMarkedByRank(set, rank)
<1>1. set \subseteq Int /\ n \in Nat
  BY FS_CardinalityType DEF TitleSets
<1>2. rank \in 0 .. n - 1
  BY RankOrder
<1>3. NavWrap(n, rank) = rank
  <2> HIDE DEF n, rank
  <2> QED BY <1>1, <1>2 DEF NavWrap
<1>4. j \in set /\ NavMarkedRank(set, j) = rank
  BY <1>3 DEF NavMarkedByRank
<1>5. i \in Int /\ j \in Int /\ rank \in Int
  <2>1. rank \in Int
    <3> HIDE DEF rank
    <3> QED BY <1>1, <1>2
  <2>2. \A k \in set : k \in Int
    BY <1>1
  <2> QED BY <2>1, <2>2, <1>4
<1> HIDE DEF j
<1>6. i < j => NavMarkedRank(set, i) < NavMarkedRank(set, j)
  BY <1>4, RankOrder
<1>7. j < i => NavMarkedRank(set, j) < NavMarkedRank(set, i)
  BY <1>4, RankOrder
<1>8. i = j
  BY <1>4, <1>5, <1>6, <1>7
<1> QED BY <1>8 DEF j

LEMMA RankWrapped ==
    ASSUME NEW set \in TitleSets, set # {}, NEW rank \in Int
    PROVE  NavMarkedByRank(set, NavWrap(Cardinality(set), rank)) = NavMarkedByRank(set, rank)
<1> DEFINE n == Cardinality(set)
<1>1. n \in Nat /\ n # 0
  BY FS_CardinalityType, FS_EmptySet DEF TitleSets
<1>2. NavWrap(n, NavWrap(n, rank)) = NavWrap(n, rank)
  <2> HIDE DEF n
  <2> DEFINE r == rank % n
  <2>1. r \in 0 .. n - 1
    BY <1>1
  <2> HIDE DEF r
  <2>2. r % n = r
    BY <1>1, <2>1
  <2> QED BY <1>1, <2>2 DEF NavWrap, r
<1> QED BY <1>2 DEF NavMarkedByRank

\* The rank of a title is a number, also of one that is not marked.
LEMMA RankType ==
    ASSUME NEW set \in TitleSets, NEW i \in Int
    PROVE  NavMarkedRank(set, i) \in Int
<1>1. {j \in set : j < i} \in SUBSET set /\ IsFiniteSet(set)
  BY DEF TitleSets
<1>2. Cardinality({j \in set : j < i}) \in Nat
  BY <1>1, FS_Subset, FS_CardinalityType
<1> QED BY <1>2 DEF NavMarkedRank

\* The lesser and the greater of two numbers.
LEMMA MinOfTwo ==
    ASSUME NEW a \in Int, NEW b \in Int
    PROVE  Min({a, b}) \in Int
<1>1. \E x \in {a, b} : \A y \in {a, b} : x <= y
  <2>1. CASE a <= b
    BY <2>1
  <2>2. CASE b <= a
    BY <2>2
  <2> QED BY <2>1, <2>2
<1> QED BY <1>1 DEF Min

LEMMA MaxOfTwo ==
    ASSUME NEW a \in Int, NEW b \in Int
    PROVE  Max({a, b}) \in Int
<1>1. \E x \in {a, b} : \A y \in {a, b} : x >= y
  <2>1. CASE a <= b
    BY <2>1
  <2>2. CASE b <= a
    BY <2>2
  <2> QED BY <2>1, <2>2
<1> QED BY <1>1 DEF Max

\* A step through the marked titles ends on one.
LEMMA StepIsMarked ==
    ASSUME NEW set \in TitleSets, set # {}, NEW i \in Int, NEW dir \in {-1, 1}
    PROVE  NavMarkedStep(set, i, dir) \in set
<1>1. NavMarkedRank(set, i) \in Int
  BY RankType
<1> QED BY <1>1, RankedIsMarked DEF NavMarkedStep

\* A page through them too.
LEMMA PageIsMarked ==
    ASSUME NEW set \in TitleSets, set # {}, NEW i \in Int, NEW size \in Nat,
           NEW dir \in {-1, 1}
    PROVE  NavMarkedPage(set, i, size, dir) \in set
<1> DEFINE n == Cardinality(set)
           rank == NavMarkedRank(set, i)
           to == IF rank < 0 THEN IF dir < 0 THEN n - 1 ELSE 0
                 ELSE IF dir > 0
                 THEN IF rank = n - 1 THEN 0 ELSE Min({rank + size, n - 1})
                 ELSE IF rank = 0 THEN n - 1 ELSE Max({rank - size, 0})
<1>1. n \in Nat /\ n # 0
  BY FS_CardinalityType, FS_EmptySet DEF TitleSets
<1>2. rank \in Int
  BY RankType
<1>3. Min({rank + size, n - 1}) \in Int
  BY <1>1, <1>2, MinOfTwo
<1>4. Max({rank - size, 0}) \in Int
  BY <1>1, <1>2, MaxOfTwo
<1>5. to \in Int
  <2> HIDE DEF n, rank
  <2> QED BY <1>1, <1>2, <1>3, <1>4
<1>6. NavMarkedPage(set, i, size, dir) = NavMarkedByRank(set, to)
  <2> HIDE DEF to
  <2> QED BY <1>1 DEF NavMarkedPage, to
<1> QED BY <1>5, <1>6, RankedIsMarked

----------------------------------------------------------------------------
(* The Grid view keeps the numbers of titles.                              *)

GridOK(g) == /\ {"sel", "pend", "fastSel", "shoulder"} \subseteq DOMAIN g
             /\ g.sel \in Int /\ g.pend \in Int /\ g.fastSel \in Int
             /\ g.shoulder \in {-1, 0, 1}
PageOK(p) == DOMAIN p = {"g", "b"} /\ GridOK(p.g)

\* The changes that leave the selection, the pending title and the one under
\* the shoulder alone.
LEMMA GridKept ==
    ASSUME NEW g, GridOK(g), NEW a, NEW b, NEW c, NEW d
    PROVE  /\ GridOK(Prepare(g, a, b)) /\ GridOK(LoadStep(g, a))
           /\ GridOK(LoadLarge(g, a)) /\ GridOK(DropLarge(g))
           /\ GridOK(ShowLarge(g, a)) /\ GridOK(Promote(g, a, b, c))
           /\ GridOK(EndPending(g)) /\ GridOK(FinishCascade(g))
           /\ GridOK([g EXCEPT !.did = d]) /\ GridOK([g EXCEPT !.pageDir = d])
           /\ d \in {-1, 0, 1} => GridOK([g EXCEPT !.shoulder = d])
<1>1. GridOK(Prepare(g, a, b))
  BY DEF GridOK, Prepare
<1>2. GridOK(LoadStep(g, a))
  BY DEF GridOK, LoadStep, RestOfPage
<1>3. GridOK(LoadLarge(g, a)) /\ GridOK(DropLarge(g))
  BY DEF GridOK, LoadLarge, DropLarge
<1>4. GridOK(ShowLarge(g, a))
  BY DEF GridOK, ShowLarge, DropLarge
<1>5. ASSUME NEW h, GridOK(h), NEW e, NEW page, NEW dir
      PROVE  GridOK(Promote(h, e, page, dir)) /\ GridOK(EndPending(h))
  BY <1>5 DEF GridOK, Promote, EndPending
<1>6. GridOK(Promote(g, g.incoming, g.incomingBase, g.cascadeDir))
  BY <1>5
<1>7. GridOK(FinishCascade(g))
  BY <1>5, <1>6 DEF FinishCascade
<1>8. /\ GridOK([g EXCEPT !.did = d]) /\ GridOK([g EXCEPT !.pageDir = d])
      /\ d \in {-1, 0, 1} => GridOK([g EXCEPT !.shoulder = d])
  BY DEF GridOK
<1> QED BY <1>1, <1>2, <1>3, <1>4, <1>5, <1>7, <1>8

LEMMA BufferedKept ==
    ASSUME NEW g, GridOK(g), NEW page
    PROVE  PageOK(Buffered(g, page))
<1>1. \A b, x : GridOK(Prepare(g, b, x))
  BY GridKept
<1> QED BY <1>1 DEF Buffered, PageOK

\* A frame of the Grid view.
LEMMA ShowPendingKept ==
    ASSUME NEW g, GridOK(g), NEW b
    PROVE  GridOK(ShowPending(g, b))
<1> DEFINE h == [ShowLarge(g, g.pend) EXCEPT !.requested = g.pend,
                                             !.attempted = g.pend,
                                             !.sel = g.pend]
           page == g.bases[b]
           dir == IF g.fastDir # 0 THEN g.fastDir ELSE g.pageDir
           cdir == IF g.pageDir # 0 THEN g.pageDir
                   ELSE IF page > g.activeBase THEN 1 ELSE -1
<1>1. GridOK(ShowLarge(g, g.pend)) /\ g.pend \in Int
  BY GridKept DEF GridOK
<1>2. GridOK(h)
  BY <1>1 DEF GridOK
<1> HIDE DEF h
<1>3. GridOK(EndPending(Promote(h, b, page, dir)))
  BY <1>2, GridKept
<1>4. GridOK([EndPending(Promote(h, b, page, dir)) EXCEPT !.settling = FALSE])
  BY <1>3 DEF GridOK
<1>5. GridOK([h EXCEPT !.incoming = b, !.incomingBase = page,
                       !.cascade = TRUE, !.cascadeDir = cdir])
  <2> HIDE DEF cdir, page
  <2> QED BY <1>2 DEF GridOK
<1> QED BY <1>4, <1>5 DEF ShowPending, h

LEMMA LoadPendingKept ==
    ASSUME NEW g, GridOK(g)
    PROVE  GridOK(LoadPending(g))
<1>1. PageOK(PendingPage(g))
  BY BufferedKept DEF PendingPage, PageOK
<1>2. ASSUME NEW p, PageOK(p)
      PROVE  PageOK(LoadPage(p))
  <2>1. GridOK(LoadStep(p.g, p.b)) /\ GridOK(LoadStep(p.g, p.g.active))
    BY <1>2, GridKept DEF PageOK
  <2> QED BY <1>2, <2>1 DEF LoadPage, PageOK
<1>3. ASSUME NEW p, PageOK(p)
      PROVE  PageOK(LoadCover(p))
  <2>1. GridOK(LoadLarge(p.g, p.g.pend))
    BY <1>3, GridKept DEF PageOK
  <2>2. GridOK([LoadLarge(p.g, p.g.pend) EXCEPT !.pendCover = p.g.pend, !.did = TRUE])
    BY <2>1 DEF GridOK
  <2> QED BY <1>3, <2>2 DEF LoadCover, PageOK
<1>4. ASSUME NEW p, PageOK(p)
      PROVE  GridOK(ShowWhenReady(p))
  BY <1>4, ShowPendingKept DEF ShowWhenReady, PageOK
<1> QED BY <1>1, <1>2, <1>3, <1>4 DEF LoadPending

LEMMA LoadSelectedKept ==
    ASSUME NEW g0, GridOK(g0)
    PROVE  GridOK(LoadSelected(g0))
<1> DEFINE g == IF g0.requested = g0.sel THEN g0
                ELSE [g0 EXCEPT !.requested = g0.sel, !.attempted = -1]
           tried == [LoadLarge(g, g.requested) EXCEPT !.attempted = g.requested]
<1>1. GridOK(g)
  BY DEF GridOK
<1> HIDE DEF g
<1>2. GridOK(LoadLarge(g, g.requested))
  BY <1>1, GridKept
<1>3. GridOK(tried)
  BY <1>2 DEF GridOK
<1> HIDE DEF tried
<1>4. GridOK(ShowLarge(tried, g.requested))
  BY <1>3, GridKept
<1>5. GridOK([tried EXCEPT !.large[tried.big + 1] = -1, !.bigIdx = g.requested])
  BY <1>3 DEF GridOK
<1> QED BY <1>1, <1>4, <1>5 DEF LoadSelected, g, tried

LEMMA PrefetchKept ==
    ASSUME NEW g, GridOK(g)
    PROVE  GridOK(Prefetch(g))
<1> DEFINE first == Buffered(g, NavPageBase(Total, g.activeBase, g.prefetchDir))
           second == Buffered(first.g,
                              NavPageBase(Total, g.activeBase, -g.prefetchDir))
<1>1. GridOK(first.g)
  BY BufferedKept DEF PageOK
<1>2. GridOK(second.g)
  BY <1>1, BufferedKept DEF PageOK
<1>3. GridOK(LoadStep(first.g, first.b)) /\ GridOK(LoadStep(second.g, second.b))
  BY <1>1, <1>2, GridKept
<1> HIDE DEF first, second
<1> QED BY <1>2, <1>3 DEF Prefetch, first, second

LEMMA GridFrameKept ==
    ASSUME NEW g, GridOK(g), NEW due
    PROVE  GridOK(GridFrame(g, due))
<1>1. ASSUME NEW h, GridOK(h)
      PROVE  GridOK(Worked(h, due))
  <2>1. GridOK(LoadPending(h))
    BY <1>1, LoadPendingKept
  <2>2. GridOK(CascadeEnd(LoadPending(h), h.cascade, due))
    BY <2>1, GridKept DEF CascadeEnd
  <2>3. GridOK(Prefetch(LoadSelected(CascadeEnd(LoadPending(h), h.cascade, due))))
    BY <2>2, LoadSelectedKept, PrefetchKept
  <2>4. GridOK(Artwork(h, due))
    BY <2>3, GridKept DEF Artwork
  <2> QED BY <1>1, <2>4 DEF Worked
<1>2. GridOK([g EXCEPT !.activeBase = PageOf(g.sel)])
  BY DEF GridOK
<1>3. GridOK(OpenPage(g))
  BY <1>2, GridKept DEF OpenPage
<1> QED BY <1>1, <1>3 DEF GridFrame

\* The buttons of the Grid view.
LEMMA PageMoves ==
    ASSUME NEW i \in Int, NEW dir \in {-1, 0, 1}
    PROVE  NavGridPage(Total, i, dir) \in Int
<1>1. GridPageSize \in Nat \ {0} /\ Total \in Nat \ {0}
  BY NavigationAssumption
<1>2. PageCount(Total) \in Int
  BY <1>1 DEF PageCount
<1>3. i \div GridPageSize \in Int /\ i % GridPageSize \in Int
  BY <1>1
<1>4. NavWrap(PageCount(Total), (i \div GridPageSize) + dir) \in Int
  BY <1>2, <1>3 DEF NavWrap
<1>5. NavWrap(PageCount(Total), (i \div GridPageSize) + dir) * GridPageSize \in Int
  BY <1>4, <1>1
<1> QED BY <1>1, <1>3, <1>5 DEF NavGridPage, InPage

LEMMA FromType ==
    ASSUME NEW g, GridOK(g)
    PROVE  From(g) \in Int
BY DEF From, GridOK

LEMMA DropStaleKept ==
    ASSUME NEW g, GridOK(g)
    PROVE  GridOK(DropStale(g))
<1>1. GridOK(DropLarge(g))
  BY GridKept
<1>2. GridOK([DropLarge(g) EXCEPT !.pendCover = -1])
  BY <1>1 DEF GridOK
<1> QED BY <1>2 DEF DropStale

LEMMA TapPageKept ==
    ASSUME NEW g, GridOK(g), NEW dir \in {-1, 0, 1}
    PROVE  GridOK(TapPage(g, dir))
<1> DEFINE to == NavGridPage(Total, From(g), dir)
           h == IF PageOf(to) = g.activeBase
                THEN [g EXCEPT !.pend = -1, !.sel = to]
                ELSE [g EXCEPT !.pend = to]
<1>1. to \in Int
  BY FromType, PageMoves
<1>2. GridOK(h)
  <2> HIDE DEF to
  <2> QED BY <1>1 DEF GridOK
<1> HIDE DEF h
<1>3. GridOK(DropStale(h))
  BY <1>2, DropStaleKept
<1> QED BY <1>3, GridKept DEF TapPage, h

LEMMA GridMoveKept ==
    ASSUME NEW g, GridOK(g), NEW to \in Int
    PROVE  GridOK(GridMove(g, to))
<1> DEFINE d == IF g.pendCover >= 0 THEN DropLarge(g) ELSE g
           a == [d EXCEPT !.pend = -1, !.pendCover = -1, !.sel = to]
           b == DropStale([g EXCEPT !.pend = to])
           h == IF PageOf(to) = g.activeBase THEN a ELSE b
<1>1. GridOK(d)
  BY GridKept
<1> HIDE DEF d
<1>2. GridOK(a)
  BY <1>1 DEF GridOK
<1>3. GridOK([g EXCEPT !.pend = to])
  BY DEF GridOK
<1>4. GridOK(b)
  BY <1>3, DropStaleKept
<1> HIDE DEF a, b
<1>5. GridOK(h)
  BY <1>2, <1>4
<1> HIDE DEF h
<1>6. GridOK([h EXCEPT !.pageDir = NavDirection(Total, From(g), to)])
  BY <1>5, GridKept
<1> QED BY <1>6 DEF GridMove, h, a, b, d

LEMMA FastStepKept ==
    ASSUME NEW g, GridOK(g), NEW from \in Int, NEW dir \in {-1, 0, 1}
    PROVE  GridOK(FastStep(g, from, dir))
<1>1. NavGridPage(Total, from, dir) \in Int
  BY PageMoves
<1> QED BY <1>1 DEF GridOK, FastStep

LEMMA FastStartKept ==
    ASSUME NEW g, GridOK(g)
    PROVE  GridOK(FastStart(g))
<1> DEFINE landed == g.cascade /\ g.incoming >= 0
           h == IF landed
                THEN Promote(g, g.incoming, g.incomingBase, g.cascadeDir)
                ELSE IF g.pendCover >= 0 THEN DropLarge(g) ELSE g
           k == [h EXCEPT !.pend = -1, !.pendCover = -1, !.fast = TRUE,
                          !.settling = FALSE]
           from == IF landed THEN g.sel ELSE From(g)
<1>1. GridOK(h)
  BY GridKept
<1> HIDE DEF h
<1>2. GridOK(k)
  BY <1>1 DEF GridOK
<1>3. from \in Int /\ g.shoulder \in {-1, 0, 1}
  BY FromType DEF GridOK
<1> HIDE DEF k, from
<1>4. GridOK(FastStep(k, from, g.shoulder))
  BY <1>2, <1>3, FastStepKept
<1> QED BY <1>4 DEF FastStart, h, k, from

LEMMA FastEndKept ==
    ASSUME NEW g, GridOK(g)
    PROVE  GridOK(FastEnd(g))
BY DEF GridOK, FastEnd

LEMMA ShoulderChangeKept ==
    ASSUME NEW g, GridOK(g), NEW dir \in {-1, 1}
    PROVE  GridOK(ShoulderChange(g, dir))
<1> DEFINE h == [g EXCEPT !.shoulder = dir]
<1>1. GridOK(h) /\ g.fastSel \in Int
  BY GridKept DEF GridOK
<1> HIDE DEF h
<1>2. GridOK(FastStep(h, g.fastSel, dir))
  BY <1>1, FastStepKept
<1> QED BY <1>1, <1>2 DEF ShoulderChange, h

----------------------------------------------------------------------------
(* The selected title and the marks.                                       *)

MotionOK(m) == "focus" \in DOMAIN m /\ m.focus \in Int
OrbitOK(o) == "dir" \in DOMAIN o /\ o.dir \in Int

SelectionTypes ==
    /\ selected \in Int /\ cur \in Int
    /\ marked \in TitleSets /\ favs \in TitleSets
    /\ filtered \in BOOLEAN
    /\ MotionOK(motion) /\ OrbitOK(orbit) /\ GridOK(grid)

\* Only Classic and Collection show the favourites alone, and while a change
\* of one is saved there the selected title is the one just removed.
FilteredOK ==
    /\ filtered => view \in {"classic", "collection"}
    /\ filtered /\ phase = "saving" => saving.then \in {"favourite", "launch"}
    /\ filtered /\ phase = "saving" /\ saving.then = "favourite" =>
         selected \notin marked
    /\ FavouriteSelected

SelectionInv == SelectionTypes /\ FilteredOK

\* A frame or a button that saves nothing.
Spent == left' \in Limits /\ left'.boots = left.boots /\ left'.faults = left.faults
Quiet == /\ phase \in {"draw", "input"} /\ phase' \in {"draw", "input"}
         /\ UNCHANGED <<view, files, saving, known, marked, favs>>
         /\ Spent

LEMMA SpendsOther ==
    ASSUME left \in Limits,
           NEW what \in {"presses", "pressure"}, Spend(what) \/ UNCHANGED left
    PROVE  Spent
<1>1. CASE UNCHANGED left
  BY <1>1 DEF Spent
<1>2. CASE what = "presses" /\ Spend(what)
  BY <1>2 DEF Spent, Spend, Limits
<1>3. CASE what = "pressure" /\ Spend(what)
  BY <1>3 DEF Spent, Spend, Limits
<1> QED BY <1>1, <1>2, <1>3

\* The lists Collection shows have a length.
LEMMA FlowLength ==
    ASSUME SelectionTypes
    PROVE  Len(FlowTitles) \in Nat
<1>1. Total \in Nat
  BY NavigationAssumption
<1>2. Len(Titles) = Total
  BY <1>1 DEF Titles
<1>3. Cardinality(favs) \in Nat
  BY FS_CardinalityType DEF SelectionTypes, TitleSets
<1>4. Len(FavouriteTitles(favs)) = Cardinality(favs)
  BY <1>3 DEF FavouriteTitles
<1> QED BY <1>1, <1>2, <1>3, <1>4 DEF FlowTitles

LEMMA WrapType ==
    ASSUME NEW total \in Nat, NEW i \in Int
    PROVE  NavWrap(total, i) \in Int
BY DEF NavWrap

LEMMA DirectionType ==
    ASSUME NEW total, NEW from, NEW to
    PROVE  NavDirection(total, from, to) \in {-1, 0, 1}
BY DEF NavDirection

\* What stays when a view neither filters nor marks.
LEMMA UnfilteredKept ==
    ASSUME SelectionInv, Quiet, UNCHANGED <<view, filtered>>, ~filtered
    PROVE  FilteredOK'
BY DEF SelectionInv, FilteredOK, FavouriteSelected, Quiet

LEMMA SelectedKept ==
    ASSUME SelectionInv, Quiet, UNCHANGED <<view, filtered, selected>>
    PROVE  FilteredOK'
BY DEF SelectionInv, FilteredOK, FavouriteSelected, Quiet

LEMMA MarkedSelected ==
    ASSUME SelectionInv, Quiet, UNCHANGED <<view, filtered>>,
           filtered /\ marked # {} => selected' \in marked
    PROVE  FilteredOK'
BY DEF SelectionInv, FilteredOK, FavouriteSelected, Quiet

----------------------------------------------------------------------------
(* The frames.                                                             *)

LEMMA DrawClassicStep ==
    ASSUME SelectionInv, left \in Limits, NEW due, DrawClassic(due)
    PROVE  Quiet /\ SelectionInv'
<1>1. /\ phase = "draw" /\ phase' = "input" /\ cur' = selected
      /\ UNCHANGED <<view, selected, marked, favs, filtered, motion, orbit, grid,
                     files, saving, known, left>>
  BY DEF DrawClassic, Drawing, diskVars
<1>2. Quiet
  BY <1>1 DEF Quiet, Spent
<1>3. SelectionTypes'
  BY <1>1 DEF SelectionInv, SelectionTypes, MotionOK, OrbitOK, GridOK
<1> QED BY <1>1, <1>2, <1>3, SelectedKept DEF SelectionInv

LEMMA DrawGridStep ==
    ASSUME SelectionInv, left \in Limits, NEW due, DrawGrid(due)
    PROVE  Quiet /\ SelectionInv'
<1>1. /\ phase = "draw" /\ phase' = "input" /\ view = "grid"
      /\ grid' = GridFrame(grid, due) /\ selected' = grid'.sel /\ cur' = grid'.sel
      /\ UNCHANGED <<view, marked, favs, filtered, motion, orbit,
                     files, saving, known, left>>
  BY DEF DrawGrid, Drawing, diskVars
<1>2. Quiet
  BY <1>1 DEF Quiet, Spent
<1>3. GridOK(grid')
  BY <1>1, GridFrameKept DEF SelectionInv, SelectionTypes
<1>4. SelectionTypes'
  BY <1>1, <1>3 DEF SelectionInv, SelectionTypes, MotionOK, OrbitOK, GridOK
<1>5. ~filtered
  BY <1>1 DEF SelectionInv, SelectionTypes, FilteredOK
<1> QED BY <1>1, <1>2, <1>4, <1>5, UnfilteredKept DEF SelectionInv

LEMMA DrawCollectionStep ==
    ASSUME SelectionInv, left \in Limits, NEW due, NEW bad, DrawCollection(due, bad)
    PROVE  Quiet /\ SelectionInv'
<1> DEFINE rank == IF filtered THEN NavMarkedRank(marked, selected) ELSE selected
           m == IF motion.init THEN motion ELSE Rest(IF rank < 0 THEN 0 ELSE rank)
<1>1. /\ phase = "draw" /\ phase' = "input" /\ cur' = selected /\ motion' = m
      /\ Pressed(bad)
      /\ UNCHANGED <<view, selected, marked, favs, filtered, orbit, grid,
                     files, saving, known>>
  BY DEF DrawCollection, Drawing, diskVars
<1>2. Spent
  BY <1>1, SpendsOther DEF Pressed
<1>3. Quiet
  BY <1>1, <1>2 DEF Quiet
<1>4. rank \in Int
  BY RankType DEF SelectionInv, SelectionTypes
<1> HIDE DEF rank
<1>5. MotionOK(Rest(IF rank < 0 THEN 0 ELSE rank))
  BY <1>4 DEF MotionOK, Rest, NoMotion
<1>6. MotionOK(motion')
  BY <1>1, <1>5 DEF SelectionInv, SelectionTypes
<1> HIDE DEF m
<1>7. SelectionTypes'
  BY <1>1, <1>6 DEF SelectionInv, SelectionTypes, MotionOK, OrbitOK, GridOK
<1> QED BY <1>1, <1>3, <1>7, SelectedKept DEF SelectionInv

LEMMA DrawOrbitStep ==
    ASSUME SelectionInv, left \in Limits, NEW due, NEW bad, DrawOrbit(due, bad)
    PROVE  Quiet /\ SelectionInv'
<1> DEFINE moved == OrbitMoved(due)
           o == Glides(moved.orbit, moved.sel, due)
<1>1. /\ phase = "draw" /\ phase' = "input" /\ view = "orbit"
      /\ selected' = moved.sel /\ cur' = moved.sel /\ orbit' = o /\ Pressed(bad)
      /\ UNCHANGED <<view, marked, favs, filtered, motion, grid,
                     files, saving, known>>
  BY DEF DrawOrbit, Drawing, diskVars
<1>2. Spent
  BY <1>1, SpendsOther DEF Pressed
<1>3. Quiet
  BY <1>1, <1>2 DEF Quiet
<1>4. Total \in Nat /\ selected \in Int /\ orbit.dir \in Int
  BY NavigationAssumption DEF SelectionInv, SelectionTypes, OrbitOK
<1>5. NavWrap(Total, selected + orbit.dir) \in Int
  BY <1>4, WrapType
<1>6. moved.sel \in Int
  BY <1>4, <1>5 DEF OrbitMoved
<1>7. OrbitOK(moved.orbit)
  BY DEF OrbitMoved, OrbitOK, SelectionInv, SelectionTypes
<1> HIDE DEF moved
<1>8. OrbitOK(o)
  BY <1>7 DEF Glides, OrbitOK
<1> HIDE DEF o
<1>9. SelectionTypes'
  BY <1>1, <1>6, <1>8 DEF SelectionInv, SelectionTypes, MotionOK, GridOK
<1>10. ~filtered
  BY <1>1 DEF SelectionInv, SelectionTypes, FilteredOK
<1> QED BY <1>1, <1>3, <1>9, <1>10, UnfilteredKept DEF SelectionInv

LEMMA FrameStep ==
    ASSUME SelectionInv, left \in Limits, Frame
    PROVE  Quiet /\ SelectionInv'
BY DrawClassicStep, DrawGridStep, DrawCollectionStep, DrawOrbitStep, Zenon
   DEF Frame, Draw

----------------------------------------------------------------------------
(* The buttons that save nothing.                                          *)

LEMMA IdleStep ==
    ASSUME SelectionInv, left \in Limits, Idle
    PROVE  Quiet /\ SelectionInv'
<1>1. /\ phase = "input" /\ phase' = "draw"
      /\ UNCHANGED <<view, selected, cur, marked, favs, filtered, motion, orbit, grid,
                     files, saving, known, left>>
  BY DEF Idle, diskVars
<1>2. Quiet
  BY <1>1 DEF Quiet, Spent
<1>3. SelectionTypes'
  BY <1>1 DEF SelectionInv, SelectionTypes, MotionOK, OrbitOK, GridOK
<1> QED BY <1>1, <1>2, <1>3, SelectedKept DEF SelectionInv

LEMMA MoveInListStep ==
    ASSUME SelectionInv, left \in Limits, MoveInList
    PROVE  Quiet /\ SelectionInv'
<1>1. PICK dir \in {-1, 1} : selected' = Step(dir) \/ selected' = PageStep(dir)
  BY DEF MoveInList
<1>2. /\ phase = "input" /\ phase' = "draw" /\ Spend("presses")
      /\ orbit' = [orbit EXCEPT !.active = FALSE]
      /\ UNCHANGED <<view, cur, marked, favs, filtered, motion, grid,
                     files, saving, known>>
  BY DEF MoveInList, Input, Press, diskVars
<1>3. Quiet
  BY <1>2, SpendsOther DEF Quiet
<1>4. /\ Total \in Nat /\ selected \in Int /\ marked \in TitleSets
      /\ ListPage \in Nat /\ filtered \in BOOLEAN
  BY NavigationAssumption, LibraryAssumption DEF SelectionInv, SelectionTypes
<1>5. marked # {} => /\ NavMarkedStep(marked, selected, dir) \in marked
                     /\ NavMarkedPage(marked, selected, ListPage, dir) \in marked
  BY <1>4, StepIsMarked, PageIsMarked
<1>6. marked = {} => /\ NavMarkedStep(marked, selected, dir) = -1
                     /\ NavMarkedPage(marked, selected, ListPage, dir) = -1
  BY FS_EmptySet DEF NavMarkedStep, NavMarkedPage, NavMarkedByRank
<1>7. marked \subseteq Int
  BY <1>4 DEF TitleSets
<1>8. filtered /\ marked # {} => selected \in marked
  BY <1>2 DEF SelectionInv, FilteredOK, FavouriteSelected
<1>9. selected' \in Int /\ (filtered /\ marked # {} => selected' \in marked)
  <2>1. CASE selected' = Step(dir)
    <3>1. NavWrap(Total, selected + dir) \in Int
      BY <1>4, WrapType
    <3> QED BY <2>1, <3>1, <1>4, <1>5, <1>6, <1>7, <1>8 DEF Step
  <2>2. CASE selected' = PageStep(dir)
    <3>1. selected + dir * ListPage \in Int
      BY <1>4
    <3>2. Min({Total - 1, selected + dir * ListPage}) \in Int
      BY <3>1, <1>4, MinOfTwo
    <3>3. Max({0, Min({Total - 1, selected + dir * ListPage})}) \in Int
      BY <3>2, MaxOfTwo
    <3>4. CASE filtered
      BY <3>4, <2>2, <1>4, <1>5, <1>6, <1>7, <1>8 DEF PageStep
    <3>5. CASE ~filtered
      BY <3>5, <3>3, <2>2, <1>4 DEF PageStep
    <3> QED BY <3>4, <3>5
  <2> QED BY <1>1, <2>1, <2>2
<1>10. SelectionTypes'
  BY <1>2, <1>9 DEF SelectionInv, SelectionTypes, MotionOK, OrbitOK, GridOK
<1> QED BY <1>2, <1>3, <1>9, <1>10, MarkedSelected DEF SelectionInv

LEMMA RandomScanStep ==
    ASSUME SelectionInv, left \in Limits, RandomScan
    PROVE  Quiet /\ SelectionInv'
<1>1. /\ phase = "input" /\ phase' = "draw" /\ Spend("presses")
      /\ UNCHANGED <<view, selected, cur, marked, favs, filtered, motion, grid,
                     files, saving, known>>
  BY DEF RandomScan, Input, Press, diskVars
<1>2. Quiet
  BY <1>1, SpendsOther DEF Quiet
<1>3. OrbitOK(orbit')
  <2>1. OrbitOK(orbit)
    BY DEF SelectionInv, SelectionTypes
  <2>2. ASSUME NEW to
        PROVE  OrbitOK([orbit EXCEPT !.active = TRUE, !.target = to,
                          !.dir = NavDirection(Total, selected, to)])
    <3>1. NavDirection(Total, selected, to) \in Int
      BY DirectionType
    <3> QED BY <2>1, <3>1 DEF OrbitOK
  <2>3. CASE UNCHANGED orbit
    BY <2>1, <2>3 DEF OrbitOK
  <2>4. CASE ~UNCHANGED orbit
    <3>1. PICK to : orbit' = [orbit EXCEPT !.active = TRUE, !.target = to,
                                !.dir = NavDirection(Total, selected, to)]
      BY <2>4 DEF RandomScan
    <3> QED BY <3>1, <2>2
  <2> QED BY <2>3, <2>4
<1>4. SelectionTypes'
  BY <1>1, <1>3 DEF SelectionInv, SelectionTypes, MotionOK, OrbitOK, GridOK
<1> QED BY <1>1, <1>2, <1>4, SelectedKept DEF SelectionInv

\* The stream of Collection keeps its focus on a number.
LEMMA FlowedKept ==
    ASSUME NEW m, MotionOK(m), NEW total \in Nat, NEW n \in Flowed(m, total)
    PROVE  MotionOK(n)
<1>1. ASSUME NEW by \in {-1, 0, 1}
      PROVE  MotionOK(Moved(m, total, by))
  <2>1. NavWrap(total, m.focus + by) \in Int
    BY WrapType DEF MotionOK
  <2> QED BY <2>1 DEF Moved, MotionOK
<1>2. ASSUME NEW by \in {-1, 0, 1}, NEW mode
      PROVE  MotionOK([Moved(m, total, by) EXCEPT !.mode = mode])
  BY <1>1 DEF MotionOK
<1>3. ASSUME NEW k, MotionOK(k)
      PROVE  MotionOK([k EXCEPT !.mode = "idle"])
  BY <1>3 DEF MotionOK
<1>4. MotionOK(Rest(IF total = 0 THEN -1 ELSE 0))
  BY DEF MotionOK, Rest, NoMotion
<1> DEFINE held == IF m.dir = 0 THEN m.mode ELSE IF m.scan THEN "scan" ELSE "browse"
           on == {[Moved(m, total, by) EXCEPT !.mode = mode] :
                    by \in {-1, 0, 1}, mode \in {m.mode, held} \ {"idle"}}
           ended == {[k EXCEPT !.mode = "idle"] :
                       k \in {k \in on : k.at = 0 /\ k.mode \in {"step", "settle"}}}
<1> HIDE DEF held
<1>5. \A k \in on : MotionOK(k)
  BY <1>2
<1> HIDE DEF on
<1>6. \A k \in ended : MotionOK(k)
  BY <1>3, <1>5
<1>7. n \in on \/ n \in ended \/ n = m \/ n = Rest(IF total = 0 THEN -1 ELSE 0)
  BY DEF Flowed, on, held
<1> QED BY <1>4, <1>5, <1>6, <1>7

LEMMA MoveCollectionStep ==
    ASSUME SelectionInv, left \in Limits, MoveCollection
    PROVE  Quiet /\ SelectionInv'
<1>1. PICK dir \in {-1, 0, 1}, scan \in BOOLEAN, both \in BOOLEAN :
        LET same == dir = motion.dir /\ scan = motion.scan /\ ~both
            braked == IF both /\ motion.mode \notin {"settle", "idle"}
                      THEN [motion EXCEPT !.mode = "settle"] ELSE motion
        IN  /\ IF same THEN UNCHANGED left ELSE Press
            /\ motion' \in Flowed(Steered(braked, dir, scan), Len(FlowTitles))
  BY DEF MoveCollection
<1>2. /\ phase = "input" /\ phase' = "draw"
      /\ selected' = Focused(motion') /\ cur' = selected'
      /\ UNCHANGED <<view, marked, favs, filtered, orbit, grid, files, saving, known>>
  BY DEF MoveCollection, Input, diskVars
<1>3. Spend("presses") \/ UNCHANGED left
  BY <1>1 DEF Press
<1>4. Quiet
  BY <1>2, <1>3, SpendsOther DEF Quiet
<1> DEFINE braked == IF both /\ motion.mode \notin {"settle", "idle"}
                     THEN [motion EXCEPT !.mode = "settle"] ELSE motion
<1>5. MotionOK(braked)
  BY DEF MotionOK, SelectionInv, SelectionTypes
<1>6. motion' \in Flowed(Steered(braked, dir, scan), Len(FlowTitles))
  BY <1>1
<1> HIDE DEF braked
<1>7. MotionOK(Steered(braked, dir, scan))
  BY <1>5 DEF MotionOK, Steered
<1>8. Len(FlowTitles) \in Nat
  BY FlowLength DEF SelectionInv
<1>9. MotionOK(motion')
  BY <1>6, <1>7, <1>8, FlowedKept
<1>10. selected \in Int /\ marked \in TitleSets /\ filtered \in BOOLEAN
  BY DEF SelectionInv, SelectionTypes
<1>11. filtered /\ marked # {} => selected \in marked
  BY <1>2 DEF SelectionInv, FilteredOK, FavouriteSelected
<1>12. marked # {} => NavMarkedByRank(marked, motion'.focus) \in marked
  BY <1>9, <1>10, RankedIsMarked DEF MotionOK
<1>13. marked = {} => NavMarkedByRank(marked, motion'.focus) = -1
  BY DEF NavMarkedByRank
<1>14. selected' \in Int /\ (filtered /\ marked # {} => selected' \in marked)
  BY <1>2, <1>9, <1>10, <1>11, <1>12, <1>13 DEF Focused, MotionOK, TitleSets
<1>15. SelectionTypes'
  BY <1>2, <1>9, <1>14 DEF SelectionInv, SelectionTypes, OrbitOK, GridOK
<1> QED BY <1>2, <1>4, <1>14, <1>15, MarkedSelected DEF SelectionInv

\* The buttons of the Grid view, which never filters.
LEMMA GridToStep ==
    ASSUME SelectionInv, left \in Limits, phase = "input", view = "grid",
           NEW g, GridOK(g), GridTo(g), Spend("presses") \/ UNCHANGED left
    PROVE  Quiet /\ SelectionInv'
<1>1. /\ phase' = "draw" /\ grid' = g /\ selected' = g.sel
      /\ UNCHANGED <<view, cur, marked, favs, filtered, motion, orbit,
                     files, saving, known>>
  BY DEF GridTo, diskVars
<1>2. Quiet
  BY <1>1, SpendsOther DEF Quiet
<1>3. SelectionTypes'
  BY <1>1 DEF SelectionInv, SelectionTypes, MotionOK, OrbitOK, GridOK
<1>4. ~filtered
  BY DEF SelectionInv, SelectionTypes, FilteredOK
<1> QED BY <1>1, <1>2, <1>3, <1>4, UnfilteredKept DEF SelectionInv

LEMMA GridVerticalType ==
    ASSUME NEW i \in Int, NEW dir \in {-1, 1}
    PROVE  NavGridVertical(Total, i, dir) \in Int
<1>1. GridColumns \in Nat \ {0} /\ Total \in Nat \ {0}
  BY NavigationAssumption
<1>2. i + dir * GridColumns \in Int
  BY <1>1
<1>3. i % GridColumns \in Int
  BY <1>1
<1>4. (Total - 1 - (i % GridColumns)) % GridColumns \in Int
  BY <1>1, <1>3
<1> QED BY <1>1, <1>2, <1>3, <1>4 DEF NavGridVertical

LEMMA MoveGridStep ==
    ASSUME SelectionInv, left \in Limits, MoveGrid
    PROVE  Quiet /\ SelectionInv'
<1>1. phase = "input" /\ view = "grid" /\ Spend("presses")
  BY DEF MoveGrid, Input, Press
<1>2. GridOK(grid) /\ From(grid) \in Int /\ Total \in Nat
  BY FromType, NavigationAssumption DEF SelectionInv, SelectionTypes
<1>3. PICK dir \in {-1, 1} :
        \/ GridTo(GridMove(grid, NavWrap(Total, From(grid) + dir)))
        \/ GridTo(GridMove(grid, NavGridVertical(Total, From(grid), dir)))
  BY DEF MoveGrid
<1>4. /\ NavWrap(Total, From(grid) + dir) \in Int
      /\ NavGridVertical(Total, From(grid), dir) \in Int
  BY <1>2, WrapType, GridVerticalType
<1>5. /\ GridOK(GridMove(grid, NavWrap(Total, From(grid) + dir)))
      /\ GridOK(GridMove(grid, NavGridVertical(Total, From(grid), dir)))
  BY <1>2, <1>4, GridMoveKept
<1> QED BY <1>1, <1>3, <1>5, GridToStep

LEMMA PressShoulderStep ==
    ASSUME SelectionInv, left \in Limits, PressShoulder
    PROVE  Quiet /\ SelectionInv'
<1>1. phase = "input" /\ view = "grid" /\ Spend("presses")
  BY DEF PressShoulder, Input, Press
<1>2. PICK dir \in {-1, 1} : GridTo(ShoulderChange(grid, dir))
  BY DEF PressShoulder
<1>3. GridOK(ShoulderChange(grid, dir))
  BY ShoulderChangeKept DEF SelectionInv, SelectionTypes
<1> QED BY <1>1, <1>2, <1>3, GridToStep

LEMMA HoldShoulderStep ==
    ASSUME SelectionInv, left \in Limits, HoldShoulder
    PROVE  Quiet /\ SelectionInv'
<1>1. phase = "input" /\ view = "grid"
  BY DEF HoldShoulder, Input
<1>2. GridOK(grid) /\ grid.fastSel \in Int /\ grid.shoulder \in {-1, 0, 1}
  BY DEF SelectionInv, SelectionTypes, GridOK
<1>3. /\ GridOK(FastStart(grid))
      /\ GridOK(FastStep(grid, grid.fastSel, grid.shoulder))
  BY <1>2, FastStartKept, FastStepKept
<1>4. PICK g \in {grid, FastStart(grid), FastStep(grid, grid.fastSel, grid.shoulder)} :
        GridTo(g) /\ (Spend("presses") \/ UNCHANGED left)
  BY DEF HoldShoulder, Press
<1>5. GridOK(g)
  BY <1>2, <1>3
<1> QED BY <1>1, <1>4, <1>5, GridToStep

LEMMA ReleaseShoulderStep ==
    ASSUME SelectionInv, left \in Limits, ReleaseShoulder
    PROVE  Quiet /\ SelectionInv'
<1> DEFINE tap == [TapPage(grid, grid.shoulder) EXCEPT !.shoulder = 0]
<1>1. phase = "input" /\ view = "grid" /\ UNCHANGED left
  BY DEF ReleaseShoulder, Input
<1>2. GridOK(grid) /\ grid.shoulder \in {-1, 0, 1}
  BY DEF SelectionInv, SelectionTypes, GridOK
<1>3. GridOK(FastEnd(grid))
  BY <1>2, FastEndKept
<1>4. GridOK(tap)
  BY <1>2, TapPageKept, GridKept
<1>5. GridTo(FastEnd(grid)) \/ GridTo(tap)
  BY DEF ReleaseShoulder
<1> HIDE DEF tap
<1> QED BY <1>1, <1>3, <1>4, <1>5, GridToStep

LEMMA ToggleFavouritesStep ==
    ASSUME SelectionInv, left \in Limits, ToggleFavourites
    PROVE  Quiet /\ SelectionInv'
<1> DEFINE outside == ~filtered /\ selected \notin marked /\ marked # {}
<1>1. /\ phase = "input" /\ phase' = "draw" /\ Spend("presses")
      /\ view \in {"classic", "collection"} /\ filtered' = ~filtered
      /\ selected' = IF outside THEN NavMarkedByRank(marked, 0) ELSE selected
      /\ UNCHANGED <<view, cur, marked, favs, grid, files, saving, known>>
  BY DEF ToggleFavourites, Acting, Press, diskVars
<1>2. Quiet
  BY <1>1, SpendsOther DEF Quiet
<1>3. selected \in Int /\ marked \in TitleSets /\ filtered \in BOOLEAN
  BY DEF SelectionInv, SelectionTypes
<1>4. marked # {} => NavMarkedByRank(marked, 0) \in marked
  BY <1>3, RankedIsMarked
<1>5. selected' \in Int /\ (filtered' /\ marked # {} => selected' \in marked)
  BY <1>1, <1>3, <1>4 DEF TitleSets
<1>6. MotionOK(motion')
  <2>1. MotionOK(motion) /\ MotionOK(NoMotion)
    BY DEF MotionOK, NoMotion, SelectionInv, SelectionTypes
  <2>2. motion' = motion \/ motion' = NoMotion
    BY DEF ToggleFavourites
  <2> QED BY <2>1, <2>2 DEF MotionOK
<1>7. OrbitOK(orbit')
  <2>1. OrbitOK(orbit) /\ OrbitOK([orbit EXCEPT !.glideTo = -1, !.glide = 0])
    BY DEF OrbitOK, SelectionInv, SelectionTypes
  <2>2. orbit' = orbit \/ orbit' = [orbit EXCEPT !.glideTo = -1, !.glide = 0]
    BY DEF ToggleFavourites
  <2> QED BY <2>1, <2>2 DEF OrbitOK
<1>8. SelectionTypes'
  BY <1>1, <1>3, <1>5, <1>6, <1>7 DEF SelectionInv, SelectionTypes, GridOK
<1>9. FilteredOK'
  BY <1>1, <1>5 DEF FilteredOK, FavouriteSelected
<1> QED BY <1>2, <1>8, <1>9 DEF SelectionInv

----------------------------------------------------------------------------
(* The buttons that save, and the power.                                   *)

LEMMA FavouriteStep ==
    ASSUME SelectionInv, Favourite
    PROVE  SelectionInv'
<1>1. /\ phase = "input" /\ view = "classic" /\ Anything /\ marked' = Flipped
      /\ phase' = "saving" /\ saving'.then = "favourite"
      /\ UNCHANGED <<view, selected, cur, favs, filtered, motion, orbit, grid>>
  BY DEF Favourite, Acting, StartSave
<1>2. selected \in Int /\ marked \in TitleSets /\ filtered \in BOOLEAN
  BY DEF SelectionInv, SelectionTypes
<1>3. marked' \in TitleSets
  <2>1. /\ IsFiniteSet(marked \ {selected}) /\ IsFiniteSet(marked \cup {selected})
    BY <1>2, FS_RemoveElement, FS_AddElement DEF TitleSets
  <2> QED BY <1>1, <1>2, <2>1 DEF Flipped, TitleSets
<1>4. filtered => selected \notin marked'
  BY <1>1 DEF SelectionInv, FilteredOK, FavouriteSelected, Anything, Flipped
<1>5. SelectionTypes'
  BY <1>1, <1>3 DEF SelectionInv, SelectionTypes, MotionOK, OrbitOK, GridOK
<1>6. FilteredOK'
  BY <1>1, <1>4 DEF SelectionInv, FilteredOK, FavouriteSelected
<1> QED BY <1>5, <1>6 DEF SelectionInv

LEMMA LaunchStep ==
    ASSUME SelectionInv, Launch
    PROVE  SelectionInv'
<1>1. /\ phase' = "saving" /\ saving'.then = "launch"
      /\ UNCHANGED <<view, selected, cur, marked, favs, filtered, motion, orbit, grid>>
  BY DEF Launch, StartSave, uiVars
<1>2. SelectionTypes'
  BY <1>1 DEF SelectionInv, SelectionTypes, MotionOK, OrbitOK, GridOK
<1>3. FilteredOK'
  BY <1>1 DEF SelectionInv, FilteredOK, FavouriteSelected
<1> QED BY <1>2, <1>3 DEF SelectionInv

LEMMA ResetKept ==
    ASSUME NEW i \in Int
    PROVE  /\ GridOK(GridReset(i)) /\ MotionOK(NoMotion) /\ OrbitOK(NoOrbit)
           /\ {} \in TitleSets
BY FS_EmptySet DEF GridOK, GridReset, MotionOK, NoMotion, OrbitOK, NoOrbit, TitleSets

LEMMA ChangeViewStep ==
    ASSUME SelectionInv, ChangeView
    PROVE  SelectionInv'
<1>1. /\ phase' = "saving" /\ filtered' = FALSE /\ motion' = NoMotion
      /\ orbit' = NoOrbit
      /\ UNCHANGED <<selected, cur, marked, favs>>
      /\ \E v : grid' = GridReset(IF v = "grid" THEN selected ELSE 0)
  BY DEF ChangeView, StartSave
<1>2. selected \in Int /\ cur \in Int /\ marked \in TitleSets /\ favs \in TitleSets
  BY DEF SelectionInv, SelectionTypes
<1>3. GridOK(grid') /\ MotionOK(motion') /\ OrbitOK(orbit')
  BY <1>1, <1>2, ResetKept
<1>4. SelectionTypes'
  BY <1>1, <1>2, <1>3 DEF SelectionTypes
<1>5. FilteredOK'
  BY <1>1 DEF FilteredOK, FavouriteSelected
<1> QED BY <1>4, <1>5 DEF SelectionInv

LEMMA OffStep ==
    ASSUME Off
    PROVE  SelectionInv'
<1>1. /\ phase' = "off" /\ selected' = 0 /\ cur' = 0 /\ marked' = {} /\ favs' = {}
      /\ filtered' = FALSE /\ motion' = NoMotion /\ orbit' = NoOrbit
      /\ grid' = GridReset(0)
  BY DEF Off
<1>2. SelectionTypes'
  <2>1. /\ GridOK(GridReset(0)) /\ MotionOK(NoMotion) /\ OrbitOK(NoOrbit)
        /\ {} \in TitleSets
    BY ResetKept
  <2>2. GridOK(grid') /\ MotionOK(motion') /\ OrbitOK(orbit')
    BY <1>1, <2>1
  <2>3. selected' = 0 /\ cur' = 0
    BY <1>1, Zenon
  <2>4. filtered' \in BOOLEAN
    BY <1>1, Zenon
  <2>5. marked' \in TitleSets /\ favs' \in TitleSets
    BY <1>1, <2>1, Zenon
  <2> QED BY <2>2, <2>3, <2>4, <2>5 DEF SelectionTypes
<1>3. FilteredOK'
  BY <1>1 DEF FilteredOK, FavouriteSelected
<1> QED BY <1>2, <1>3 DEF SelectionInv

----------------------------------------------------------------------------
(* The drive.                                                              *)

Steps == {"open", "write", "remove", "rename", "done", "failed"}
ValuesOf(which) == CASE which = "view" -> Views [] which = "title" -> TitleTimes
                     [] OTHER -> TitleSets

SavingTypes ==
    /\ DOMAIN saving = {"on", "save", "then"}
    /\ DOMAIN Save = {"which", "value", "step"}
    /\ Save.which \in {"view", "title", "fav"} /\ Save.step \in Steps
    /\ Save.value \in ValuesOf(Save.which)
    /\ saving.then \in {"draw", "launch", "favourite"}

DiskTypes ==
    /\ phase \in {"off", "draw", "input", "saving"} /\ view \in Views
    /\ files \in Drives /\ left \in Limits /\ SavingTypes
    /\ known \in [view : SUBSET Views, title : SUBSET TitleTimes,
                  fav : SUBSET TitleSets]

\* A file of a record: absent, empty or whole.
LEMMA NoFile ==
    ASSUME NEW V
    PROVE  Absent \in FileOf(V) /\ Empty \in FileOf(V)
<1>1. <<>> \in Seq(V) /\ Len(<<>>) = 0
  OBVIOUS
<1> QED BY <1>1 DEF Absent, Empty, FileOf, IsWhole

LEMMA FileTypes ==
    ASSUME NEW V, NEW v \in V
    PROVE  /\ Absent \in FileOf(V) /\ Empty \in FileOf(V) /\ Whole(v) \in FileOf(V)
           /\ ~IsWhole(Absent) /\ ~IsWhole(Empty) /\ IsWhole(Whole(v))
           /\ Whole(v).there /\ Empty.there /\ ~Absent.there
           /\ Whole(v).text[1] = v
<1>1. <<v>> \in Seq(V) /\ Len(<<v>>) = 1 /\ <<v>> # <<>> /\ <<v>>[1] = v
  OBVIOUS
<1>2. /\ IsWhole(Whole(v)) /\ Whole(v).there /\ Empty.there /\ ~Absent.there
      /\ ~IsWhole(Absent) /\ ~IsWhole(Empty) /\ Whole(v).text = <<v>>
  BY <1>1 DEF Absent, Empty, Whole, IsWhole
<1>3. Whole(v) \in [there : BOOLEAN, text : Seq(V)]
  BY <1>1 DEF Whole
<1>4. Len(Whole(v).text) <= 1
  BY <1>1, <1>2
<1>5. Whole(v) \in FileOf(V)
  BY <1>2, <1>3, <1>4, Zenon DEF FileOf
<1> QED BY <1>1, <1>2, <1>5, NoFile

LEMMA WholeType ==
    ASSUME NEW V, NEW file \in FileOf(V), IsWhole(file)
    PROVE  file.text[1] \in V /\ file.there
<1>1. file.text \in Seq(V) /\ file.text # <<>>
  BY DEF FileOf, IsWhole
<1>2. file.text[1] \in V
  BY <1>1
<1> QED BY <1>2 DEF FileOf

\* What the three readers return.
LEMMA ReadViewType ==
    ASSUME NEW p \in PairOf(Views), NEW default \in Views
    PROVE  ReadView(p, default) \in Views
BY WholeType DEF ReadView, PairOf

LEMMA ReadTitleType ==
    ASSUME NEW p \in PairOf(TitleTimes), NEW default \in TitleTimes
    PROVE  ReadTitle(p, default) \in TitleTimes
BY WholeType DEF ReadTitle, PairOf

LEMMA ReadFavouritesType ==
    ASSUME NEW p \in PairOf(TitleSets)
    PROVE  ReadFavourites(p) \in TitleSets
BY WholeType, ResetKept DEF ReadFavourites, PairOf

\* The next pair is a pair of the same record.
LEMMA SteppedType ==
    ASSUME NEW V, NEW p \in PairOf(V), NEW v \in V,
           NEW step \in {"open", "write", "remove", "rename"}
    PROVE  /\ Stepped(p, step, v) \in PairOf(V) /\ Failed(p, step) \in PairOf(V)
           /\ StepOf(step) \in Steps /\ AfterFailure(step) \in Steps
<1>1. Absent \in FileOf(V) /\ Empty \in FileOf(V) /\ Whole(v) \in FileOf(V)
  BY FileTypes
<1>2. p.final \in FileOf(V) /\ p.temp \in FileOf(V)
  BY DEF PairOf
<1>3. Stepped(p, step, v) \in PairOf(V)
  <2>1. CASE step = "open"
    BY <2>1, <1>1 DEF Stepped, PairOf
  <2>2. CASE step = "write"
    BY <2>2, <1>1 DEF Stepped, PairOf
  <2>3. CASE step = "remove"
    BY <2>3, <1>1 DEF Stepped, PairOf
  <2>4. CASE step = "rename"
    BY <2>4, <1>1, <1>2 DEF Stepped, PairOf
  <2> QED BY <2>1, <2>2, <2>3, <2>4
<1>4. Failed(p, step) \in PairOf(V)
  <2>1. CASE step = "write"
    BY <2>1, <1>1 DEF Failed, PairOf
  <2>2. CASE step # "write"
    BY <2>2 DEF Failed
  <2> QED BY <2>1, <2>2
<1>5. StepOf(step) \in Steps /\ AfterFailure(step) \in Steps
  BY DEF StepOf, AfterFailure, Steps
<1> QED BY <1>3, <1>4, <1>5

----------------------------------------------------------------------------
(* The view and the title: what a start reads is one of the values that    *)
(* may be there, at every moment before the only fault and after it.       *)

Records == {"view", "title"}
Reads(which, p) == IF which = "view" THEN ReadView(p, "classic")
                   ELSE ReadTitle(p, [title |-> 0, time |-> 0])

\* No title on the drive is younger than the present start.
TimesPassed ==
    \A file \in {files.title.final, files.title.temp} :
      IsWhole(file) => file.text[1].time <= -left.boots

\* The record can be read, or it is the title and its file was committed torn.
Readable(which) ==
    \/ Reads(which, files[which]) \in known[which]
    \/ which = "title" /\ IsTorn(files[which].final)

Settled(which) ==
    /\ Readable(which)
    /\ left.faults >= 1 => /\ Reads(which, files[which]) \in known[which]
                           /\ ~IsWhole(files[which].temp)

\* A save under way.  Without a fault so far the record can be read at every
\* step; after it the save goes on to where the new value can be, unless the
\* fault was that the title's file could not be closed.
AtStep(which) ==
    LET p == files[which]
        step == Save.step
        torn == which = "title" /\ left.faults = 0
    IN  /\ Save.value \in known[which]
        /\ which = "title" => Save.value.time = -left.boots
        /\ left.faults >= 1 =>
             /\ Reads(which, p) \in known[which]
             /\ step \in {"open", "write"} => ~IsWhole(p.temp)
             /\ step = "rename" => ~p.final.there
             /\ step # "failed"
        /\ step = "write" => p.temp = Empty
        /\ step \in {"remove", "rename"} =>
             \/ p.temp = Whole(Save.value)
             \/ torn /\ p.temp = Empty /\ (step = "rename" => ~p.final.there)
        /\ step = "done" =>
             /\ p.temp = Absent
             /\ p.final = Whole(Save.value) \/ (torn /\ p.final = Empty)
        /\ step = "failed" => Readable(which)

RecordsInv ==
    /\ left.faults <= 1 /\ TimesPassed
    /\ \A which \in Records :
         IF phase = "saving" /\ Save.which = which THEN AtStep(which)
         ELSE Settled(which)

\* The marks are those on the drive, unless the favourites were lost there.
MarksRead(marks) ==
    /\ FavouritesLost \/ marks = ReadFavourites(files.fav)
    /\ left.faults >= 1 => marks = ReadFavourites(files.fav)

MarksSaving ==
    LET p == files.fav
        step == Save.step
    IN  /\ Save.which = "fav" /\ Save.value = marked
        /\ left.faults >= 1 =>
             /\ step \in {"open", "write", "remove"} => Flipped = ReadFavourites(p)
             /\ step = "rename" => ~p.final.there
             /\ step # "failed"
        /\ step # "done" => FavouritesLost \/ Flipped = ReadFavourites(p)
        /\ step \in {"remove", "rename"} => p.temp = Whole(marked)
        /\ step = "done" => p.final = Whole(marked) /\ p.temp = Absent

MarksInv ==
    /\ left.faults <= 1
    /\ phase \in {"draw", "input"} => MarksRead(marked)
    /\ phase = "saving" /\ saving.then = "favourite" => MarksSaving
    /\ phase = "saving" /\ saving.then = "draw" =>
         Save.which = "view" /\ MarksRead(marked)
    /\ phase = "saving" /\ saving.then = "launch" => Save.which = "title"

----------------------------------------------------------------------------
(* The types are kept.                                                     *)

TypesInv == DiskTypes /\ SelectionInv

LEMMA SpendType ==
    ASSUME left \in Limits, NEW what \in {"presses", "boots", "faults", "pressure"},
           Spend(what)
    PROVE  /\ left' \in Limits /\ left[what] >= 1
           /\ what = "boots" => /\ left'.boots = left.boots - 1
                                /\ left'.faults = left.faults
           /\ what = "faults" => /\ left'.boots = left.boots
                                 /\ left'.faults = left.faults - 1
           /\ what \in {"presses", "pressure"} => /\ left'.boots = left.boots
                                                  /\ left'.faults = left.faults
<1>1. left[what] \in Nat /\ left[what] >= 1 /\ left[what] - 1 \in Nat
  BY DEF Spend, Limits
<1>2. left' = [left EXCEPT ![what] = left[what] - 1]
  BY DEF Spend
<1>3. left' \in Limits
  BY <1>1, <1>2 DEF Limits
<1>4. \A other \in {"boots", "faults"} :
        left'[other] = IF other = what THEN left[other] - 1 ELSE left[other]
  BY <1>2 DEF Limits
<1> QED BY <1>1, <1>3, <1>4

\* What was read at the start.
LEMMA Reading ==
    ASSUME DiskTypes
    PROVE  /\ ReadView(files.view, "classic") \in Views
           /\ ReadTitle(files.title, [title |-> 0, time |-> 0]) \in TitleTimes
           /\ ReadFavourites(files.fav) \in TitleSets
<1>1. /\ files.view \in PairOf(Views) /\ files.title \in PairOf(TitleTimes)
      /\ files.fav \in PairOf(TitleSets)
  BY DEF DiskTypes, Drives
<1>2. "classic" \in Views /\ [title |-> 0, time |-> 0] \in TitleTimes
  BY DEF Views, TitleTimes
<1> QED BY <1>1, <1>2, ReadViewType, ReadTitleType, ReadFavouritesType

LEMMA BootTypes ==
    ASSUME TypesInv, Boot
    PROVE  TypesInv'
<1> DEFINE title == ReadTitle(files.title, [title |-> 0, time |-> 0]).title
<1>1. /\ phase' = "draw" /\ Spend("boots") /\ selected' = title /\ cur' = title
      /\ view' = ReadView(files.view, "classic")
      /\ marked' = ReadFavourites(files.fav) /\ favs' = ReadFavourites(files.fav)
      /\ filtered' = FALSE /\ motion' = NoMotion /\ orbit' = NoOrbit
      /\ \E v : grid' = GridReset(IF v = "grid" THEN title ELSE 0)
      /\ UNCHANGED <<files, saving, known>>
  BY DEF Boot, diskVars
<1>2. title \in Int /\ ReadFavourites(files.fav) \in TitleSets
  BY Reading DEF TypesInv, TitleTimes
<1> HIDE DEF title
<1>3. DiskTypes'
  BY <1>1, SpendType, Reading DEF TypesInv, DiskTypes, SavingTypes, Save
<1>4. GridOK(grid') /\ MotionOK(motion') /\ OrbitOK(orbit')
  BY <1>1, <1>2, ResetKept
<1>5. filtered' \in BOOLEAN
  BY <1>1, Zenon
<1>6. SelectionTypes'
  <2>1. selected' \in Int /\ cur' \in Int /\ marked' \in TitleSets /\ favs' \in TitleSets
    BY <1>1, <1>2
  <2> QED BY <2>1, <1>4, <1>5 DEF SelectionTypes
<1>7. FilteredOK'
  BY <1>1 DEF FilteredOK, FavouriteSelected
<1> QED BY <1>3, <1>6, <1>7 DEF TypesInv, SelectionInv

LEMMA QuietTypes ==
    ASSUME DiskTypes, Quiet
    PROVE  DiskTypes'
<1>1. phase' \in {"off", "draw", "input", "saving"} /\ left' \in Limits
  BY DEF Quiet, Spent
<1> QED BY <1>1 DEF Quiet, DiskTypes, SavingTypes, Save

\* Saving NoSave, or a save that begins.
LEMMA NoSaveTypes ==
    ASSUME saving' = NoSave
    PROVE  SavingTypes'
BY DEF SavingTypes, Save, NoSave, Saving, ValuesOf, Views, Steps

LEMMA StartSaveTypes ==
    ASSUME DiskTypes, NEW which \in {"view", "title", "fav"},
           NEW value \in ValuesOf(which), NEW then \in {"draw", "launch", "favourite"},
           StartSave(which, value, then), left' \in Limits, view' \in Views
    PROVE  DiskTypes'
<1>1. /\ phase' = "saving" /\ UNCHANGED files
      /\ saving' = [on |-> TRUE, save |-> Saving(which, value), then |-> then]
      /\ known' = [known EXCEPT ![which] = @ \cup {value}]
  BY DEF StartSave
<1>2. SavingTypes'
  BY <1>1 DEF SavingTypes, Save, Saving, Steps
<1>3. known' \in [view : SUBSET Views, title : SUBSET TitleTimes, fav : SUBSET TitleSets]
  <2>1. CASE which = "view"
    BY <2>1, <1>1 DEF DiskTypes, ValuesOf
  <2>2. CASE which = "title"
    BY <2>2, <1>1 DEF DiskTypes, ValuesOf
  <2>3. CASE which = "fav"
    BY <2>3, <1>1 DEF DiskTypes, ValuesOf
  <2> QED BY <2>1, <2>2, <2>3
<1> QED BY <1>1, <1>2, <1>3 DEF DiskTypes

\* What each of the three buttons saves.
LEMMA SavedValues ==
    ASSUME TypesInv
    PROVE  /\ Favourite => /\ StartSave("fav", marked', "favourite")
                           /\ marked' \in ValuesOf("fav")
           /\ Launch => LET v == [title |-> cur, time |-> -left.boots]
                        IN  StartSave("title", v, "launch") /\ v \in ValuesOf("title")
           /\ ChangeView => /\ StartSave("view", NextView(view), "draw")
                            /\ NextView(view) \in ValuesOf("view")
<1>1. ASSUME Favourite
      PROVE  StartSave("fav", marked', "favourite") /\ marked' \in ValuesOf("fav")
  <2>1. SelectionInv'
    BY <1>1, FavouriteStep DEF TypesInv
  <2>2. marked' \in TitleSets
    BY <2>1 DEF SelectionInv, SelectionTypes
  <2> QED BY <1>1, <2>2 DEF Favourite, ValuesOf
<1>2. [title |-> cur, time |-> -left.boots] \in ValuesOf("title")
  BY DEF TypesInv, DiskTypes, Limits, SelectionInv, SelectionTypes, ValuesOf, TitleTimes
<1>3. NextView(view) \in ValuesOf("view")
  BY DEF TypesInv, DiskTypes, Views, NextView, ValuesOf
<1> QED BY <1>1, <1>2, <1>3 DEF Launch, ChangeView

LEMMA SavingStarts ==
    ASSUME TypesInv, Favourite \/ Launch \/ ChangeView
    PROVE  TypesInv'
<1>1. SelectionInv'
  BY FavouriteStep, LaunchStep, ChangeViewStep DEF TypesInv
<1>2. left' \in Limits
  BY SpendType DEF Favourite, Launch, ChangeView, Acting, Press, TypesInv, DiskTypes
<1>3. view \in Views
  BY DEF TypesInv, DiskTypes
<1>4. view' \in Views
  <2>1. ChangeView => view' = NextView(view)
    BY DEF ChangeView
  <2>2. Favourite \/ Launch => view' = view
    BY DEF Favourite, Launch, uiVars
  <2>3. NextView(view) \in Views
    BY <1>3 DEF NextView, Views
  <2> QED BY <1>3, <2>1, <2>2, <2>3
<1>5. DiskTypes'
  BY <1>2, <1>4, SavedValues, StartSaveTypes DEF TypesInv
<1> QED BY <1>1, <1>5 DEF TypesInv

LEMMA SwitchedOff ==
    ASSUME TypesInv, PowerCut \/ Quit
    PROVE  TypesInv'
<1>1. Off /\ UNCHANGED <<files, known>>
  BY DEF PowerCut, Quit
<1>2. left' \in Limits
  BY SpendType DEF PowerCut, Quit, Acting, Press, TypesInv, DiskTypes
<1>3. /\ phase' = "off" /\ view' = "classic" /\ saving' = NoSave
  BY <1>1 DEF Off
<1>4. DiskTypes'
  BY <1>1, <1>2, <1>3, NoSaveTypes DEF TypesInv, DiskTypes, Views
<1> QED BY <1>1, <1>4, OffStep DEF TypesInv

\* What a step of a save makes of the pair p of its record: q, with `next` to
\* come.
Works(p, step, value, q, next) ==
    IF step = "rename" /\ p.final.there THEN q = p /\ next = "failed"
    ELSE q = Stepped(p, step, value) /\ next = StepOf(step)
Fails(p, step, q, next) == q = Failed(p, step) /\ next = AfterFailure(step)
GoesOn(which, p, step, q, next) ==
    Unnoticed(which, step) /\ q = p /\ next = StepOf(step)

OneMove(q, next) ==
    LET p == files[Save.which]
    IN  /\ files' = [files EXCEPT ![Save.which] = q]
        /\ saving' = [saving EXCEPT !.save.step = next]
        /\ Save'.step = next
        /\ UNCHANGED <<saving.then, Save.which, Save.value>>
        /\ \/ UNCHANGED left /\ Works(p, Save.step, Save.value, q, next)
           \/ Spend("faults") /\ Fails(p, Save.step, q, next)
           \/ Spend("faults") /\ GoesOn(Save.which, p, Save.step, q, next)

LEMMA SaveMoves ==
    ASSUME DiskTypes, SaveStep \/ SaveFault
    PROVE  /\ Save.step \in {"open", "write", "remove", "rename"}
           /\ files[Save.which] \in PairOf(ValuesOf(Save.which))
           /\ \E q \in PairOf(ValuesOf(Save.which)), next \in Steps : OneMove(q, next)
<1> DEFINE p == files[Save.which]
<1>1. Save.step \in {"open", "write", "remove", "rename"}
  BY DEF SaveStep, SaveFault, DiskTypes, SavingTypes, Steps
<1>2. p \in PairOf(ValuesOf(Save.which)) /\ files = [files EXCEPT ![Save.which] = p]
  BY DEF DiskTypes, SavingTypes, Drives, ValuesOf
<1>3. Save.value \in ValuesOf(Save.which)
  BY DEF DiskTypes, SavingTypes
<1>4. /\ Stepped(p, Save.step, Save.value) \in PairOf(ValuesOf(Save.which))
      /\ Failed(p, Save.step) \in PairOf(ValuesOf(Save.which))
      /\ StepOf(Save.step) \in Steps /\ AfterFailure(Save.step) \in Steps
      /\ "failed" \in Steps
  BY <1>1, <1>2, <1>3, SteppedType DEF Steps
<1>5. PICK q \in PairOf(ValuesOf(Save.which)), next \in Steps :
        /\ files' = [files EXCEPT ![Save.which] = q]
        /\ saving' = [saving EXCEPT !.save.step = next]
        /\ \/ UNCHANGED left /\ Works(p, Save.step, Save.value, q, next)
           \/ Spend("faults") /\ Fails(p, Save.step, q, next)
           \/ Spend("faults") /\ GoesOn(Save.which, p, Save.step, q, next)
  <2>1. CASE SaveStep /\ Save.step = "rename" /\ p.final.there
    <3>1. /\ files' = [files EXCEPT ![Save.which] = p]
          /\ saving' = [saving EXCEPT !.save.step = "failed"]
      BY <1>2, <2>1 DEF SaveStep
    <3> QED BY <3>1, <1>2, <1>4, <2>1 DEF Works, SaveStep
  <2>2. CASE SaveStep /\ ~(Save.step = "rename" /\ p.final.there)
    <3>1. /\ files' = [files EXCEPT ![Save.which] = Stepped(p, Save.step, Save.value)]
          /\ saving' = [saving EXCEPT !.save.step = StepOf(Save.step)]
      BY <2>2 DEF SaveStep, Save
    <3> QED BY <3>1, <1>4, <2>2 DEF Works, SaveStep
  <2>3. CASE /\ SaveFault
             /\ files' = [files EXCEPT ![Save.which] = Failed(@, Save.step)]
             /\ saving' = [saving EXCEPT !.save.step = AfterFailure(@)]
    <3>1. /\ files' = [files EXCEPT ![Save.which] = Failed(p, Save.step)]
          /\ saving' = [saving EXCEPT !.save.step = AfterFailure(Save.step)]
      BY <2>3 DEF Save
    <3> QED BY <3>1, <1>4, <2>3 DEF Fails, SaveFault
  <2>4. CASE /\ SaveFault /\ Unnoticed(Save.which, Save.step) /\ UNCHANGED files
             /\ saving' = [saving EXCEPT !.save.step = StepOf(@)]
    <3>1. /\ files' = [files EXCEPT ![Save.which] = p]
          /\ saving' = [saving EXCEPT !.save.step = StepOf(Save.step)]
      BY <1>2, <2>4 DEF Save
    <3> QED BY <3>1, <1>2, <1>4, <2>4 DEF GoesOn, SaveFault
  <2> QED BY <2>1, <2>2, <2>3, <2>4 DEF SaveFault
<1>6. /\ UNCHANGED <<saving.then, Save.which, Save.value>> /\ Save'.step = next
  BY <1>5 DEF DiskTypes, SavingTypes, Save
<1>7. OneMove(q, next)
  BY <1>5, <1>6, Zenon DEF OneMove
<1> QED BY <1>1, <1>2, <1>7

\* One more step of a save, whether it works or not.
LEMMA SavingMoves ==
    ASSUME TypesInv, SaveStep \/ SaveFault
    PROVE  TypesInv'
<1>1. phase = "saving" /\ UNCHANGED <<phase, uiVars, known>>
  BY DEF SaveStep, SaveFault
<1>2. left' \in Limits
  BY SpendType DEF SaveStep, SaveFault, TypesInv, DiskTypes
<1>3. PICK q \in PairOf(ValuesOf(Save.which)), next \in Steps : OneMove(q, next)
  BY SaveMoves DEF TypesInv
<1>4. files' \in Drives
  <2>1. files' = [files EXCEPT ![Save.which] = q]
    BY <1>3 DEF OneMove
  <2>2. CASE Save.which = "view"
    BY <2>1, <2>2 DEF TypesInv, DiskTypes, Drives, ValuesOf
  <2>3. CASE Save.which = "title"
    BY <2>1, <2>3 DEF TypesInv, DiskTypes, Drives, ValuesOf
  <2>4. CASE Save.which = "fav"
    BY <2>1, <2>4 DEF TypesInv, DiskTypes, Drives, ValuesOf
  <2> QED BY <2>2, <2>3, <2>4 DEF TypesInv, DiskTypes, SavingTypes
<1>5. SavingTypes'
  BY <1>3 DEF OneMove, TypesInv, DiskTypes, SavingTypes, Save
<1>6. DiskTypes'
  BY <1>1, <1>2, <1>4, <1>5 DEF TypesInv, DiskTypes, uiVars
<1>7. SelectionTypes'
  BY <1>1 DEF TypesInv, SelectionInv, SelectionTypes, MotionOK, OrbitOK, GridOK, uiVars
<1>8. FilteredOK'
  BY <1>1, <1>3 DEF OneMove, TypesInv, SelectionInv, FilteredOK, FavouriteSelected, uiVars
<1> QED BY <1>6, <1>7, <1>8 DEF TypesInv, SelectionInv

LEMMA SelectedAfterMarked ==
    ASSUME SelectionInv, marked # {}
    PROVE  SelectedAfter \in marked
<1> DEFINE rank == Cardinality({t \in marked : t < selected})
<1>1. marked \in TitleSets
  BY DEF SelectionInv, SelectionTypes
<1>2. rank \in Int
  <2>1. {t \in marked : t < selected} \in SUBSET marked /\ IsFiniteSet(marked)
    BY <1>1 DEF TitleSets
  <2> QED BY <2>1, FS_Subset, FS_CardinalityType
<1> HIDE DEF rank
<1>3. (IF rank < Cardinality(marked) THEN rank ELSE 0) \in Int
  BY <1>2
<1> QED BY <1>1, <1>3, RankedIsMarked DEF SelectedAfter, rank

\* A change of a favourite that was saved, or not.
LEMMA FavouriteSavedStep ==
    ASSUME TypesInv, phase = "saving", saving.then = "favourite", phase' = "draw",
           Save.step \in {"done", "failed"}, FavouriteSaved
    PROVE  SelectionInv' /\ left' \in Limits /\ UNCHANGED view
<1>1. UNCHANGED <<view, filtered, motion, orbit, grid>>
  BY DEF FavouriteSaved
<1>2. /\ selected \in Int /\ cur \in Int /\ marked \in TitleSets /\ favs \in TitleSets
      /\ filtered \in BOOLEAN /\ left \in Limits
  BY DEF TypesInv, DiskTypes, SelectionInv, SelectionTypes
<1>3. left' \in Limits
  BY <1>2, SpendType DEF FavouriteSaved
<1>4. Restored \in TitleSets
  <2>1. IsFiniteSet(marked \ {selected}) /\ IsFiniteSet(marked \cup {selected})
    BY <1>2, FS_RemoveElement, FS_AddElement DEF TitleSets
  <2> QED BY <1>2, <2>1 DEF Restored, Flipped, TitleSets
<1>5. marked' \in TitleSets /\ favs' \in TitleSets
  BY <1>2, <1>4 DEF FavouriteSaved
<1>6. CASE Save.step = "done"
  <2>1. marked' = marked
    BY <1>6 DEF FavouriteSaved
  <2>2. CASE filtered /\ selected \notin marked /\ marked # {}
    <3>1. selected' = SelectedAfter /\ cur' = selected'
      BY <1>6, <2>2 DEF FavouriteSaved
    <3>2. selected' \in marked /\ selected' \in Int
      BY <3>1, <2>2, <1>2, SelectedAfterMarked DEF TypesInv, TitleSets
    <3>3. SelectionTypes'
      BY <1>1, <1>2, <1>5, <3>1, <3>2
         DEF TypesInv, SelectionInv, SelectionTypes, MotionOK, OrbitOK, GridOK
    <3>4. FilteredOK'
      BY <1>1, <2>1, <3>2 DEF TypesInv, SelectionInv, FilteredOK, FavouriteSelected
    <3> QED BY <1>1, <1>3, <3>3, <3>4 DEF SelectionInv
  <2>3. CASE ~(filtered /\ selected \notin marked /\ marked # {})
    <3>1. selected' = selected /\ cur' = cur
      BY <1>6, <2>3 DEF FavouriteSaved
    <3>2. SelectionTypes'
      BY <1>1, <1>2, <1>5, <3>1
         DEF TypesInv, SelectionInv, SelectionTypes, MotionOK, OrbitOK, GridOK
    <3>3. FilteredOK'
      BY <1>1, <2>1, <2>3, <3>1 DEF TypesInv, SelectionInv, FilteredOK, FavouriteSelected
    <3> QED BY <1>1, <1>3, <3>2, <3>3 DEF SelectionInv
  <2> QED BY <2>2, <2>3
<1>7. CASE Save.step = "failed"
  <2>1. marked' = Restored /\ selected' = selected /\ cur' = cur
    BY <1>7 DEF FavouriteSaved
  <2>2. filtered => selected \in Restored
    BY DEF TypesInv, SelectionInv, FilteredOK, Restored, Flipped
  <2>3. SelectionTypes'
    BY <1>1, <1>2, <1>5, <2>1
       DEF TypesInv, SelectionInv, SelectionTypes, MotionOK, OrbitOK, GridOK
  <2>4. FilteredOK'
    BY <1>1, <2>1, <2>2 DEF TypesInv, SelectionInv, FilteredOK, FavouriteSelected
  <2> QED BY <1>1, <1>3, <2>3, <2>4 DEF SelectionInv
<1> QED BY <1>6, <1>7

LEMMA SaveEndTypes ==
    ASSUME TypesInv, SaveEnd
    PROVE  TypesInv'
<1>1. /\ phase = "saving" /\ Save.step \in {"done", "failed"} /\ UNCHANGED files
      /\ known' = IF Save.step = "done"
                  THEN [known EXCEPT ![Save.which] = {Save.value}] ELSE known
  BY DEF SaveEnd
<1>2. known' \in [view : SUBSET Views, title : SUBSET TitleTimes, fav : SUBSET TitleSets]
  <2>1. /\ Save.which \in {"view", "title", "fav"}
        /\ {Save.value} \in SUBSET ValuesOf(Save.which)
    BY DEF TypesInv, DiskTypes, SavingTypes
  <2>2. CASE Save.which = "view"
    BY <2>1, <2>2, <1>1 DEF TypesInv, DiskTypes, ValuesOf
  <2>3. CASE Save.which = "title"
    BY <2>1, <2>3, <1>1 DEF TypesInv, DiskTypes, ValuesOf
  <2>4. CASE Save.which = "fav"
    BY <2>1, <2>4, <1>1 DEF TypesInv, DiskTypes, ValuesOf
  <2> QED BY <2>1, <2>2, <2>3, <2>4
<1>3. files' \in Drives
  BY <1>1 DEF TypesInv, DiskTypes
<1>4. CASE saving.then = "launch"
  <2>1. Off /\ UNCHANGED left
    BY <1>4 DEF SaveEnd
  <2>2. phase' = "off" /\ view' = "classic" /\ saving' = NoSave
    BY <2>1 DEF Off
  <2>3. left' \in Limits
    BY <2>1 DEF TypesInv, DiskTypes
  <2>4. DiskTypes'
    BY <1>2, <1>3, <2>2, <2>3, NoSaveTypes DEF DiskTypes, Views
  <2> QED BY <2>1, <2>4, OffStep DEF TypesInv
<1>5. CASE saving.then # "launch"
  <2>1. phase' = "draw" /\ saving' = NoSave
    BY <1>5 DEF SaveEnd
  <2>2. SelectionInv' /\ left' \in Limits /\ UNCHANGED view
    <3>1. CASE saving.then = "favourite"
      BY <1>1, <2>1, <3>1, FavouriteSavedStep DEF SaveEnd
    <3>2. CASE saving.then = "draw"
      <4>1. UNCHANGED <<uiVars, left>>
        BY <3>2 DEF SaveEnd
      <4>2. ~filtered
        BY <1>1, <3>2 DEF TypesInv, SelectionInv, SelectionTypes, FilteredOK
      <4>3. SelectionTypes'
        BY <4>1 DEF TypesInv, SelectionInv, SelectionTypes, MotionOK, OrbitOK, GridOK,
                    uiVars
      <4>4. FilteredOK'
        BY <4>1, <4>2 DEF FilteredOK, FavouriteSelected, uiVars
      <4> QED BY <4>1, <4>3, <4>4 DEF SelectionInv, TypesInv, DiskTypes, uiVars
    <3> QED BY <1>5, <3>1, <3>2 DEF TypesInv, DiskTypes, SavingTypes
  <2>3. DiskTypes'
    BY <1>2, <1>3, <2>1, <2>2, NoSaveTypes DEF TypesInv, DiskTypes
  <2> QED BY <2>2, <2>3 DEF TypesInv
<1> QED BY <1>4, <1>5

\* The step lemmas of the frames and of the buttons that save nothing.
Quietly == \/ Frame \/ Idle \/ MoveInList \/ RandomScan \/ MoveCollection \/ MoveGrid
           \/ PressShoulder \/ HoldShoulder \/ ReleaseShoulder \/ ToggleFavourites

LEMMA QuietSteps ==
    ASSUME TypesInv, Quietly
    PROVE  Quiet /\ SelectionInv'
<1>1. SelectionInv /\ left \in Limits
  BY DEF TypesInv, DiskTypes
<1> QED
  BY <1>1, FrameStep, IdleStep, MoveInListStep, RandomScanStep, MoveCollectionStep,
     MoveGridStep, PressShoulderStep, HoldShoulderStep, ReleaseShoulderStep,
     ToggleFavouritesStep, Zenon DEF Quietly

LEMMA StepCases ==
    ASSUME Next
    PROVE  \/ Boot \/ PowerCut \/ Quit \/ Quietly \/ Favourite \/ Launch \/ ChangeView
           \/ SaveStep \/ SaveFault \/ SaveEnd
BY Zenon DEF Next, Pad, Buttons, Drive, Quietly

LEMMA TypesStep ==
    ASSUME TypesInv, [Next]_vars
    PROVE  TypesInv'
<1>1. CASE Quietly
  BY <1>1, QuietSteps, QuietTypes DEF TypesInv
<1>2. CASE Boot
  BY <1>2, BootTypes
<1>3. CASE PowerCut \/ Quit
  BY <1>3, SwitchedOff
<1>4. CASE Favourite \/ Launch \/ ChangeView
  BY <1>4, SavingStarts
<1>5. CASE SaveStep \/ SaveFault
  BY <1>5, SavingMoves
<1>6. CASE SaveEnd
  BY <1>6, SaveEndTypes
<1>7. CASE UNCHANGED vars
  BY <1>7 DEF vars, uiVars, diskVars, TypesInv, DiskTypes, SavingTypes, Save,
     SelectionInv, SelectionTypes, FilteredOK, FavouriteSelected, MotionOK, OrbitOK,
     GridOK
<1> QED BY <1>1, <1>2, <1>3, <1>4, <1>5, <1>6, <1>7, StepCases

LEMMA TypesInit ==
    ASSUME Init
    PROVE  TypesInv
<1>1. PICK h \in Histories : files = h.files /\ left = h.left
  BY DEF Init
<1>2. files \in Drives /\ left \in Limits
  BY <1>1, LibraryAssumption
<1>3. /\ phase = "off" /\ view = "classic" /\ selected = 0 /\ cur = 0 /\ marked = {}
      /\ favs = {} /\ filtered = FALSE /\ motion = NoMotion /\ orbit = NoOrbit
      /\ grid = GridReset(0) /\ saving = NoSave
  BY DEF Init
<1>4. SavingTypes
  BY <1>3 DEF SavingTypes, Save, NoSave, Saving, ValuesOf, Views, Steps
<1>5. /\ files.view \in PairOf(Views) /\ files.title \in PairOf(TitleTimes)
      /\ files.fav \in PairOf(TitleSets)
  BY <1>2 DEF Drives
<1>6. "classic" \in Views /\ [title |-> 0, time |-> 0] \in TitleTimes
  BY DEF Views, TitleTimes
<1>7. /\ ReadView(files.view, "classic") \in Views
      /\ ReadTitle(files.title, [title |-> 0, time |-> 0]) \in TitleTimes
      /\ ReadFavourites(files.fav) \in TitleSets
  BY <1>5, <1>6, ReadViewType, ReadTitleType, ReadFavouritesType
<1>8. known \in [view : SUBSET Views, title : SUBSET TitleTimes, fav : SUBSET TitleSets]
  BY <1>7 DEF Init
<1>9. DiskTypes
  BY <1>2, <1>3, <1>4, <1>6, <1>8 DEF DiskTypes
<1>10. GridOK(grid) /\ MotionOK(motion) /\ OrbitOK(orbit) /\ {} \in TitleSets
  BY <1>3, ResetKept
<1>11. filtered \in BOOLEAN
  BY <1>3, Zenon
<1>12. SelectionTypes
  BY <1>3, <1>10, <1>11 DEF SelectionTypes
<1>13. FilteredOK
  BY <1>3 DEF FilteredOK, FavouriteSelected
<1> QED BY <1>9, <1>12, <1>13 DEF TypesInv, SelectionInv

\* While only the favourites are shown the selected title is one of them,
\* whatever was pressed, read, saved or lost before.
THEOREM SelectedFavourite == Spec => []FavouriteSelected
<1>1. Init => TypesInv
  BY TypesInit
<1>2. TypesInv /\ [Next]_vars => TypesInv'
  BY TypesStep
<1>3. TypesInv => FavouriteSelected
  BY DEF TypesInv, SelectionInv, FilteredOK
<1> QED BY <1>1, <1>2, <1>3, PTL DEF Spec

----------------------------------------------------------------------------
(* The view and the title are kept.                                        *)

LEMMA TimeType ==
    ASSUME NEW file \in FileOf(TitleTimes), IsWhole(file)
    PROVE  file.text[1].time \in Int
<1>1. file.text[1] \in TitleTimes
  BY WholeType
<1> QED BY <1>1 DEF TitleTimes

\* The new value is read as soon as the temporary file holds it, ...
LEMMA ReadsNew ==
    ASSUME NEW which \in Records, NEW p \in PairOf(ValuesOf(which)),
           NEW v \in ValuesOf(which), p.temp = Whole(v),
           which = "title" /\ IsWhole(p.final) => p.final.text[1].time <= v.time
    PROVE  Reads(which, p) = v
<1>1. IsWhole(p.temp) /\ p.temp.text[1] = v
  BY FileTypes
<1>2. CASE which = "view"
  <2>1. Reads(which, p) = ReadView(p, "classic")
    BY <1>2 DEF Reads
  <2>2. ReadView(p, "classic") = p.temp.text[1]
    BY <1>1, Zenon DEF ReadView
  <2> QED BY <1>1, <2>1, <2>2
<1>3. CASE which = "title"
  <2> DEFINE default == [title |-> 0, time |-> 0]
  <2>1. Reads(which, p) = ReadTitle(p, default)
    BY <1>3 DEF Reads
  <2>2. v.time \in Int
    BY <1>3 DEF ValuesOf, TitleTimes
  <2>3. p.final \in FileOf(TitleTimes)
    BY <1>3 DEF ValuesOf, PairOf
  <2>4. IsWhole(p.final) => p.final.text[1].time \in Int
    BY <2>3, TimeType
  <2>5. IsWhole(p.final) => p.temp.text[1].time >= p.final.text[1].time
    BY <1>1, <1>3, <2>2, <2>4
  <2>6. ReadTitle(p, default) = p.temp.text[1]
    BY <1>1, <2>5, Zenon DEF ReadTitle
  <2> QED BY <1>1, <2>1, <2>6
<1> QED BY <1>2, <1>3 DEF Records

\* ... and when the committed one does and there is no other; what is read
\* depends on the committed file alone while the temporary one holds nothing.
LEMMA ReadsCommitted ==
    ASSUME NEW which \in Records, NEW p, NEW q, ~IsWhole(p.temp)
    PROVE  /\ ~IsWhole(q.temp) /\ q.final = p.final => Reads(which, p) = Reads(which, q)
           /\ IsWhole(p.final) => Reads(which, p) = p.final.text[1]
BY DEF Reads, ReadView, ReadTitle

\* The records are left alone ...
LEMMA RecordsAlone ==
    ASSUME RecordsInv, phase # "saving", phase' # "saving", UNCHANGED <<files, known>>,
           left \in Limits, left' \in Limits, left'.faults <= left.faults,
           left'.boots <= left.boots, DiskTypes
    PROVE  RecordsInv'
<1>1. left'.faults <= 1 /\ (left'.faults >= 1 => left.faults >= 1)
  BY DEF RecordsInv, Limits
<1>2. TimesPassed'
  <2>1. files.title.final \in FileOf(TitleTimes) /\ files.title.temp \in FileOf(TitleTimes)
    BY DEF DiskTypes, Drives, PairOf
  <2>2. \A file \in {files.title.final, files.title.temp} :
          IsWhole(file) => file.text[1].time \in Int
    BY <2>1, TimeType
  <2>3. -left.boots <= -left'.boots /\ left.boots \in Int /\ left'.boots \in Int
    BY DEF Limits
  <2>4. \A file \in {files.title.final, files.title.temp} :
          IsWhole(file) => file.text[1].time <= -left.boots
    BY DEF RecordsInv, TimesPassed
  <2>5. \A file \in {files.title.final, files.title.temp} :
          IsWhole(file) => file.text[1].time <= -left'.boots
    BY <2>2, <2>3, <2>4
  <2> QED BY <2>5 DEF TimesPassed
<1>3. ASSUME NEW which \in Records
      PROVE  Settled(which)'
  BY <1>1 DEF RecordsInv, Settled, Readable
<1> QED BY <1>1, <1>2, <1>3 DEF RecordsInv

\* ... or a save of one begins.
LEMMA RecordStarts ==
    ASSUME TypesInv, RecordsInv, Favourite \/ Launch \/ ChangeView
    PROVE  RecordsInv'
<1>1. PICK which, value, then :
        /\ which \in {"view", "title", "fav"} /\ StartSave(which, value, then)
        /\ which = "title" => value.time = -left.boots
  <2>1. CASE Favourite
    BY <2>1, SavedValues
  <2>2. CASE Launch
    BY <2>2, SavedValues
  <2>3. CASE ChangeView
    BY <2>3, SavedValues
  <2> QED BY <2>1, <2>2, <2>3
<1>2. /\ phase # "saving" /\ phase' = "saving" /\ UNCHANGED files
      /\ saving' = [on |-> TRUE, save |-> Saving(which, value), then |-> then]
      /\ known' = [known EXCEPT ![which] = @ \cup {value}]
  BY <1>1 DEF StartSave, Favourite, Launch, ChangeView, Acting
<1>3. left'.faults = left.faults /\ left'.boots = left.boots
  BY SpendType DEF Favourite, Launch, ChangeView, Acting, Press, TypesInv, DiskTypes
<1>4. Save'.which = which /\ Save'.value = value /\ Save'.step = "open"
  BY <1>2 DEF Save, Saving
<1>5. TimesPassed' /\ left'.faults <= 1
  BY <1>2, <1>3 DEF RecordsInv, TimesPassed
<1>6. \A r \in Records : Settled(r)
  BY <1>2 DEF RecordsInv
<1>7. ASSUME NEW r \in Records, r # which
      PROVE  Settled(r)'
  <2>1. known'[r] = known[r]
    BY <1>2, <1>7 DEF TypesInv, DiskTypes, Records
  <2> QED BY <2>1, <1>2, <1>3, <1>6 DEF Settled, Readable
<1>8. ASSUME which \in Records
      PROVE  AtStep(which)'
  <2>1. known'[which] = known[which] \cup {value}
    BY <1>1, <1>2 DEF TypesInv, DiskTypes
  <2>2. Settled(which)
    BY <1>6, <1>8
  <2> QED BY <1>1, <1>2, <1>3, <1>4, <2>1, <2>2 DEF AtStep, Settled
<1> QED BY <1>2, <1>4, <1>5, <1>7, <1>8 DEF RecordsInv

LEMMA RecordCut ==
    ASSUME TypesInv, RecordsInv, PowerCut
    PROVE  RecordsInv'
<1>1. /\ phase = "saving" /\ phase' = "off" /\ UNCHANGED <<files, known>>
      /\ Spend("faults")
  BY DEF PowerCut, Off
<1>2. /\ left.faults >= 1 /\ left'.faults = left.faults - 1
      /\ left'.boots = left.boots /\ left \in Limits
  BY <1>1, SpendType DEF TypesInv, DiskTypes
<1>3. left'.faults = 0
  BY <1>2 DEF RecordsInv, Limits
<1>4. TimesPassed'
  BY <1>1, <1>2 DEF RecordsInv, TimesPassed
<1>5. ASSUME NEW which \in Records
      PROVE  Settled(which)'
  <2>1. Reads(which, files[which]) \in known[which]
    BY <1>2 DEF RecordsInv, AtStep, Settled
  <2> QED BY <1>1, <1>3, <2>1 DEF Settled, Readable
<1> QED BY <1>1, <1>3, <1>4, <1>5 DEF RecordsInv

\* A step of the save of one of the two, seen from its own pair of files.
LEMMA RecordWorks ==
    ASSUME NEW which \in Records, NEW p \in PairOf(ValuesOf(which)),
           NEW v \in ValuesOf(which), NEW step, NEW q, NEW next,
           step \in {"open", "write", "remove", "rename"},
           Works(p, step, v, q, next),
           step \in {"remove", "rename"} => p.temp = Whole(v),
           which = "title" /\ IsWhole(p.final) => p.final.text[1].time <= v.time
    PROVE  /\ next \in {"write", "remove", "rename", "done", "failed"}
           /\ next = "write" => q.final = p.final /\ q.temp = Empty
           /\ next \in {"remove", "rename", "done", "failed"} => Reads(which, q) = v
           /\ next \in {"remove", "rename"} => q.temp = Whole(v)
           /\ next = "rename" => ~q.final.there
           /\ next = "done" => q.final = Whole(v) /\ q.temp = Absent
           /\ next = "failed" => step = "rename" /\ p.final.there
           /\ q.final \in {p.final, Absent, Whole(v)}
           /\ q.temp \in {p.temp, Absent, Empty, Whole(v)}
<1>1. /\ Absent \in FileOf(ValuesOf(which)) /\ Empty \in FileOf(ValuesOf(which))
      /\ Whole(v) \in FileOf(ValuesOf(which))
      /\ ~IsWhole(Absent) /\ ~IsWhole(Empty) /\ IsWhole(Whole(v)) /\ ~Absent.there
      /\ Whole(v).text[1] = v
  BY FileTypes
<1>2. /\ p.final \in FileOf(ValuesOf(which)) /\ p.temp \in FileOf(ValuesOf(which))
      /\ DOMAIN p = {"final", "temp"}
  BY DEF PairOf
<1>3. CASE step = "open"
  <2>1. next = "write" /\ q = [p EXCEPT !.temp = Empty]
    BY <1>3 DEF Works, Stepped, StepOf
  <2> QED BY <1>2, <2>1
<1>4. CASE step = "write"
  <2>1. next = "remove" /\ q = [p EXCEPT !.temp = Whole(v)]
    BY <1>4 DEF Works, Stepped, StepOf
  <2>2. q \in PairOf(ValuesOf(which)) /\ q.temp = Whole(v) /\ q.final = p.final
    BY <1>1, <1>2, <2>1 DEF PairOf
  <2>3. Reads(which, q) = v
    BY <2>2, ReadsNew
  <2> QED BY <2>1, <2>2, <2>3
<1>5. CASE step = "remove"
  <2>1. next = "rename" /\ q = [p EXCEPT !.final = Absent]
    BY <1>5 DEF Works, Stepped, StepOf
  <2>2. q \in PairOf(ValuesOf(which)) /\ q.temp = Whole(v) /\ q.final = Absent
    BY <1>1, <1>2, <1>5, <2>1 DEF PairOf
  <2>3. Reads(which, q) = v
    BY <1>1, <2>2, ReadsNew
  <2> QED BY <1>1, <1>5, <2>1, <2>2, <2>3
<1>6. CASE step = "rename" /\ p.final.there
  <2>1. next = "failed" /\ q = p
    BY <1>6 DEF Works
  <2>2. Reads(which, q) = v
    BY <1>6, <2>1, ReadsNew
  <2> QED BY <1>6, <2>1, <2>2
<1>7. CASE step = "rename" /\ ~p.final.there
  <2>1. next = "done" /\ q = [final |-> p.temp, temp |-> Absent]
    BY <1>7 DEF Works, Stepped, StepOf
  <2>2. q.final = Whole(v) /\ q.temp = Absent
    BY <1>7, <2>1
  <2>3. Reads(which, q) = v
    BY <1>1, <2>2, ReadsCommitted
  <2> QED BY <2>1, <2>2, <2>3
<1> QED BY <1>3, <1>4, <1>5, <1>6, <1>7

\* A title that could not be closed is committed.
LEMMA RecordTorn ==
    ASSUME NEW V, NEW p \in PairOf(V), NEW v, NEW step \in {"remove", "rename"},
           NEW q, NEW next, p.temp = Empty, step = "rename" => ~p.final.there,
           Works(p, step, v, q, next)
    PROVE  \/ step = "remove" /\ next = "rename" /\ q.final = Absent /\ q.temp = Empty
           \/ step = "rename" /\ next = "done" /\ q.final = Empty /\ q.temp = Absent
<1>1. DOMAIN p = {"final", "temp"}
  BY DEF PairOf
<1>2. CASE step = "remove"
  <2>1. next = "rename" /\ q = [p EXCEPT !.final = Absent]
    BY <1>2 DEF Works, Stepped, StepOf
  <2> QED BY <1>1, <1>2, <2>1
<1>3. CASE step = "rename"
  <2>1. next = "done" /\ q = [final |-> p.temp, temp |-> Absent]
    BY <1>3 DEF Works, Stepped, StepOf
  <2> QED BY <1>3, <2>1
<1> QED BY <1>2, <1>3

LEMMA RecordFails ==
    ASSUME NEW which \in Records, NEW p \in PairOf(ValuesOf(which)),
           NEW step, NEW q, NEW next, step \in {"open", "write", "remove", "rename"},
           Fails(p, step, q, next)
    PROVE  /\ next \in {"rename", "failed"} /\ (next = "rename") = (step = "remove")
           /\ next = "rename" => q = p
           /\ q.final = p.final /\ q.temp \in {p.temp, Absent}
           /\ step = "write" /\ ~IsWhole(p.temp) => Reads(which, q) = Reads(which, p)
           /\ step # "write" => q = p
<1>1. ~IsWhole(Absent) /\ DOMAIN p = {"final", "temp"}
  BY FileTypes DEF PairOf
<1>2. CASE step = "write"
  <2>1. q = [p EXCEPT !.temp = Absent] /\ next = "failed"
    BY <1>2 DEF Fails, Failed, AfterFailure
  <2>2. q.final = p.final /\ q.temp = Absent
    BY <1>1, <2>1
  <2> QED BY <1>1, <1>2, <2>1, <2>2, ReadsCommitted
<1>3. CASE step # "write"
  BY <1>3 DEF Fails, Failed, AfterFailure
<1> QED BY <1>2, <1>3

LEMMA RecordMoves ==
    ASSUME TypesInv, RecordsInv, SaveStep \/ SaveFault
    PROVE  RecordsInv'
<1> DEFINE which == Save.which
           v == Save.value
           step == Save.step
           p == files[which]
<1>1. /\ step \in {"open", "write", "remove", "rename"} /\ p \in PairOf(ValuesOf(which))
      /\ v \in ValuesOf(which) /\ which \in {"view", "title", "fav"}
      /\ phase = "saving" /\ UNCHANGED <<phase, known>>
  BY SaveMoves DEF TypesInv, DiskTypes, SavingTypes, SaveStep, SaveFault
<1>2. PICK q \in PairOf(ValuesOf(which)), next \in Steps : OneMove(q, next)
  BY SaveMoves DEF TypesInv
<1>3. /\ files' = [files EXCEPT ![which] = q] /\ files \in Drives
      /\ Save'.step = next /\ UNCHANGED <<Save.which, Save.value>>
  BY <1>2 DEF OneMove, TypesInv, DiskTypes
<1>4. /\ files'[which] = q
      /\ \A r \in {"view", "title", "fav"} : r # which => files'[r] = files[r]
  BY <1>1, <1>3 DEF Drives
<1>5. /\ left \in Limits /\ left'.boots = left.boots /\ left'.faults <= left.faults
      /\ left'.faults \in Nat /\ left.faults \in Nat
  BY <1>2, SpendType DEF OneMove, TypesInv, DiskTypes, Limits
<1>6. ASSUME NEW r \in Records, r # which
      PROVE  Settled(r)'
  <2>1. Settled(r)
    BY <1>1, <1>6 DEF RecordsInv
  <2>2. files'[r] = files[r]
    BY <1>4, <1>6 DEF Records
  <2> QED BY <1>1, <1>5, <2>1, <2>2 DEF Settled, Readable
<1>7. CASE which \notin Records
  <2>1. TimesPassed'
    BY <1>1, <1>4, <1>5, <1>7 DEF RecordsInv, TimesPassed, Records
  <2> QED BY <1>3, <1>5, <1>6, <1>7, <2>1 DEF RecordsInv
<1>8. CASE /\ which \in Records /\ step \in {"remove", "rename"} /\ p.temp # Whole(v)
  <2>1. AtStep(which) /\ TimesPassed /\ left.faults <= 1
    BY <1>1, <1>8 DEF RecordsInv
  <2>2. /\ which = "title" /\ left.faults = 0 /\ p.temp = Empty
        /\ step = "rename" => ~p.final.there
    BY <1>8, <2>1 DEF AtStep
  <2>3. UNCHANGED left /\ Works(p, step, v, q, next)
    <3>1. ~Spend("faults")
      BY <1>5, <2>2 DEF Spend
    <3> QED BY <1>2, <3>1 DEF OneMove
  <2>4. \/ next = "rename" /\ q.final = Absent /\ q.temp = Empty
        \/ next = "done" /\ q.final = Empty /\ q.temp = Absent
    BY <1>1, <1>8, <2>2, <2>3, RecordTorn
  <2>5. ~IsWhole(Absent) /\ ~IsWhole(Empty) /\ ~Absent.there
    BY <1>1, FileTypes
  <2>6. TimesPassed'
    BY <1>4, <2>2, <2>3, <2>4, <2>5 DEF TimesPassed
  <2>7. v \in known[which] /\ v.time = -left.boots
    BY <2>1, <2>2 DEF AtStep
  <2>8. AtStep(which)'
    BY <1>1, <1>3, <1>4, <2>2, <2>3, <2>4, <2>5, <2>7 DEF AtStep
  <2> QED BY <1>1, <1>3, <1>5, <1>6, <2>1, <2>6, <2>8 DEF RecordsInv
<1>9. CASE /\ which \in Records
           /\ step \in {"remove", "rename"} => p.temp = Whole(v)
  <2>1. AtStep(which) /\ TimesPassed /\ left.faults <= 1
    BY <1>1, <1>9 DEF RecordsInv
  <2>2. which = "title" /\ IsWhole(p.final) => p.final.text[1].time <= v.time
    BY <2>1 DEF AtStep, TimesPassed
  <2>3. step \in {"remove", "rename"} => p.temp = Whole(v)
    BY <1>9
  <2>4. /\ ~IsWhole(Absent) /\ ~IsWhole(Empty) /\ IsWhole(Whole(v))
        /\ Whole(v).text[1] = v
    BY <1>1, FileTypes
  <2>5. /\ q.final \in {p.final, Absent, Whole(v)}
        /\ q.temp \in {p.temp, Absent, Empty, Whole(v)}
    <3>1. CASE Works(p, step, v, q, next)
      BY <1>1, <1>9, <2>2, <2>3, <3>1, RecordWorks
    <3>2. CASE Fails(p, step, q, next)
      BY <1>1, <1>9, <3>2, RecordFails
    <3>3. CASE GoesOn(which, p, step, q, next)
      BY <3>3 DEF GoesOn
    <3> QED BY <1>2, <3>1, <3>2, <3>3 DEF OneMove
  <2>6. TimesPassed'
    <3>1. CASE which = "title"
      <4>1. v.time = -left.boots /\ -left.boots <= -left.boots
        BY <1>5, <2>1, <3>1 DEF AtStep, Limits
      <4>2. \A file \in {p.final, p.temp} : IsWhole(file) => file.text[1].time <= -left.boots
        BY <2>1, <3>1 DEF TimesPassed
      <4>3. \A file \in {q.final, q.temp} : IsWhole(file) => file.text[1].time <= -left.boots
        BY <2>4, <2>5, <4>1, <4>2
      <4> QED BY <1>4, <1>5, <3>1, <4>3 DEF TimesPassed
    <3>2. CASE which # "title"
      <4>1. files'.title = files.title
        BY <1>4, <3>2
      <4> QED BY <1>5, <2>1, <4>1 DEF TimesPassed
    <3> QED BY <3>1, <3>2
  <2>7. AtStep(which)'
    <3>1. v \in known[which] /\ (which = "title" => v.time = -left.boots)
      BY <2>1 DEF AtStep
    <3>2. CASE UNCHANGED left /\ Works(p, step, v, q, next)
      <4>1. /\ next \in {"write", "remove", "rename", "done", "failed"}
            /\ next = "write" => q.final = p.final /\ q.temp = Empty
            /\ next \in {"remove", "rename", "done", "failed"} => Reads(which, q) = v
            /\ next \in {"remove", "rename"} => q.temp = Whole(v)
            /\ next = "rename" => ~q.final.there
            /\ next = "done" => q.final = Whole(v) /\ q.temp = Absent
            /\ next = "failed" => step = "rename" /\ p.final.there
        BY <1>1, <1>9, <2>2, <2>3, <3>2, RecordWorks
      <4>2. next = "failed" => ~(left.faults >= 1)
        BY <2>1, <4>1 DEF AtStep
      <4>3. next = "write" => step = "open"
        BY <3>2 DEF Works, StepOf
      <4>4. left.faults >= 1 /\ next = "write" => Reads(which, q) \in known[which]
        <5>1. left.faults >= 1 /\ next = "write" =>
                ~IsWhole(p.temp) /\ Reads(which, p) \in known[which]
          BY <2>1, <4>3 DEF AtStep
        <5> QED BY <1>9, <2>4, <4>1, <5>1, ReadsCommitted
      <4>5. left.faults >= 1 => Reads(which, q) \in known[which]
        BY <3>1, <4>1, <4>4
      <4>6. next = "failed" => Reads(which, q) \in known[which]
        BY <3>1, <4>1
      <4>7. next = "write" => q.temp = Empty
        BY <4>1
      <4> QED BY <1>1, <1>3, <1>4, <2>4, <3>1, <3>2, <4>1, <4>2, <4>5, <4>6, <4>7
              DEF AtStep, Readable
    <3>3. CASE Spend("faults") /\ Fails(p, step, q, next)
      <4>1. left.faults >= 1 /\ left'.faults = 0
        <5>1. left["faults"] >= 1 /\ left'.faults = left.faults - 1
          BY <1>5, <3>3, SpendType
        <5> QED BY <1>5, <2>1, <5>1
      <4>2. /\ Reads(which, p) \in known[which]
            /\ step \in {"open", "write"} => ~IsWhole(p.temp)
        BY <2>1, <4>1 DEF AtStep
      <4>3. Reads(which, q) \in known[which]
        BY <1>1, <1>9, <3>3, <4>2, RecordFails
      <4>4. next \in {"rename", "failed"} /\ (next = "rename" => q.temp = Whole(v))
        BY <1>1, <1>9, <2>3, <3>3, RecordFails
      <4> QED BY <1>1, <1>3, <1>4, <1>5, <3>1, <4>1, <4>3, <4>4 DEF AtStep, Readable
    <3>4. CASE Spend("faults") /\ GoesOn(which, p, step, q, next)
      <4>1. left.faults >= 1 /\ left'.faults = 0
        <5>1. left["faults"] >= 1 /\ left'.faults = left.faults - 1
          BY <1>5, <3>4, SpendType
        <5> QED BY <1>5, <2>1, <5>1
      <4>2. /\ which = "title" /\ step = "write" /\ q = p /\ next = "remove"
        BY <3>4 DEF GoesOn, Unnoticed, StepOf
      <4>3. p.temp = Empty
        BY <2>1, <4>2 DEF AtStep
      <4> QED BY <1>1, <1>3, <1>4, <1>5, <3>1, <4>1, <4>2, <4>3 DEF AtStep
    <3> QED BY <1>2, <3>2, <3>3, <3>4 DEF OneMove
  <2> QED BY <1>1, <1>3, <1>5, <1>6, <2>1, <2>6, <2>7 DEF RecordsInv
<1> QED BY <1>7, <1>8, <1>9

\* The end of a save.
LEMMA SaveEndLeft ==
    ASSUME DiskTypes, SaveEnd
    PROVE  /\ left' = left \/ Spend("faults")
           /\ left'.boots = left.boots /\ left'.faults <= left.faults
           /\ phase = "saving" /\ phase' \in {"off", "draw"} /\ UNCHANGED files
<1>1. left' = left \/ Spend("faults")
  BY DEF SaveEnd, FavouriteSaved
<1>2. left'.boots = left.boots /\ left'.faults <= left.faults
  BY <1>1, SpendType DEF DiskTypes, Limits
<1> QED BY <1>1, <1>2 DEF SaveEnd, Off

LEMMA RecordSaved ==
    ASSUME TypesInv, RecordsInv, SaveEnd
    PROVE  RecordsInv'
<1> DEFINE which == Save.which
           v == Save.value
<1>1. /\ phase = "saving" /\ phase' # "saving" /\ UNCHANGED files
      /\ left'.boots = left.boots /\ left'.faults <= left.faults
  BY SaveEndLeft DEF TypesInv
<1>2. /\ left.faults <= 1 /\ left.faults \in Nat /\ left'.faults \in Nat
  <2>1. left' \in Limits
    BY SaveEndTypes DEF TypesInv, DiskTypes
  <2> QED BY <2>1 DEF RecordsInv, TypesInv, DiskTypes, Limits
<1>3. /\ Save.step \in {"done", "failed"}
      /\ known' = IF Save.step = "done" THEN [known EXCEPT ![which] = {v}] ELSE known
  BY DEF SaveEnd
<1>4. /\ which \in {"view", "title", "fav"} /\ v \in ValuesOf(which)
      /\ DOMAIN known = {"view", "title", "fav"}
  BY DEF TypesInv, DiskTypes, SavingTypes
<1>5. TimesPassed'
  BY <1>1 DEF RecordsInv, TimesPassed
<1>6. ASSUME NEW r \in Records, r # which
      PROVE  Settled(r)'
  <2>1. Settled(r) /\ known'[r] = known[r]
    BY <1>1, <1>3, <1>4, <1>6 DEF RecordsInv, Records
  <2> QED BY <1>1, <1>2, <2>1 DEF Settled, Readable
<1>7. ASSUME NEW r \in Records, r = which
      PROVE  Settled(r)'
  <2>1. AtStep(r)
    BY <1>1, <1>7 DEF RecordsInv
  <2>2. CASE Save.step = "done"
    <3>1. files[r].temp = Absent /\ known'[r] = {v}
      BY <1>3, <1>4, <1>7, <2>1, <2>2 DEF AtStep
    <3>2. CASE files[r].final = Whole(v)
      <4>1. /\ IsWhole(files[r].final) /\ files[r].final.text[1] = v
            /\ ~IsWhole(files[r].temp)
        BY <1>4, <1>7, <3>1, <3>2, FileTypes
      <4>2. Reads(r, files[r]) = v
        BY <4>1, ReadsCommitted
      <4> QED BY <1>1, <3>1, <4>1, <4>2 DEF Settled, Readable
    <3>3. CASE r = "title" /\ left.faults = 0 /\ files[r].final = Empty
      <4>1. IsTorn(files[r].final)
        BY <1>4, <3>3, FileTypes DEF IsTorn
      <4> QED BY <1>1, <1>2, <3>3, <4>1 DEF Settled, Readable
    <3> QED BY <1>7, <2>1, <2>2, <3>2, <3>3 DEF AtStep
  <2>3. CASE Save.step = "failed"
    <3>1. left.faults < 1 /\ Readable(r)
      BY <1>2, <2>1, <2>3 DEF AtStep
    <3> QED BY <1>1, <1>2, <1>3, <2>3, <3>1 DEF Settled, Readable
  <2> QED BY <1>3, <2>2, <2>3
<1> QED BY <1>1, <1>2, <1>5, <1>6, <1>7 DEF RecordsInv

LEMMA RecordsInit ==
    ASSUME OneFault, Init
    PROVE  RecordsInv
<1>1. PICK h \in Histories : files = h.files /\ left = h.left
  BY DEF Init
<1>2. left.faults \in Nat /\ left.faults <= 1 /\ phase = "off"
  BY <1>1, LibraryAssumption DEF OneFault, Limits, Init
<1>3. TimesPassed
  BY <1>1 DEF OneFault, TimesPassed
<1>4. left.faults >= 1 => \A which \in Records : ~IsWhole(files[which].temp)
  BY <1>1, <1>2 DEF OneFault, Records
<1>5. \A which \in Records : Reads(which, files[which]) \in known[which]
  BY DEF Init, Records, Reads
<1> QED BY <1>2, <1>3, <1>4, <1>5 DEF RecordsInv, Settled, Readable

LEMMA RecordsStep ==
    ASSUME TypesInv, RecordsInv, [Next]_vars
    PROVE  RecordsInv'
<1>1. left \in Limits /\ DiskTypes
  BY DEF TypesInv, DiskTypes
<1>2. CASE Quietly
  <2>1. Quiet
    BY <1>2, QuietSteps
  <2> QED BY <1>1, <2>1, RecordsAlone DEF Quiet, Spent, Limits
<1>3. CASE Boot
  <2>1. /\ phase = "off" /\ phase' = "draw" /\ UNCHANGED <<files, known>>
        /\ Spend("boots")
    BY <1>3 DEF Boot, diskVars
  <2>2. left' \in Limits /\ left'.faults = left.faults /\ left'.boots = left.boots - 1
    BY <1>1, <2>1, SpendType
  <2>3. left'.faults <= left.faults /\ left'.boots <= left.boots
    BY <1>1, <2>2 DEF Limits
  <2> QED BY <1>1, <2>1, <2>2, <2>3, RecordsAlone
<1>4. CASE Quit
  <2>1. /\ phase # "saving" /\ phase' = "off" /\ UNCHANGED <<files, known>>
        /\ Spend("presses")
    BY <1>4 DEF Quit, Acting, Press, Off
  <2>2. left' \in Limits /\ left'.faults = left.faults /\ left'.boots = left.boots
    BY <1>1, <2>1, SpendType
  <2>3. left'.faults <= left.faults /\ left'.boots <= left.boots
    BY <1>1, <2>2 DEF Limits
  <2> QED BY <1>1, <2>1, <2>2, <2>3, RecordsAlone
<1>5. CASE PowerCut
  BY <1>5, RecordCut
<1>6. CASE Favourite \/ Launch \/ ChangeView
  BY <1>6, RecordStarts
<1>7. CASE SaveStep \/ SaveFault
  BY <1>7, RecordMoves
<1>8. CASE SaveEnd
  BY <1>8, RecordSaved
<1>9. CASE UNCHANGED vars
  BY <1>9 DEF vars, diskVars, RecordsInv, TimesPassed, Settled, Readable, AtStep, Save
<1> QED BY <1>2, <1>3, <1>4, <1>5, <1>6, <1>7, <1>8, <1>9, StepCases

\* With one power cut or I/O error at most, at any step of any save, the next
\* start reads the view that was saved last or was being saved, and so it does
\* the title, unless the error was that the title's file could not be closed:
\* then the file that was committed is torn.
THEOREM RecordIsKept == OneFault => (Spec => []RecordKept)
<1>1. OneFault /\ Init => TypesInv /\ RecordsInv
  BY TypesInit, RecordsInit
<1>2. TypesInv /\ RecordsInv /\ [Next]_vars => (TypesInv /\ RecordsInv)'
  BY TypesStep, RecordsStep
<1>3. RecordsInv => RecordKept
  BY DEF RecordsInv, Settled, Readable, RecordKept, Records, Reads
<1> QED BY <1>1, <1>2, <1>3, PTL DEF Spec

----------------------------------------------------------------------------
(* The marks on the screen and on the drive.                               *)

LEMMA FlippedTwice ==
    ASSUME Favourite
    PROVE  Flipped' = marked
<1>1. marked' = Flipped /\ UNCHANGED selected
  BY DEF Favourite
<1> QED BY <1>1 DEF Flipped

LEMMA MarksStart ==
    ASSUME TypesInv, MarksInv, Favourite \/ Launch \/ ChangeView
    PROVE  MarksInv'
<1>1. PICK which, value, then :
        /\ which \in {"view", "title", "fav"} /\ StartSave(which, value, then)
        /\ <<which, then>> \in {<<"fav", "favourite">>, <<"title", "launch">>,
                                <<"view", "draw">>}
        /\ which = "fav" => Favourite /\ value = marked'
        /\ which # "fav" => UNCHANGED marked
  <2>1. CASE Favourite
    BY <2>1, SavedValues
  <2>2. CASE Launch
    BY <2>2, SavedValues DEF Launch, uiVars
  <2>3. CASE ChangeView
    BY <2>3, SavedValues DEF ChangeView
  <2> QED BY <2>1, <2>2, <2>3
<1>2. /\ phase = "input" /\ phase' = "saving" /\ UNCHANGED files
      /\ saving' = [on |-> TRUE, save |-> Saving(which, value), then |-> then]
  BY <1>1 DEF StartSave, Favourite, Launch, ChangeView, Acting
<1>3. left'.faults = left.faults
  BY SpendType DEF Favourite, Launch, ChangeView, Acting, Press, TypesInv, DiskTypes
<1>4. /\ Save'.which = which /\ Save'.value = value /\ Save'.step = "open"
      /\ saving'.then = then
  BY <1>2 DEF Save, Saving
<1>5. MarksRead(marked) /\ left.faults <= 1
  BY <1>2 DEF MarksInv
<1>6. then = "favourite" => MarksSaving'
  <2>1. then = "favourite" => Flipped' = marked /\ which = "fav" /\ value = marked'
    BY <1>1, FlippedTwice
  <2> QED BY <1>2, <1>3, <1>4, <1>5, <2>1 DEF MarksSaving, MarksRead, FavouritesLost
<1>7. then = "draw" => which = "view" /\ MarksRead(marked)'
  BY <1>1, <1>2, <1>3, <1>5 DEF MarksRead, FavouritesLost
<1> QED BY <1>1, <1>2, <1>3, <1>4, <1>5, <1>6, <1>7 DEF MarksInv

\* A step of the save of the favourites.
LEMMA MarksMove ==
    ASSUME TypesInv, MarksInv, SaveStep \/ SaveFault, saving.then = "favourite"
    PROVE  MarksSaving'
<1> DEFINE p == files.fav
           step == Save.step
<1>1. /\ step \in {"open", "write", "remove", "rename"} /\ MarksSaving
      /\ UNCHANGED <<marked, selected>> /\ left.faults <= 1 /\ left \in Limits
  BY SaveMoves DEF TypesInv, DiskTypes, SaveStep, SaveFault, uiVars, MarksInv
<1>2. Save.which = "fav" /\ Save.value = marked
  BY <1>1 DEF MarksSaving
<1>3. p \in PairOf(TitleSets) /\ marked \in TitleSets /\ files \in Drives
  BY DEF TypesInv, DiskTypes, Drives, SelectionInv, SelectionTypes
<1>4. PICK q, next : OneMove(q, next)
  BY SaveMoves DEF TypesInv
<1>5. /\ files' = [files EXCEPT !.fav = q]
      /\ Save'.step = next /\ Save'.which = "fav" /\ Save'.value = marked
      /\ \/ UNCHANGED left /\ Works(p, step, marked, q, next)
         \/ Spend("faults") /\ Fails(p, step, q, next)
  BY <1>2, <1>4 DEF OneMove, GoesOn, Unnoticed
<1>6. files'.fav = q
  BY <1>3, <1>5 DEF Drives
<1>7. /\ Whole(marked).there /\ Empty.there /\ ~Absent.there
      /\ DOMAIN p = {"final", "temp"}
  BY <1>3, FileTypes DEF PairOf
<1>8. /\ Flipped' = Flipped
      /\ FavouritesLost' = (~q.final.there /\ q.temp.there)
      /\ FavouritesLost = (~p.final.there /\ p.temp.there)
      /\ step # "done" => FavouritesLost \/ Flipped = ReadFavourites(p)
  BY <1>1, <1>6 DEF Flipped, FavouritesLost, MarksSaving
<1>9. CASE UNCHANGED left /\ Works(p, step, marked, q, next)
  <2>1. CASE step = "open"
    <3>1. next = "write" /\ q = [p EXCEPT !.temp = Empty]
      BY <1>9, <2>1 DEF Works, Stepped, StepOf
    <3>2. q.final = p.final /\ q.temp = Empty
      BY <1>7, <3>1
    <3> QED BY <1>1, <1>5, <1>6, <1>7, <1>8, <1>9, <2>1, <3>1, <3>2
            DEF MarksSaving, ReadFavourites, FavouritesLost
  <2>2. CASE step = "write"
    <3>1. next = "remove" /\ q = [p EXCEPT !.temp = Whole(marked)]
      BY <1>9, <2>2 DEF Works, Stepped, StepOf
    <3>2. q.final = p.final /\ q.temp = Whole(marked)
      BY <1>7, <3>1
    <3> QED BY <1>1, <1>5, <1>6, <1>7, <1>8, <1>9, <2>2, <3>1, <3>2
            DEF MarksSaving, ReadFavourites, FavouritesLost
  <2>3. CASE step = "remove"
    <3>1. next = "rename" /\ q = [p EXCEPT !.final = Absent]
      BY <1>9, <2>3 DEF Works, Stepped, StepOf
    <3>2. q.final = Absent /\ q.temp = Whole(marked)
      BY <1>1, <1>7, <2>3, <3>1 DEF MarksSaving
    <3> QED BY <1>1, <1>5, <1>6, <1>7, <1>8, <1>9, <2>3, <3>1, <3>2 DEF MarksSaving, FavouritesLost
  <2>4. CASE step = "rename" /\ p.final.there
    <3>1. next = "failed" /\ q = p
      BY <1>9, <2>4 DEF Works
    <3>2. q.temp = Whole(marked) /\ ~(left.faults >= 1)
      BY <1>1, <2>4, <3>1 DEF MarksSaving
    <3> QED BY <1>1, <1>5, <1>6, <1>7, <1>8, <1>9, <3>1, <3>2 DEF MarksSaving, FavouritesLost
  <2>5. CASE step = "rename" /\ ~p.final.there
    <3>1. next = "done" /\ q = [final |-> p.temp, temp |-> Absent]
      BY <1>9, <2>5 DEF Works, Stepped, StepOf
    <3>2. q.final = Whole(marked) /\ q.temp = Absent
      BY <1>1, <2>5, <3>1 DEF MarksSaving
    <3> QED BY <1>1, <1>5, <1>6, <1>7, <1>8, <1>9, <3>1, <3>2 DEF MarksSaving, FavouritesLost
  <2> QED BY <1>1, <2>1, <2>2, <2>3, <2>4, <2>5
<1>10. CASE Spend("faults") /\ Fails(p, step, q, next)
  <2>1. left.faults >= 1 /\ left'.faults = 0
    <3>1. left["faults"] >= 1 /\ left'.faults = left.faults - 1
      BY <1>1, <1>10, SpendType
    <3> QED BY <1>1, <3>1 DEF Limits
  <2>2. CASE step = "open"
    <3>1. next = "failed" /\ q = p
      BY <1>10, <2>2 DEF Fails, Failed, AfterFailure
    <3> QED BY <1>1, <1>5, <1>6, <1>8, <2>1, <2>2, <3>1 DEF MarksSaving
  <2>3. CASE step = "write"
    <3>1. next = "failed" /\ q = [p EXCEPT !.temp = Absent]
      BY <1>10, <2>3 DEF Fails, Failed, AfterFailure
    <3>2. ReadFavourites(q) = ReadFavourites(p)
      BY <1>7, <3>1 DEF ReadFavourites
    <3>3. Flipped = ReadFavourites(p)
      BY <1>1, <2>1, <2>3 DEF MarksSaving
    <3> QED BY <1>1, <1>5, <1>6, <1>8, <2>1, <3>1, <3>2, <3>3 DEF MarksSaving
  <2>4. CASE step = "remove"
    <3>1. next = "rename" /\ q = p
      BY <1>10, <2>4 DEF Fails, Failed, AfterFailure
    <3> QED BY <1>1, <1>5, <1>6, <1>8, <2>1, <2>4, <3>1 DEF MarksSaving
  <2>5. CASE step = "rename"
    <3>1. next = "failed" /\ q = p
      BY <1>10, <2>5 DEF Fails, Failed, AfterFailure
    <3> QED BY <1>1, <1>5, <1>6, <1>7, <1>8, <2>1, <2>5, <3>1 DEF MarksSaving
  <2> QED BY <1>1, <2>2, <2>3, <2>4, <2>5
<1> QED BY <1>5, <1>9, <1>10

LEMMA MarksMoves ==
    ASSUME TypesInv, MarksInv, SaveStep \/ SaveFault
    PROVE  MarksInv'
<1>1. /\ phase = "saving" /\ phase' = "saving" /\ UNCHANGED <<marked, saving.then, Save.which>>
      /\ left.faults <= 1 /\ files \in Drives /\ left \in Limits
      /\ Save.which \in {"view", "title", "fav"}
  BY SaveMoves DEF OneMove, TypesInv, DiskTypes, SavingTypes, SaveStep, SaveFault, uiVars,
                   MarksInv
<1>2. left'.faults <= left.faults /\ left'.faults <= 1
  BY <1>1, SpendType DEF SaveStep, SaveFault, Limits
<1>3. ASSUME saving.then = "draw"
      PROVE  Save.which = "view" /\ MarksRead(marked)'
  <2>1. Save.which = "view" /\ MarksRead(marked)
    BY <1>1, <1>3 DEF MarksInv
  <2>2. files'.fav = files.fav
    <3>1. PICK q, next : OneMove(q, next)
      BY SaveMoves DEF TypesInv
    <3>2. files' = [files EXCEPT !.view = q]
      BY <2>1, <3>1 DEF OneMove
    <3> QED BY <1>1, <3>2 DEF Drives
  <2>3. left'.faults >= 1 => left.faults >= 1
    BY <1>2, <1>1, SavingMoves DEF Limits, TypesInv, DiskTypes
  <2> QED BY <1>1, <2>1, <2>2, <2>3 DEF MarksRead, FavouritesLost
<1>4. saving.then = "launch" => Save.which = "title"
  BY <1>1 DEF MarksInv
<1> QED BY <1>1, <1>2, <1>3, <1>4, MarksMove DEF MarksInv

LEMMA MarksSaved ==
    ASSUME TypesInv, MarksInv, SaveEnd
    PROVE  MarksInv'
<1>1. /\ phase = "saving" /\ phase' \in {"off", "draw"} /\ UNCHANGED files
      /\ left'.faults <= left.faults /\ left.faults <= 1
      /\ left.faults \in Nat /\ left'.faults \in Nat
  <2>1. left \in Limits /\ left' \in Limits
    BY SaveEndTypes DEF TypesInv, DiskTypes
  <2> QED BY <2>1, SaveEndLeft DEF TypesInv, MarksInv, Limits
<1>2. CASE saving.then = "launch"
  <2>1. phase' = "off"
    BY <1>2 DEF SaveEnd, Off
  <2> QED BY <1>1, <2>1 DEF MarksInv
<1>3. CASE saving.then = "draw"
  <2>1. phase' = "draw" /\ UNCHANGED marked /\ MarksRead(marked)
    BY <1>1, <1>3 DEF SaveEnd, uiVars, MarksInv
  <2>2. MarksRead(marked)'
    BY <1>1, <2>1 DEF MarksRead, FavouritesLost
  <2> QED BY <1>1, <2>1, <2>2 DEF MarksInv
<1>4. CASE saving.then = "favourite"
  <2>1. phase' = "draw" /\ MarksSaving /\ Save.step \in {"done", "failed"}
        /\ FavouriteSaved
    BY <1>1, <1>4 DEF SaveEnd, MarksInv
  <2>2. CASE Save.step = "done"
    <3>1. files.fav.final = Whole(marked) /\ UNCHANGED marked
      BY <2>1, <2>2 DEF MarksSaving, FavouriteSaved
    <3>2. ReadFavourites(files.fav) = marked
      <4>1. IsWhole(files.fav.final) /\ files.fav.final.text[1] = marked
        BY <3>1, FileTypes DEF TypesInv, SelectionInv, SelectionTypes
      <4> QED BY <4>1, Zenon DEF ReadFavourites
    <3>3. MarksRead(marked)'
      BY <1>1, <3>1, <3>2 DEF MarksRead, FavouritesLost
    <3> QED BY <1>1, <2>1, <3>3 DEF MarksInv
  <2>3. CASE Save.step = "failed"
    <3>1. marked' = Flipped
      BY <2>1, <2>3 DEF FavouriteSaved, Restored
    <3>2. ~(left'.faults >= 1) /\ (FavouritesLost \/ Flipped = ReadFavourites(files.fav))
      BY <1>1, <2>1, <2>3 DEF MarksSaving
    <3>3. MarksRead(marked)'
      BY <1>1, <3>1, <3>2 DEF MarksRead, FavouritesLost
    <3> QED BY <1>1, <2>1, <3>3 DEF MarksInv
  <2> QED BY <2>1, <2>2, <2>3
<1> QED BY <1>2, <1>3, <1>4 DEF TypesInv, DiskTypes, SavingTypes

LEMMA MarksStep ==
    ASSUME TypesInv, MarksInv, [Next]_vars
    PROVE  MarksInv'
<1>1. left \in Limits /\ left.faults <= 1
  BY DEF TypesInv, DiskTypes, MarksInv
<1>2. CASE Quietly
  <2>1. Quiet
    BY <1>2, QuietSteps
  <2>2. MarksRead(marked)'
    BY <2>1 DEF Quiet, Spent, MarksInv, MarksRead, FavouritesLost
  <2> QED BY <1>1, <2>1, <2>2 DEF Quiet, Spent, MarksInv
<1>3. CASE Boot
  <2>1. /\ phase' = "draw" /\ UNCHANGED files /\ Spend("boots")
        /\ marked' = ReadFavourites(files.fav)
    BY <1>3 DEF Boot, diskVars
  <2>2. left'.faults = left.faults
    BY <1>1, <2>1, SpendType
  <2>3. MarksRead(marked)'
    BY <2>1 DEF MarksRead
  <2> QED BY <1>1, <2>1, <2>2, <2>3 DEF MarksInv
<1>4. CASE Quit \/ PowerCut
  <2>1. phase' = "off" /\ (Spend("presses") \/ Spend("faults"))
    BY <1>4 DEF Quit, PowerCut, Acting, Press, Off
  <2>2. left'.faults <= left.faults
    BY <1>1, <2>1, SpendType DEF Limits
  <2>3. left' \in Limits
    BY <1>1, <2>1, SpendType
  <2>4. left'.faults <= 1
    BY <1>1, <2>2, <2>3 DEF Limits
  <2> QED BY <2>1, <2>4 DEF MarksInv
<1>5. CASE Favourite \/ Launch \/ ChangeView
  BY <1>5, MarksStart
<1>6. CASE SaveStep \/ SaveFault
  BY <1>6, MarksMoves
<1>7. CASE SaveEnd
  BY <1>7, MarksSaved
<1>8. CASE UNCHANGED vars
  BY <1>8 DEF vars, uiVars, diskVars, MarksInv, MarksRead, MarksSaving, FavouritesLost,
                Save, Flipped
<1> QED BY <1>2, <1>3, <1>4, <1>5, <1>6, <1>7, <1>8, StepCases

\* With one power cut or I/O error at most, what Classic marks is what the next
\* start will read, unless the new file could not be renamed once the old one
\* was removed, and the selected title of a list of favourites is one of them.
THEOREM MarksAreSaved == OneFault => (Spec => []FavouritesAsSaved)
<1>1. OneFault /\ Init => TypesInv /\ MarksInv
  <2>1. OneFault /\ Init => left.faults <= 1 /\ phase = "off"
    BY DEF OneFault, Init
  <2> QED BY <2>1, TypesInit DEF MarksInv
<1>2. TypesInv /\ MarksInv /\ [Next]_vars => (TypesInv /\ MarksInv)'
  BY TypesStep, MarksStep
<1>3. TypesInv /\ MarksInv => FavouritesAsSaved
  BY DEF TypesInv, SelectionInv, FilteredOK, MarksInv, MarksRead, FavouritesAsSaved
<1> QED BY <1>1, <1>2, <1>3, PTL DEF Spec

----------------------------------------------------------------------------
(* The covers.                                                             *)

Modes == {"idle", "step", "settle", "browse", "scan"}
Motions == [init : BOOLEAN, mode : Modes, focus : Int, at : Int, dir : {-1, 0, 1},
            scan : BOOLEAN, travel : {-1, 0, 1}]
Orbits == [active : BOOLEAN, target : Int, dir : Int, glideTo : Int, glide : Int]

\* The cache belongs to the list it names: to all titles, around the one it
\* was last drawn for, or to the favourites while Collection shows these.
CoversKept ==
    /\ motion \in Motions /\ orbit \in Orbits /\ base \in Int /\ covers \in Caches
    /\ covers.list = "all" =>
         /\ covers \in CachesOf(Fitting(Titles))
         /\ base >= 0 => Ringed(covers, Total, base)
    /\ covers.list = "favourites" =>
         /\ view = "collection" /\ filtered
         /\ covers \in CachesOf(Fitting(FavouriteTitles(favs)))
    /\ phase = "saving" /\ saving.then = "favourite" => view = "classic"

\* What the last frame drew.
FlowLayout == CollectionCacheLayout(Len(FlowTitles), motion.focus, Offset(motion))
FlowDrawn == motion.init /\ covers.list = FlowName /\ Placed(covers, FlowLayout)
RingDrawn == /\ base = selected /\ covers.list = "all"
             /\ covers \in CachesOf(Fitting(Titles)) /\ Ringed(covers, Total, selected)
CoversDrawn ==
    phase = "input" => /\ view = "collection" => FlowDrawn
                       /\ view = "orbit" => RingDrawn

CoverInv == CoversKept /\ CoversDrawn

\* The steps that touch neither the cache nor the list.
LEMMA CoversAlone ==
    ASSUME CoverInv, UNCHANGED <<covers, base, view, filtered, favs>>,
           motion' \in Motions, orbit' \in Orbits,
           phase' = "input" => view \notin {"collection", "orbit"},
           phase' = "saving" /\ saving'.then = "favourite" => view = "classic"
    PROVE  CoverInv'
<1>1. CoversKept'
  BY DEF CoverInv, CoversKept
<1>2. CoversDrawn'
  BY DEF CoversDrawn
<1> QED BY <1>1, <1>2 DEF CoverInv

LEMMA NoCoversKept ==
    /\ NoMotion \in Motions /\ NoOrbit \in Orbits
    /\ NoCache \in Caches /\ NoCache.list = "none"
<1>1. NoMotion \in Motions /\ NoOrbit \in Orbits
  BY DEF NoMotion, Motions, Modes, NoOrbit, Orbits
<1>2. EmptySlot \in GoodSlots /\ ~EmptySlot.vram
  BY 0 \in Int, EmptyIsGood
<1>3. NoCovers \in [CoverSlots -> GoodSlots] /\ FullSize(NoCovers) = {}
  BY <1>2 DEF NoCovers, FullSize
<1>4. Cardinality(FullSize(NoCovers)) <= 2
  BY <1>3, FS_EmptySet
<1> QED BY <1>1, <1>3, <1>4 DEF NoCache, Caches, CachesOf, Lists

\* A cache that belongs to no list.
LEMMA CoversGone ==
    ASSUME covers' \in Caches, covers'.list = "none", base' \in Int,
           motion' \in Motions, orbit' \in Orbits, phase' # "input",
           phase' = "saving" => saving'.then # "favourite"
    PROVE  CoverInv'
BY DEF CoverInv, CoversKept, CoversDrawn

LEMMA TitlesLength ==
    Len(Titles) = Total /\ Len(Titles) \in Nat \ {0}
BY NavigationAssumption DEF Titles

LEMMA RestType ==
    ASSUME NEW focus \in Int
    PROVE  Rest(focus) \in Motions /\ Rest(focus).init /\ Rest(focus).focus = focus
<1>1. NoMotion \in Motions
  BY NoCoversKept
<1> QED BY <1>1 DEF Rest, Motions

LEMMA OffsetType ==
    ASSUME NEW m \in Motions
    PROVE  Offset(m) \in Int /\ m.focus \in Int /\ m.travel \in Int
BY DEF Offset, Motions

\* The cache, when it is that of the list on the screen, holds its covers.
LEMMA OwnCovers ==
    ASSUME CoverInv
    PROVE  /\ covers \in Caches /\ FlowName \in Lists
           /\ covers.list = FlowName => covers \in CachesOf(Fitting(FlowTitles))
BY DEF CoverInv, CoversKept, FlowName, FlowTitles, Lists

LEMMA CollectionDrawn ==
    ASSUME SelectionTypes, CoverInv, NEW due, NEW bad, DrawCollection(due, bad)
    PROVE  CoverInv'
<1> DEFINE rank == IF filtered THEN NavMarkedRank(marked, selected) ELSE selected
           first == IF rank < 0 THEN 0 ELSE rank
           m == IF motion.init THEN motion ELSE Rest(first)
           name == FlowName
           titles == FlowTitles
           focus == m.focus
           c == IF motion.init THEN covers ELSE Prepared(covers, name, titles, focus, bad)
           fast == m.mode = "scan"
           allowLoad == /\ ~fast /\ ~(m.scan /\ m.dir # 0)
                        /\ m.mode = "idle" \/ due
           offset == Offset(m)
           travel == m.travel
           d == RefreshCollection(c, name, titles, focus, offset, travel, allowLoad,
                                  fast, bad)
<1>1. /\ phase' = "input" /\ view = "collection" /\ motion' = m /\ base' = focus
      /\ covers' = Drawn(d)
      /\ UNCHANGED <<view, selected, filtered, favs, orbit, saving>>
  BY DEF DrawCollection, Drawing, diskVars
<1>2. first \in Int
  <2>1. rank \in Int
    BY RankType DEF SelectionTypes
  <2> HIDE DEF rank
  <2> QED BY <2>1
<1> HIDE DEF first
<1>3. m \in Motions /\ m.init
  BY <1>2, RestType DEF CoverInv, CoversKept
<1> HIDE DEF m
<1>4. offset \in Int /\ focus \in Int /\ travel \in Int
  BY <1>3, OffsetType
<1>5. /\ covers \in Caches /\ name \in Lists /\ Len(titles) \in Nat
      /\ covers.list = name => covers \in CachesOf(Fitting(titles))
  BY OwnCovers, FlowLength
<1> HIDE DEF name, titles, focus, offset, travel, fast, allowLoad
<1>6. c \in Caches /\ (c.list = name => c \in CachesOf(Fitting(titles)))
  <2>1. LET p == Prepared(covers, name, titles, focus, bad)
        IN  p \in Caches /\ (p.list = name => p \in CachesOf(Fitting(titles)))
    BY <1>4, <1>5, PreparedKept
  <2> QED BY <1>5, <2>1
<1> HIDE DEF c
<1>7. /\ d \in CachesOf(Fitting(titles)) /\ d.list = name
      /\ Placed(d, CollectionCacheLayout(Len(titles), focus, offset))
      /\ Cardinality(Large(d.slots)) <= 2
  BY <1>4, <1>5, <1>6, RefreshCollectionKept
<1> HIDE DEF d
<1>8. Drawn(d) \in CachesOf(Fitting(titles)) /\ SameCovers(d, Drawn(d))
  BY <1>7, DrawnKept
<1>9. /\ covers' \in CachesOf(Fitting(titles)) /\ covers'.list = name
      /\ Placed(covers', CollectionCacheLayout(Len(titles), focus, offset))
  BY <1>1, <1>7, <1>8 DEF SameCovers, Placed
<1>10. covers' \in Caches
  BY <1>9, FittingIsGood
<1>11. /\ FlowName' = name /\ FlowTitles' = titles
       /\ FlowLayout' = CollectionCacheLayout(Len(titles), focus, offset)
  BY <1>1 DEF name, titles, focus, offset, FlowName, FlowTitles, FlowLayout, Offset
<1>12. covers'.list = "all" => titles = Titles /\ Ringed(covers', Total, base')
  <2> SUFFICES ASSUME covers'.list = "all"
               PROVE  titles = Titles /\ Ringed(covers', Total, base')
    OBVIOUS
  <2>1. titles = Titles /\ Len(titles) = Total
    BY <1>9, TitlesLength DEF name, titles, FlowName, FlowTitles
  <2>2. \A i \in CoverSlots :
          CollectionCacheLayout(Len(titles), focus, offset)[i]
            \in {-1, NavWrap(Len(titles), focus + i - CoverFocus)}
    BY <1>4, <1>5, LayoutType
  <2>3. ASSUME NEW i \in CoverSlots, covers'.slots[i].src # NoTitle
        PROVE  covers'.slots[i].target = NavWrap(Total, base' + i - CoverFocus)
    <3>1. covers'.slots[i] \in GoodSlots
      BY <1>10 DEF Caches, CachesOf
    <3>2. covers'.slots[i].target >= 0
      BY <2>3, <3>1 DEF GoodSlots
    <3>3. covers'.slots[i].target \in {-1, NavWrap(Total, focus + i - CoverFocus)}
      BY <1>9, <2>1, <2>2 DEF Placed
    <3> QED BY <1>1, <3>2, <3>3
  <2> QED BY <2>1, <2>3 DEF Ringed
<1>13. covers'.list = "favourites" => filtered /\ titles = FavouriteTitles(favs)
  BY <1>9 DEF name, titles, FlowName, FlowTitles
<1>14. base' \in Int
  BY <1>1, <1>4
<1>15. CoversKept'
  <2>1. orbit' \in Orbits /\ motion' \in Motions
    BY <1>1, <1>3 DEF CoverInv, CoversKept
  <2> QED BY <1>1, <1>9, <1>10, <1>12, <1>13, <1>14, <2>1 DEF CoversKept, Titles, FavouriteTitles
<1>16. CoversDrawn'
  BY <1>1, <1>3, <1>9, <1>11 DEF CoversDrawn, FlowDrawn
<1> QED BY <1>15, <1>16 DEF CoverInv

\* How far the ring of Orbit has to glide.
LEMMA GlidesType ==
    ASSUME NEW o \in Orbits, NEW sel \in Int, NEW due
    PROVE  Glides(o, sel, due) \in Orbits
<1> DEFINE turn == NavDirection(Total, o.glideTo, sel)
           near == Max({-400, Min({o.glide, 400})})
<1>1. turn \in Int
  BY DirectionType
<1>2. near \in Int
  <2>1. o.glide \in Int
    BY DEF Orbits
  <2>2. Min({o.glide, 400}) \in Int
    BY <2>1, MinOfTwo
  <2> QED BY <2>2, MaxOfTwo
<1>3. [o EXCEPT !.glideTo = sel, !.glide = 0] \in Orbits
  <2> DEFINE zero == 0
  <2>1. zero \in Int
    OBVIOUS
  <2> HIDE DEF zero
  <2>2. [o EXCEPT !.glideTo = sel, !.glide = zero] \in Orbits
    BY <2>1 DEF Orbits
  <2> QED BY <2>2 DEF zero
<1>4. [o EXCEPT !.glideTo = sel, !.glide = @ + 1000 * turn] \in Orbits
  <2> DEFINE glide == o.glide + 1000 * turn
  <2>1. glide \in Int
    BY <1>1 DEF Orbits
  <2>2. [o EXCEPT !.glideTo = sel, !.glide = @ + 1000 * turn]
          = [o EXCEPT !.glideTo = sel, !.glide = glide]
    BY DEF Orbits
  <2> HIDE DEF glide, turn
  <2>3. [o EXCEPT !.glideTo = sel, !.glide = glide] \in Orbits
    BY <2>1 DEF Orbits
  <2> QED BY <2>2, <2>3
<1>5. [o EXCEPT !.glide = IF due THEN 0 ELSE near] \in Orbits
  <2> HIDE DEF near
  <2> QED BY <1>2 DEF Orbits
<1> QED BY <1>3, <1>4, <1>5 DEF Glides

LEMMA OrbitDrawn ==
    ASSUME SelectionTypes, CoverInv, NEW due, NEW bad, DrawOrbit(due, bad)
    PROVE  CoverInv'
<1> DEFINE moved == OrbitMoved(due)
           sel == moved.sel
           o == Glides(moved.orbit, sel, due)
           glide == o.glide
           titles == Titles
           name == "all"
           c == RefreshCovers(covers, name, titles, sel, base, bad)
           d == UpdateResidency(c, glide, bad)
<1>1. /\ phase' = "input" /\ view = "orbit" /\ selected' = sel /\ base' = sel
      /\ orbit' = o /\ covers' = Drawn(d)
      /\ UNCHANGED <<view, filtered, favs, motion, saving>>
  BY DEF DrawOrbit, Drawing, diskVars
<1>2. sel \in Int /\ moved.orbit \in Orbits
  <2>1. selected \in Int /\ orbit \in Orbits /\ Total \in Nat
    BY NavigationAssumption DEF SelectionTypes, CoverInv, CoversKept
  <2>2. NavWrap(Total, selected + orbit.dir) \in Int
    BY <2>1, WrapType DEF Orbits
  <2>3. [orbit EXCEPT !.active = FALSE, !.target = -1] \in Orbits
    <3> DEFINE none == -1
    <3>1. none \in Int
      OBVIOUS
    <3> HIDE DEF none
    <3>2. [orbit EXCEPT !.active = FALSE, !.target = none] \in Orbits
      BY <2>1, <3>1 DEF Orbits
    <3> QED BY <3>2 DEF none
  <2> QED BY <2>1, <2>2, <2>3 DEF OrbitMoved
<1> HIDE DEF moved
<1>3. o \in Orbits
  BY <1>2, GlidesType
<1> HIDE DEF o
<1>4. glide \in Int
  BY <1>3 DEF Orbits
<1>5. /\ covers \in Caches /\ name \in Lists /\ base \in Int
      /\ covers.list = name => covers \in CachesOf(Fitting(titles))
      /\ covers.list = name /\ base >= 0 => Ringed(covers, Len(titles), base)
  BY TitlesLength DEF CoverInv, CoversKept, Lists
<1>6. Len(titles) \in Nat \ {0}
  BY TitlesLength
<1> HIDE DEF sel, glide, titles, name
<1>7. /\ c \in CachesOf(Fitting(titles)) /\ c.list = name
      /\ Ringed(c, Len(titles), sel)
  BY <1>2, <1>5, <1>6, RefreshCoversKept DEF sel
<1> HIDE DEF c
<1>8. /\ d \in CachesOf(Fitting(titles)) /\ SameCovers(c, d)
      /\ Cardinality(Large(d.slots)) <= 2
  BY <1>4, <1>7, ResidencyKept
<1> HIDE DEF d
<1>9. Drawn(d) \in CachesOf(Fitting(titles)) /\ SameCovers(d, Drawn(d))
  BY <1>8, DrawnKept
<1>10. SameCovers(c, covers')
  BY <1>1, <1>8, <1>9, SameTwice
<1>11. /\ covers' \in CachesOf(Fitting(Titles)) /\ covers'.list = "all"
       /\ Ringed(covers', Total, sel)
  BY <1>1, <1>7, <1>9, <1>10, TitlesLength DEF SameCovers, Ringed, titles, name
<1>12. covers' \in Caches
  BY <1>11, FittingIsGood
<1>13. base' \in Int /\ selected' = base'
  BY <1>1, <1>2 DEF sel
<1>14. CoversKept'
  <2>1. motion' \in Motions /\ orbit' \in Orbits /\ phase' # "saving"
    BY <1>1, <1>3 DEF CoverInv, CoversKept
  <2> QED BY <1>1, <1>11, <1>12, <1>13, <2>1 DEF CoversKept, Titles
<1>15. CoversDrawn'
  BY <1>1, <1>11, <1>13 DEF CoversDrawn, RingDrawn, Titles
<1> QED BY <1>14, <1>15 DEF CoverInv

\* The stream of Collection.
LEMMA SteeredType ==
    ASSUME NEW m \in Motions, NEW dir \in {-1, 0, 1}, NEW scan \in BOOLEAN
    PROVE  Steered(m, dir, scan) \in Motions /\ Steered(m, dir, scan).init = m.init
<1> DEFINE changed == dir # m.dir \/ scan # m.scan
           flowing == m.mode \in {"browse", "scan"}
           mode == CASE ~changed -> m.mode
                     [] changed /\ dir = 0 /\ flowing -> "settle"
                     [] changed /\ dir # 0 /\ scan /\ m.mode = "browse" -> "settle"
                     [] changed /\ dir # 0 /\ ~scan ->
                          IF flowing THEN "browse" ELSE "step"
                     [] OTHER -> m.mode
           travel == IF changed /\ dir # 0 THEN dir ELSE m.travel
<1>1. Steered(m, dir, scan) = [m EXCEPT !.dir = dir, !.scan = scan, !.travel = travel,
                                        !.mode = mode]
  BY DEF Steered
<1>2. mode \in Modes
  <2>1. m.mode \in Modes
    BY DEF Motions
  <2> QED BY <2>1 DEF Modes
<1>3. travel \in {-1, 0, 1}
  BY DEF Motions
<1> HIDE DEF mode, travel
<1> QED BY <1>1, <1>2, <1>3 DEF Motions

LEMMA FlowedType ==
    ASSUME NEW m \in Motions, m.init, NEW total \in Nat, NEW n \in Flowed(m, total)
    PROVE  n \in Motions /\ n.init
<1> DEFINE held == IF m.dir = 0 THEN m.mode ELSE IF m.scan THEN "scan" ELSE "browse"
           on == {[Moved(m, total, by) EXCEPT !.mode = mode] :
                    by \in {-1, 0, 1}, mode \in {m.mode, held} \ {"idle"}}
           ended == {[k EXCEPT !.mode = "idle"] :
                       k \in {k \in on : k.at = 0 /\ k.mode \in {"step", "settle"}}}
           good == {k \in Motions : k.init}
<1>1. ASSUME NEW by \in {-1, 0, 1}
      PROVE  Moved(m, total, by) \in good
  <2>1. NavWrap(total, m.focus + by) \in Int
    BY WrapType DEF Motions
  <2>2. m.at + by \in Int /\ -by \in Int
    BY DEF Motions
  <2> QED BY <2>1, <2>2 DEF Moved, Motions
<1>2. ASSUME NEW k \in good, NEW mode \in Modes
      PROVE  [k EXCEPT !.mode = mode] \in good
  BY DEF Motions
<1>3. m.mode \in Modes /\ held \in Modes /\ "idle" \in Modes
  BY DEF Motions, Modes
<1>4. Rest(IF total = 0 THEN -1 ELSE 0) \in good
  BY RestType
<1> HIDE DEF held, good
<1>5. \A k \in on : k \in good
  BY <1>1, <1>2, <1>3
<1> HIDE DEF on
<1>6. \A k \in ended : k \in good
  BY <1>2, <1>3, <1>5
<1>7. m \in good
  BY DEF good
<1>8. n \in on \/ n \in ended \/ n = m \/ n = Rest(IF total = 0 THEN -1 ELSE 0)
  BY DEF Flowed, on, held
<1>9. n \in good
  BY <1>4, <1>5, <1>6, <1>7, <1>8
<1> QED BY <1>9 DEF good

LEMMA CollectionMoved ==
    ASSUME SelectionTypes, CoverInv, MoveCollection
    PROVE  CoverInv' /\ motion'.init
<1>1. PICK dir \in {-1, 0, 1}, scan \in BOOLEAN, both \in BOOLEAN :
        LET braked == IF both /\ motion.mode \notin {"settle", "idle"}
                      THEN [motion EXCEPT !.mode = "settle"] ELSE motion
        IN  motion' \in Flowed(Steered(braked, dir, scan), Len(FlowTitles))
  BY DEF MoveCollection
<1> DEFINE braked == IF both /\ motion.mode \notin {"settle", "idle"}
                     THEN [motion EXCEPT !.mode = "settle"] ELSE motion
           steered == Steered(braked, dir, scan)
           total == Len(FlowTitles)
<1>2. /\ phase = "input" /\ view = "collection" /\ phase' = "draw"
      /\ UNCHANGED <<covers, base, view, filtered, favs, orbit>>
  BY DEF MoveCollection, Input
<1>3. motion \in Motions /\ motion.init /\ orbit \in Orbits
  BY <1>2 DEF CoverInv, CoversKept, CoversDrawn, FlowDrawn
<1>4. braked \in Motions /\ braked.init
  BY <1>3 DEF Motions, Modes
<1>5. motion' \in Flowed(steered, total)
  BY <1>1
<1> HIDE DEF braked
<1>6. steered \in Motions /\ steered.init
  BY <1>4, SteeredType
<1> HIDE DEF steered
<1>7. total \in Nat
  BY FlowLength
<1> HIDE DEF total
<1>8. motion' \in Motions /\ motion'.init
  BY <1>5, <1>6, <1>7, FlowedType
<1> QED BY <1>2, <1>3, <1>8, CoversAlone

\* The other frames, buttons and saves leave the covers alone ...
LEMMA CoversLeft ==
    ASSUME DiskTypes, SelectionTypes, CoverInv,
           \/ \E due : DrawClassic(due) \/ DrawGrid(due)
           \/ Idle \/ MoveInList \/ RandomScan \/ MoveGrid \/ PressShoulder
           \/ HoldShoulder \/ ReleaseShoulder \/ Favourite \/ Launch
           \/ SaveStep \/ SaveFault
    PROVE  CoverInv'
<1>1. motion \in Motions /\ orbit \in Orbits
  BY DEF CoverInv, CoversKept
<1>2. CASE \E due : DrawClassic(due) \/ DrawGrid(due)
  <2>1. /\ UNCHANGED <<covers, base, view, filtered, favs, motion, orbit>>
        /\ phase' = "input" /\ view \in {"classic", "grid"}
    BY <1>2 DEF DrawClassic, DrawGrid, Drawing
  <2> QED BY <1>1, <2>1, CoversAlone
<1>3. CASE Idle
  <2>1. /\ UNCHANGED <<covers, base, view, filtered, favs, motion, orbit>>
        /\ phase' = "draw"
    BY <1>3 DEF Idle
  <2> QED BY <1>1, <2>1, CoversAlone
<1>4. CASE MoveInList \/ RandomScan
  <2>1. /\ UNCHANGED <<covers, base, view, filtered, favs, motion>> /\ phase' = "draw"
    BY <1>4 DEF MoveInList, RandomScan
  <2>2. orbit' \in Orbits
    <3>1. CASE MoveInList
      <4>1. orbit' = [orbit EXCEPT !.active = FALSE]
        BY <3>1 DEF MoveInList
      <4> QED BY <1>1, <4>1 DEF Orbits
    <3>2. CASE RandomScan
      <4>1. CASE Total > 1
        <5>1. PICK jump \in 0 .. Total - 2 :
                LET to == NavRandomTarget(Total, selected, jump)
                IN  orbit' = [orbit EXCEPT !.active = TRUE, !.target = to,
                                !.dir = NavDirection(Total, selected, to)]
          BY <3>2, <4>1 DEF RandomScan
        <5> DEFINE to == NavRandomTarget(Total, selected, jump)
                   turn == NavDirection(Total, selected, to)
        <5>2. turn \in Int
          BY DirectionType
        <5>3. to \in Int
          <6> DEFINE i == selected + 1 + (jump % (Total - 1))
          <6>1. Total \in Nat
            BY NavigationAssumption
          <6>2. jump % (Total - 1) \in Int
            BY <6>1, <4>1
          <6>3. i \in Int
            BY <6>2 DEF SelectionTypes
          <6> HIDE DEF i
          <6>4. NavWrap(Total, i) \in Int
            BY <6>1, <6>3, WrapType
          <6> QED BY <4>1, <6>1, <6>4 DEF NavRandomTarget, i
        <5> HIDE DEF to, turn
        <5> QED BY <1>1, <5>1, <5>2, <5>3 DEF Orbits, to, turn
      <4>2. CASE ~(Total > 1)
        BY <1>1, <3>2, <4>2 DEF RandomScan
      <4> QED BY <4>1, <4>2
    <3> QED BY <1>4, <3>1, <3>2
  <2> QED BY <1>1, <2>1, <2>2, CoversAlone
<1>5. CASE MoveGrid \/ PressShoulder \/ HoldShoulder \/ ReleaseShoulder
  <2>1. \E g : GridTo(g)
    BY <1>5 DEF MoveGrid, PressShoulder, HoldShoulder, ReleaseShoulder
  <2>2. /\ UNCHANGED <<covers, base, view, filtered, favs, motion, orbit>>
        /\ phase' = "draw"
    BY <2>1 DEF GridTo
  <2> QED BY <1>1, <2>2, CoversAlone
<1>6. CASE Favourite
  <2>1. /\ UNCHANGED <<covers, base, view, filtered, favs, motion, orbit>>
        /\ view = "classic"
    BY <1>6 DEF Favourite
  <2> QED BY <1>1, <2>1, CoversAlone
<1>7. CASE Launch
  <2>1. /\ UNCHANGED <<covers, base, view, filtered, favs, motion, orbit>>
        /\ phase' = "saving" /\ saving'.then = "launch"
    BY <1>7 DEF Launch, StartSave, uiVars
  <2> QED BY <1>1, <2>1, CoversAlone
<1>8. CASE SaveStep \/ SaveFault
  <2>1. /\ UNCHANGED <<covers, base, view, filtered, favs, motion, orbit, phase>>
        /\ phase = "saving"
    BY <1>8 DEF SaveStep, SaveFault, uiVars
  <2>2. saving'.then = saving.then
    BY <1>8, SaveMoves DEF OneMove
  <2> QED BY <1>1, <2>1, <2>2, CoversAlone DEF CoverInv, CoversKept
<1> QED BY <1>2, <1>3, <1>4, <1>5, <1>6, <1>7, <1>8

\* ... and these release them, or draw none.
LEMMA CoversReleased ==
    ASSUME CoverInv
    PROVE  /\ ReleaseCovers(covers) \in Caches /\ ReleaseCovers(covers).list = "none"
           /\ covers.list \in Lists
           /\ ReleaseVRAM(covers) \in Caches /\ ReleaseVRAM(covers).list = covers.list
           /\ covers.list = "all" =>
                /\ ReleaseVRAM(covers) \in CachesOf(Fitting(Titles))
                /\ base >= 0 => Ringed(ReleaseVRAM(covers), Total, base)
<1>1. covers \in Caches
  BY DEF CoverInv, CoversKept
<1>2. /\ ReleaseCovers(covers) \in CachesOf(Fitting(Titles))
      /\ ReleaseCovers(covers).list = "none"
  <2> DEFINE none == "none"
             titles == Titles
  <2>1. none \in Lists
    BY DEF Lists
  <2> HIDE DEF none, titles
  <2>2. ReleaseCovers(covers) \in CachesOf(Fitting(titles))
        /\ ReleaseCovers(covers).list = "none"
    BY <1>1, <2>1, ReleasedKept
  <2> QED BY <2>2 DEF titles
<1>3. ReleaseVRAM(covers) \in Caches /\ SameCovers(covers, ReleaseVRAM(covers))
  BY <1>1, ReleasedVRAMKept
<1>4. covers.list = "all" =>
        /\ ReleaseVRAM(covers) \in CachesOf(Fitting(Titles))
        /\ base >= 0 => Ringed(ReleaseVRAM(covers), Total, base)
  <2> SUFFICES ASSUME covers.list = "all"
               PROVE  /\ ReleaseVRAM(covers) \in CachesOf(Fitting(Titles))
                      /\ base >= 0 => Ringed(ReleaseVRAM(covers), Total, base)
    OBVIOUS
  <2> DEFINE titles == Titles
             d == ReleaseVRAM(covers)
  <2>1. covers \in CachesOf(Fitting(titles)) /\ (base >= 0 => Ringed(covers, Total, base))
    BY DEF CoverInv, CoversKept
  <2> HIDE DEF titles, d
  <2>2. d \in CachesOf(Fitting(titles))
    BY <2>1, <1>3, SameFits DEF d
  <2>3. base >= 0 => Ringed(d, Total, base)
    BY <2>1, <1>3 DEF SameCovers, Ringed, d
  <2> QED BY <2>2, <2>3 DEF titles, d
<1>5. covers.list \in Lists
  BY <1>1 DEF Caches, CachesOf
<1>6. ReleaseVRAM(covers).list = covers.list
  BY <1>3 DEF SameCovers
<1> QED BY <1>2, <1>3, <1>4, <1>5, <1>6, FittingIsGood

LEMMA CoversOff ==
    ASSUME Off
    PROVE  CoverInv'
<1>1. /\ phase' = "off" /\ motion' = NoMotion /\ orbit' = NoOrbit /\ base' = -1
      /\ covers' = NoCache
  BY DEF Off
<1> QED BY <1>1, NoCoversKept, CoversGone

LEMMA CoversToggled ==
    ASSUME SelectionTypes, CoverInv, ToggleFavourites
    PROVE  CoverInv'
<1>1. phase' = "draw" /\ filtered' = ~filtered /\ UNCHANGED <<view, favs>>
  BY DEF ToggleFavourites
<1>2. motion \in Motions /\ orbit \in Orbits /\ base \in Int /\ covers \in Caches
  BY DEF CoverInv, CoversKept
<1>3. CASE view = "classic"
  <2>1. UNCHANGED <<motion, covers, base, orbit>>
    BY <1>3 DEF ToggleFavourites
  <2>2. covers.list # "favourites"
    BY <1>3 DEF CoverInv, CoversKept
  <2>3. CoversKept'
    BY <1>1, <1>2, <2>1, <2>2 DEF CoverInv, CoversKept, Titles
  <2> QED BY <1>1, <2>3 DEF CoverInv, CoversDrawn
<1>4. CASE view # "classic"
  <2>1. /\ motion' = NoMotion /\ covers' = ReleaseCovers(covers) /\ base' = -1
        /\ orbit' = [orbit EXCEPT !.glideTo = -1, !.glide = 0]
    BY <1>4 DEF ToggleFavourites
  <2>2. orbit' \in Orbits
    <3> DEFINE none == -1
               zero == 0
    <3>1. none \in Int /\ zero \in Int
      OBVIOUS
    <3> HIDE DEF none, zero
    <3>2. [orbit EXCEPT !.glideTo = none, !.glide = zero] \in Orbits
      BY <1>2, <3>1 DEF Orbits
    <3> QED BY <2>1, <3>2 DEF none, zero
  <2>3. covers' \in Caches /\ covers'.list = "none"
    BY <2>1, CoversReleased
  <2>4. base' \in Int /\ motion' \in Motions
    BY <2>1, NoCoversKept
  <2> QED BY <1>1, <2>2, <2>3, <2>4, CoversGone
<1> QED BY <1>3, <1>4

LEMMA CoversChanged ==
    ASSUME SelectionTypes, CoverInv, ChangeView
    PROVE  CoverInv'
<1> DEFINE next == NextView(view)
           keep == ~(view = "collection" /\ filtered)
           flow == view \in {"collection", "orbit"}
<1>1. /\ phase' = "saving" /\ saving'.then = "draw" /\ view' = next
      /\ filtered' = FALSE /\ motion' = NoMotion /\ orbit' = NoOrbit
      /\ base' = (IF keep THEN base ELSE -1) /\ UNCHANGED favs
  BY DEF ChangeView, StartSave
<1>2. covers' = CASE flow /\ ~keep -> ReleaseCovers(covers)
                  [] flow /\ keep /\ next # "orbit" -> ReleaseVRAM(covers)
                  [] OTHER -> covers
  BY DEF ChangeView
<1>3. covers \in Caches /\ base \in Int
  BY DEF CoverInv, CoversKept
<1>4. base' \in Int /\ motion' \in Motions /\ orbit' \in Orbits
  BY <1>1, <1>3, NoCoversKept
<1>5. CASE ~keep
  <2>1. covers' = ReleaseCovers(covers)
    BY <1>2, <1>5
  <2> QED BY <1>1, <1>4, <2>1, CoversReleased, CoversGone
<1>6. CASE keep
  <2>1. covers' = ReleaseVRAM(covers) \/ covers' = covers
    BY <1>2, <1>6
  <2>2. covers' \in Caches /\ covers'.list = covers.list /\ covers.list # "favourites"
    BY <1>3, <1>6, <2>1, CoversReleased DEF CoverInv, CoversKept
  <2>3. covers'.list = "all" =>
          /\ covers' \in CachesOf(Fitting(Titles))
          /\ base >= 0 => Ringed(covers', Total, base)
    BY <2>1, <2>2, CoversReleased DEF CoverInv, CoversKept
  <2>4. CoversKept'
    BY <1>1, <1>4, <1>6, <2>2, <2>3 DEF CoversKept, Titles
  <2> QED BY <1>1, <2>4 DEF CoverInv, CoversDrawn
<1> QED BY <1>5, <1>6

\* The list of the favourites is built anew in Classic only.
LEMMA CoversSaved ==
    ASSUME SelectionTypes, CoverInv, SaveEnd
    PROVE  CoverInv'
<1>1. phase = "saving"
  BY DEF SaveEnd
<1>2. CASE saving.then = "launch"
  <2>1. Off
    BY <1>2 DEF SaveEnd
  <2> QED BY <2>1, CoversOff
<1>3. CASE saving.then = "favourite"
  <2>1. phase' = "draw" /\ FavouriteSaved
    BY <1>3 DEF SaveEnd
  <2>2. /\ UNCHANGED <<view, filtered, motion, orbit, base, covers>>
        /\ view = "classic"
    BY <1>1, <1>3, <2>1 DEF FavouriteSaved, CoverInv, CoversKept
  <2>3. CoversKept'
    BY <2>1, <2>2 DEF CoverInv, CoversKept, Titles
  <2> QED BY <2>1, <2>3 DEF CoverInv, CoversDrawn
<1>4. CASE saving.then \notin {"launch", "favourite"}
  <2>1. phase' = "draw" /\ UNCHANGED uiVars
    BY <1>4 DEF SaveEnd
  <2>2. UNCHANGED <<covers, base, view, filtered, favs, motion, orbit>>
    BY <2>1 DEF uiVars
  <2>3. motion \in Motions /\ orbit \in Orbits
    BY DEF CoverInv, CoversKept
  <2> QED BY <2>1, <2>2, <2>3, CoversAlone
<1> QED BY <1>2, <1>3, <1>4

LEMMA CoversStep ==
    ASSUME TypesInv, CoverInv, [Next]_vars
    PROVE  CoverInv'
<1>0. SelectionTypes /\ DiskTypes
  BY DEF TypesInv, SelectionInv
<1>1. CASE Frame
  BY <1>0, <1>1, CollectionDrawn, OrbitDrawn, CoversLeft DEF Frame, Draw
<1>2. CASE \/ Idle \/ MoveInList \/ RandomScan \/ MoveGrid \/ PressShoulder
           \/ HoldShoulder \/ ReleaseShoulder \/ Favourite \/ Launch
           \/ SaveStep \/ SaveFault
  BY <1>0, <1>2, CoversLeft
<1>3. CASE MoveCollection \/ ToggleFavourites \/ ChangeView \/ SaveEnd
  BY <1>0, <1>3, CollectionMoved, CoversToggled, CoversChanged, CoversSaved
<1>4. CASE PowerCut \/ Quit
  <2>1. Off
    BY <1>4 DEF PowerCut, Quit
  <2> QED BY <2>1, CoversOff
<1>5. CASE Boot
  <2>1. /\ phase' = "draw" /\ motion' = NoMotion /\ orbit' = NoOrbit /\ base' = -1
        /\ covers' = NoCache
    BY <1>5 DEF Boot
  <2> QED BY <2>1, NoCoversKept, CoversGone
<1>6. CASE UNCHANGED vars
  BY <1>6, ZenonT(60) DEF vars, uiVars, diskVars, CoverInv, CoversKept, CoversDrawn, FlowDrawn,
     FlowLayout, FlowName, FlowTitles, RingDrawn, Offset, Titles, FavouriteTitles
<1>7. Next => \/ Frame \/ Idle \/ MoveInList \/ RandomScan \/ MoveGrid \/ PressShoulder
              \/ HoldShoulder \/ ReleaseShoulder \/ Favourite \/ Launch
              \/ SaveStep \/ SaveFault
              \/ MoveCollection \/ ToggleFavourites \/ ChangeView \/ SaveEnd
              \/ PowerCut \/ Quit \/ Boot
  BY Zenon DEF Next, Pad, Buttons, Drive
<1> QED BY <1>1, <1>2, <1>3, <1>4, <1>5, <1>6, <1>7

LEMMA CoversInit ==
    ASSUME Init
    PROVE  CoverInv
<1>1. /\ phase = "off" /\ motion = NoMotion /\ orbit = NoOrbit /\ base = -1
      /\ covers = NoCache
  BY DEF Init
<1> QED BY <1>1, NoCoversKept DEF CoverInv, CoversKept, CoversDrawn

\* Video memory never holds a third full-size cover, whatever moved, whatever
\* could not be allocated and whichever view comes next.
THEOREM NoThirdCover == Spec => []TwoFullCovers
<1>1. Init => TypesInv /\ CoverInv
  BY TypesInit, CoversInit
<1>2. (TypesInv /\ CoverInv) /\ [Next]_vars => (TypesInv /\ CoverInv)'
  BY TypesStep, CoversStep
<1>3. TypesInv /\ CoverInv => TwoFullCovers
  BY DEF CoverInv, CoversKept, Caches, CachesOf, TwoFullCovers
<1> QED BY <1>1, <1>2, <1>3, PTL DEF Spec

\* When the pad is read in Collection or Orbit, each slot stands for the title
\* its place calls for and shows the cover of that title, however the covers
\* were moved, slid, loaded anew or handed on from one view to the other.
THEOREM CoversAreTheirs == Spec => []CoversMatchTitles
<1>1. Init => TypesInv /\ CoverInv
  BY TypesInit, CoversInit
<1>2. (TypesInv /\ CoverInv) /\ [Next]_vars => (TypesInv /\ CoverInv)'
  BY TypesStep, CoversStep
<1>3. TypesInv /\ CoverInv => CoversMatchTitles
  <2> SUFFICES ASSUME TypesInv, CoverInv, phase = "input",
                      view \in {"collection", "orbit"}
               PROVE  CoversMatchTitles
    BY DEF CoversMatchTitles
  <2>1. CASE view = "collection"
    <3>1. FlowDrawn
      BY <2>1 DEF CoverInv, CoversDrawn
    <3>2. covers \in CachesOf(Fitting(FlowTitles))
      BY <3>1, OwnCovers DEF FlowDrawn
    <3>3. ASSUME NEW i \in CoverSlots
          PROVE  LET s == covers.slots[i]
                 IN  /\ s.target = FlowLayout[i]
                     /\ s.src # NoTitle => s.src = TitleAt(FlowTitles, s.target)
      <4>1. covers.slots[i] \in Fitting(FlowTitles)
        BY <3>2 DEF CachesOf
      <4> QED BY <3>1, <4>1 DEF FlowDrawn, Placed, Fitting
    <3> QED BY <2>1, <3>3 DEF CoversMatchTitles, FlowLayout
  <2>2. CASE view = "orbit"
    <3>1. covers \in CachesOf(Fitting(Titles)) /\ Ringed(covers, Total, selected)
      BY <2>2 DEF CoverInv, CoversDrawn, RingDrawn
    <3>2. ASSUME NEW i \in CoverSlots
          PROVE  LET s == covers.slots[i]
                 IN  /\ s.loaded => s.src # NoTitle
                     /\ s.src # NoTitle =>
                          /\ s.target = NavWrap(Total, selected + i - CoverFocus)
                          /\ s.src = TitleAt(Titles, s.target)
      <4>1. covers.slots[i] \in Fitting(Titles)
        BY <3>1 DEF CachesOf
      <4> QED BY <3>1, <4>1 DEF Ringed, Fitting, GoodSlots
    <3> QED BY <2>2, <3>2 DEF CoversMatchTitles
  <2> QED BY <2>1, <2>2
<1> QED BY <1>1, <1>2, <1>3, PTL DEF Spec

----------------------------------------------------------------------------
(* What Cross launches.                                                    *)

\* The stream of Collection stands at the selected title.
InFocus ==
    IF filtered
    THEN favs = marked /\ marked # {} =>
           selected = NavMarkedByRank(marked, motion.focus)
    ELSE selected >= 0 => motion.focus = selected

FlowShown == IF FlowTitles = <<>> THEN -1
             ELSE TitleAt(FlowTitles, NavWrap(Len(FlowTitles), motion.focus))

\* What the pad is read against is what was drawn.
ShownOK ==
    phase = "input" =>
      /\ cur = selected
      /\ view \in {"classic", "orbit"} => shown = selected
      /\ view = "grid" => selected = grid.sel /\ shown = Screen(grid).title
      /\ view = "collection" => shown = FlowShown

ClassicOK ==
    /\ {"ready", "cover", "requested", "held"} \subseteq DOMAIN classic
    /\ view = "classic" /\ classic.ready => classic.cover \in {-1, cur}

SeenInv ==
    /\ view \in Views
    /\ motion.init => view = "collection" /\ InFocus
    /\ ShownOK /\ ClassicOK
    /\ launched # NoLaunch => phase = "saving" /\ saving.then = "launch"
    /\ LaunchIsSeen

LEMMA LoadedClassicOK ==
    ASSUME NEW title
    PROVE  /\ {"ready", "cover", "requested", "held"} \subseteq DOMAIN LoadedClassic(title)
           /\ LoadedClassic(title).cover \in {-1, title}
BY DEF LoadedClassic, ClassicCover, NoClassic

LEMMA NothingSeen ==
    ASSUME launched = NoLaunch
    PROVE  LaunchIsSeen
BY DEF LaunchIsSeen

\* While the pad is read and frames are drawn nothing is launched.
LEMMA NotYetLaunched ==
    ASSUME SeenInv, phase \in {"draw", "input"}
    PROVE  launched = NoLaunch
BY DEF SeenInv

LEMMA ClassicSeen ==
    ASSUME SelectionTypes, SeenInv, NEW due, DrawClassic(due)
    PROVE  SeenInv'
<1> DEFINE moved == cur # selected
           c == IF moved THEN Asked(classic, selected) ELSE classic
           loaded == LoadedClassic(selected)
           good == {"ready", "cover", "requested", "held"}
<1>1. /\ phase = "draw" /\ phase' = "input" /\ view = "classic"
      /\ cur' = selected /\ shown' = selected
      /\ classic' = IF c.requested = selected /\ ~c.held /\ due /\ ~moved
                    THEN [loaded EXCEPT !.held = c.held] ELSE c
      /\ UNCHANGED <<launched, view, selected, marked, favs, filtered, motion>>
  BY DEF DrawClassic, Drawing
<1>2. good \subseteq DOMAIN loaded /\ loaded.cover \in {-1, selected}
  BY LoadedClassicOK
<1>3. good \subseteq DOMAIN classic /\ (classic.ready => classic.cover \in {-1, cur})
  BY <1>1 DEF SeenInv, ClassicOK
<1>4. good \subseteq DOMAIN c /\ (c.ready => ~moved /\ c = classic)
  BY <1>3 DEF Asked
<1> HIDE DEF loaded, c
<1>5. ASSUME classic' = c
      PROVE  ClassicOK'
  BY <1>1, <1>3, <1>4, <1>5 DEF ClassicOK
<1>6. ASSUME classic' = [loaded EXCEPT !.held = c.held]
      PROVE  ClassicOK'
  BY <1>1, <1>2, <1>6 DEF ClassicOK
<1>7. ClassicOK'
  BY <1>1, <1>5, <1>6
<1>8. ShownOK'
  BY <1>1 DEF ShownOK
<1>9. launched' = NoLaunch /\ motion'.init = FALSE
  BY <1>1, NotYetLaunched DEF SeenInv
<1>10. LaunchIsSeen'
  BY <1>9 DEF LaunchIsSeen
<1> QED BY <1>1, <1>7, <1>8, <1>9, <1>10 DEF SeenInv

\* The frames of Orbit and Grid highlight the title they select.
LEMMA RingSeen ==
    ASSUME SeenInv, NEW due, (\E bad : DrawOrbit(due, bad)) \/ DrawGrid(due)
    PROVE  SeenInv'
<1>1. /\ phase = "draw" /\ phase' = "input" /\ view \in {"orbit", "grid"}
      /\ cur' = selected'
      /\ view = "orbit" => shown' = selected'
      /\ view = "grid" => selected' = grid'.sel /\ shown' = Screen(grid').title
      /\ UNCHANGED <<launched, view, classic, motion>>
  BY DEF DrawOrbit, DrawGrid, Drawing
<1>2. ShownOK'
  BY <1>1 DEF ShownOK
<1>3. ClassicOK'
  BY <1>1 DEF SeenInv, ClassicOK
<1>4. launched' = NoLaunch /\ ~motion'.init
  BY <1>1, NotYetLaunched DEF SeenInv
<1>5. LaunchIsSeen'
  BY <1>4 DEF LaunchIsSeen
<1> QED BY <1>1, <1>2, <1>3, <1>4, <1>5 DEF SeenInv

\* Collection comes up at the selected title, by its rank among the favourites
\* or as it is.
LEMMA FlowSeen ==
    ASSUME SelectionTypes, CoverInv, FavouriteSelected, SeenInv,
           NEW due, NEW bad, DrawCollection(due, bad)
    PROVE  SeenInv'
<1> DEFINE rank == IF filtered THEN NavMarkedRank(marked, selected) ELSE selected
           first == IF rank < 0 THEN 0 ELSE rank
           m == IF motion.init THEN motion ELSE Rest(first)
<1>1. /\ phase = "draw" /\ phase' = "input" /\ view = "collection" /\ motion' = m
      /\ cur' = selected
      /\ shown' = IF FlowTitles = <<>> THEN -1
                  ELSE TitleAt(FlowTitles, NavWrap(Len(FlowTitles), m.focus))
      /\ UNCHANGED <<launched, view, selected, marked, favs, filtered, classic>>
  BY DEF DrawCollection, Drawing
<1>2. FlowTitles' = FlowTitles
  BY <1>1 DEF FlowTitles, FavouriteTitles, Titles
<1>3. shown' = FlowShown'
  BY <1>1, <1>2 DEF FlowShown
<1>4. ASSUME motion.init
      PROVE  InFocus'
  <2>1. motion' = motion
    BY <1>1, <1>4
  <2> QED BY <1>1, <1>4, <2>1 DEF SeenInv, InFocus
<1>5. ASSUME ~motion.init
      PROVE  InFocus'
  <2>1. rank \in Int
    BY RankType DEF SelectionTypes
  <2>2. first \in Int
    <3> HIDE DEF rank
    <3> QED BY <2>1
  <2>3. motion'.focus = first
    <3> HIDE DEF first
    <3> QED BY <1>1, <1>5, <2>2, RestType
  <2>4. CASE ~filtered
    BY <1>1, <2>3, <2>4 DEF InFocus, SelectionTypes
  <2>5. CASE filtered /\ marked # {}
    <3>1. selected \in marked /\ marked \in TitleSets
      BY <1>1, <2>5 DEF FavouriteSelected, SelectionTypes
    <3>2. rank = NavMarkedRank(marked, selected) /\ rank >= 0
      <4> HIDE DEF rank
      <4>1. rank = NavMarkedRank(marked, selected)
        BY <2>5 DEF rank
      <4>2. NavMarkedRank(marked, selected) \in 0 .. Cardinality(marked) - 1
        BY <3>1, RankOrder
      <4> QED BY <2>1, <4>1, <4>2
    <3>3. first = NavMarkedRank(marked, selected)
      <4> HIDE DEF rank
      <4> QED BY <2>1, <3>2
    <3>4. NavMarkedByRank(marked, NavMarkedRank(marked, selected)) = selected
      BY <3>1, RankFound
    <3> QED BY <1>1, <2>3, <2>5, <3>3, <3>4 DEF InFocus
  <2>6. CASE filtered /\ marked = {}
    BY <1>1, <2>6 DEF InFocus
  <2> QED BY <1>1, <2>4, <2>5, <2>6 DEF SelectionTypes
<1>6. ShownOK'
  BY <1>1, <1>3 DEF ShownOK
<1>7. ClassicOK'
  BY <1>1 DEF SeenInv, ClassicOK
<1>8. launched' = NoLaunch
  BY <1>1, NotYetLaunched
<1>9. LaunchIsSeen'
  BY <1>8 DEF LaunchIsSeen
<1>10. InFocus' /\ view' = "collection"
  BY <1>1, <1>4, <1>5
<1> QED BY <1>1, <1>6, <1>7, <1>8, <1>9, <1>10 DEF SeenInv

\* A button that launches nothing, in a view where the stream is not shown.
LEMMA PressSeen ==
    ASSUME SeenInv, phase = "input", phase' # "input",
           UNCHANGED <<launched, view, cur>>, ClassicOK',
           motion'.init => /\ motion' = motion
                           /\ UNCHANGED <<selected, marked, favs, filtered>>
    PROVE  SeenInv'
<1>1. launched' = NoLaunch
  BY NotYetLaunched
<1>2. LaunchIsSeen'
  BY <1>1 DEF LaunchIsSeen
<1>3. motion'.init => view' = "collection" /\ InFocus'
  BY DEF SeenInv, InFocus
<1> QED BY <1>1, <1>2, <1>3 DEF SeenInv, ShownOK

LEMMA HeldKept ==
    ASSUME SeenInv, NEW is, UNCHANGED <<view, cur>>,
           classic' = Held(is) \/ classic' = classic
    PROVE  ClassicOK'
BY DEF SeenInv, ClassicOK, Held

LEMMA MovesSeen ==
    ASSUME SeenInv,
           \/ Idle \/ MoveInList \/ RandomScan \/ MoveGrid \/ PressShoulder
           \/ HoldShoulder \/ ReleaseShoulder
    PROVE  SeenInv'
<1>1. CASE Idle \/ MoveInList \/ RandomScan
  <2>1. /\ phase = "input" /\ phase' = "draw" /\ view # "collection"
        /\ UNCHANGED <<launched, view, cur, motion>>
        /\ \E is : classic' = Held(is) \/ classic' = classic
    BY <1>1 DEF Idle, MoveInList, RandomScan, Input
  <2>2. ClassicOK'
    BY <2>1, HeldKept
  <2>3. ~motion'.init
    BY <2>1 DEF SeenInv
  <2> QED BY <2>1, <2>2, <2>3, PressSeen
<1>2. CASE MoveGrid \/ PressShoulder \/ HoldShoulder \/ ReleaseShoulder
  <2>1. phase = "input" /\ view = "grid" /\ \E g : GridTo(g)
    BY <1>2 DEF MoveGrid, PressShoulder, HoldShoulder, ReleaseShoulder, Input
  <2>2. phase' = "draw" /\ UNCHANGED <<launched, view, cur, classic, motion>>
    BY <2>1 DEF GridTo
  <2>3. ClassicOK' /\ ~motion'.init
    BY <2>1, <2>2 DEF SeenInv, ClassicOK
  <2> QED BY <2>1, <2>2, <2>3, PressSeen
<1> QED BY <1>1, <1>2

\* The favourites as Collection shows them.
LEMMA FavouritesShown ==
    ASSUME SelectionTypes, filtered, favs = marked, marked # {}
    PROVE  /\ Len(FlowTitles) = Cardinality(marked) /\ FlowTitles # <<>>
           /\ Cardinality(marked) \in Nat \ {0}
           /\ \A k \in 0 .. Cardinality(marked) - 1 :
                TitleAt(FlowTitles, k) = NavMarkedByRank(marked, k)
<1> DEFINE n == Cardinality(marked)
<1>1. n \in Nat \ {0}
  BY FS_CardinalityType, FS_EmptySet DEF SelectionTypes, TitleSets
<1>2. FlowTitles = [i \in 1 .. n |-> NavMarkedByRank(marked, i - 1)]
  BY DEF FlowTitles, FavouriteTitles
<1> HIDE DEF n
<1>3. Len(FlowTitles) = n
  BY <1>1, <1>2
<1>4. \A k \in 0 .. n - 1 : TitleAt(FlowTitles, k) = NavMarkedByRank(marked, k)
  <2> SUFFICES ASSUME NEW k \in 0 .. n - 1
               PROVE  TitleAt(FlowTitles, k) = NavMarkedByRank(marked, k)
    OBVIOUS
  <2>1. k + 1 \in 1 .. n /\ (k + 1) - 1 = k
    BY <1>1
  <2> QED BY <1>2, <2>1 DEF TitleAt
<1> QED BY <1>1, <1>3, <1>4 DEF n

\* All titles as Collection and Orbit show them.
LEMMA TitlesShown ==
    ASSUME NEW i \in 0 .. Total - 1
    PROVE  NavWrap(Total, i) = i /\ TitleAt(Titles, i) = i /\ i >= 0
<1>1. Total \in Nat \ {0}
  BY NavigationAssumption
<1>2. i + 1 \in 1 .. Total /\ (i + 1) - 1 = i
  BY <1>1
<1>3. TitleAt(Titles, i) = i
  BY <1>2 DEF TitleAt, Titles
<1>4. NavWrap(Total, i) = i
  BY <1>1 DEF NavWrap
<1> QED BY <1>1, <1>3, <1>4

\* The stream moves, and the selected title with it.
LEMMA StreamSeen ==
    ASSUME SelectionTypes, CoverInv, SeenInv, MoveCollection
    PROVE  SeenInv'
<1>1. /\ phase = "input" /\ phase' = "draw" /\ view = "collection"
      /\ selected' = Focused(motion')
      /\ UNCHANGED <<launched, view, marked, favs, filtered, classic>>
  BY DEF MoveCollection, Input
<1>2. ASSUME filtered
      PROVE  InFocus'
  <2>1. CASE favs = marked /\ marked # {}
    <3>1. FlowTitles # <<>>
      BY <1>2, <2>1, FavouritesShown
    <3>2. selected' = NavMarkedByRank(marked, motion'.focus)
      BY <1>1, <1>2, <3>1 DEF Focused
    <3> QED BY <1>1, <1>2, <3>2 DEF InFocus
  <2>2. CASE ~(favs = marked /\ marked # {})
    BY <1>1, <1>2, <2>2 DEF InFocus
  <2> QED BY <2>1, <2>2
<1>3. ASSUME ~filtered
      PROVE  InFocus'
  <2>1. FlowTitles # <<>>
    BY <1>3, TitlesLength DEF FlowTitles
  <2>2. selected' = motion'.focus
    BY <1>1, <1>3, <2>1 DEF Focused
  <2> QED BY <1>1, <1>3, <2>2 DEF InFocus
<1>4. InFocus' /\ view' = "collection"
  BY <1>1, <1>2, <1>3
<1>5. ClassicOK' /\ ShownOK'
  BY <1>1 DEF SeenInv, ClassicOK, ShownOK
<1>6. launched' = NoLaunch
  BY <1>1, NotYetLaunched
<1>7. LaunchIsSeen'
  BY <1>6 DEF LaunchIsSeen
<1> QED BY <1>1, <1>4, <1>5, <1>6, <1>7 DEF SeenInv

\* The full-size cover in the middle is that of the highlighted title.
LEMMA FlowLaunches ==
    ASSUME SelectionTypes, CoverInv, SeenInv, phase = "input", view = "collection",
           selected \in 0 .. Total - 1, filtered => favs = marked /\ marked # {}
    PROVE  /\ shown = selected
           /\ covers.slots[CoverFocus].src \in {-1, selected}
<1> DEFINE total == Len(FlowTitles)
           focus == motion.focus
           s == covers.slots[CoverFocus]
<1>1. /\ FlowDrawn /\ InFocus /\ shown = FlowShown
  BY DEF CoverInv, CoversDrawn, SeenInv, ShownOK, FlowDrawn
<1>2. total \in Nat /\ focus \in Int
  BY FlowLength DEF CoverInv, CoversKept, Motions
<1>3. shown = TitleAt(FlowTitles, NavWrap(total, focus)) /\ shown = selected
  <2>1. CASE filtered
    <3> DEFINE n == Cardinality(marked)
               k == NavWrap(n, focus)
    <3>1. total = n /\ FlowTitles # <<>> /\ n \in Nat \ {0}
          /\ \A i \in 0 .. n - 1 : TitleAt(FlowTitles, i) = NavMarkedByRank(marked, i)
      BY <2>1, FavouritesShown
    <3>2. k \in 0 .. n - 1
      <4> HIDE DEF n
      <4> QED BY <3>1, <1>2 DEF NavWrap
    <3>3. TitleAt(FlowTitles, k) = NavMarkedByRank(marked, k)
      BY <3>1, <3>2
    <3>4. NavMarkedByRank(marked, k) = NavMarkedByRank(marked, focus)
      BY <1>2, <2>1, RankWrapped DEF SelectionTypes
    <3>5. selected = NavMarkedByRank(marked, focus)
      BY <1>1, <2>1 DEF InFocus
    <3>6. shown = TitleAt(FlowTitles, k)
      BY <1>1, <3>1 DEF FlowShown
    <3> QED BY <3>1, <3>3, <3>4, <3>5, <3>6
  <2>2. CASE ~filtered
    <3>1. total = Total /\ FlowTitles = Titles /\ FlowTitles # <<>>
      BY <2>2, TitlesLength DEF FlowTitles
    <3>2. focus = selected
      BY <1>1, <2>2, TitlesShown DEF InFocus
    <3>3. shown = TitleAt(FlowTitles, NavWrap(total, focus))
      BY <1>1, <3>1 DEF FlowShown
    <3> QED BY <3>1, <3>2, <3>3, TitlesShown
  <2> QED BY <2>1, <2>2
<1> HIDE DEF total, focus
<1>4. CoverFocus \in CoverSlots /\ CoverFocus \in Int
  BY SlotsAreFinite, CoverCacheAssumption
<1>5. ASSUME s.src # NoTitle
      PROVE  s.src = selected
  <2>1. covers \in CachesOf(Fitting(FlowTitles))
    BY <1>1, OwnCovers DEF FlowDrawn
  <2>2. s \in Fitting(FlowTitles)
    BY <1>4, <2>1 DEF CachesOf
  <2>3. s.src = TitleAt(FlowTitles, s.target) /\ s.target >= 0
    BY <1>5, <2>2 DEF Fitting, GoodSlots
  <2>4. s.target = FlowLayout[CoverFocus]
    BY <1>1, <1>4 DEF FlowDrawn, Placed
  <2>5. FlowLayout[CoverFocus] \in {-1, NavWrap(total, focus + CoverFocus - CoverFocus)}
    <3>1. FlowLayout = CollectionCacheLayout(total, focus, Offset(motion))
      BY DEF FlowLayout, total, focus
    <3> QED BY <1>2, <1>4, <3>1, LayoutType
  <2>6. focus + CoverFocus - CoverFocus = focus
    BY <1>2, <1>4
  <2>7. s.target = NavWrap(total, focus)
    BY <2>3, <2>4, <2>5, <2>6
  <2> QED BY <1>3, <2>3, <2>7
<1> QED BY <1>3, <1>5 DEF NoTitle

LEMMA RingLaunches ==
    ASSUME CoverInv, phase = "input", view = "orbit", selected \in 0 .. Total - 1
    PROVE  covers.slots[CoverFocus].src \in {-1, selected}
<1> DEFINE s == covers.slots[CoverFocus]
<1>1. covers \in CachesOf(Fitting(Titles)) /\ Ringed(covers, Total, selected)
  BY DEF CoverInv, CoversDrawn, RingDrawn
<1>2. CoverFocus \in CoverSlots /\ CoverFocus \in Int /\ selected \in Int
  BY SlotsAreFinite, CoverCacheAssumption
<1>3. selected + CoverFocus - CoverFocus = selected
  BY <1>2
<1>4. ASSUME s.src # NoTitle
      PROVE  s.src = selected
  <2>1. s.target = NavWrap(Total, selected)
    BY <1>1, <1>2, <1>3, <1>4 DEF Ringed
  <2>2. s \in Fitting(Titles)
    BY <1>1, <1>2 DEF CachesOf
  <2>3. s.src = TitleAt(Titles, s.target)
    BY <1>4, <2>2 DEF Fitting
  <2> QED BY <2>1, <2>3, TitlesShown
<1> QED BY <1>4 DEF NoTitle

\* Cross: the title under the focus is the one that was highlighted when the
\* frame was drawn, in each of the four views.
LEMMA LaunchSeen ==
    ASSUME SelectionTypes, CoverInv, SeenInv, Launch
    PROVE  SeenInv'
<1>1. /\ phase = "input" /\ phase' = "saving" /\ saving'.then = "launch"
      /\ filtered => marked # {}
      /\ view = "grid" => grid.shoulder = 0 /\ ~grid.cascade /\ ~grid.fast
      /\ launched' = [title |-> cur, cover |-> HandoffCover, shown |-> shown]
      /\ UNCHANGED <<shown, view, selected, cur, marked, favs, filtered, classic,
                     motion, grid>>
  BY DEF Launch, Acting, Anything, StartSave, uiVars
<1>2. cur = selected
  BY <1>1 DEF SeenInv, ShownOK
<1>3. ASSUME selected \in 0 .. Total - 1, ~grid.settling, filtered => favs = marked
      PROVE  /\ selected = shown
             /\ view # "grid" => HandoffCover \in {-1, selected}
  <2>1. CASE view = "classic"
    <3>1. selected = shown /\ (classic.ready => classic.cover \in {-1, selected})
      BY <1>1, <1>2, <2>1 DEF SeenInv, ShownOK, ClassicOK
    <3> QED BY <2>1, <3>1 DEF HandoffCover
  <2>2. CASE view = "grid"
    <3>1. selected = grid.sel /\ shown = Screen(grid).title
      BY <1>1, <2>2 DEF SeenInv, ShownOK
    <3>2. ~grid.fast /\ ~grid.settling
      BY <1>1, <1>3, <2>2
    <3>3. Screen(grid).title = grid.sel
      BY <3>2 DEF Screen
    <3> QED BY <2>2, <3>1, <3>3
  <2>3. CASE view = "orbit"
    <3>1. selected = shown /\ covers.slots[CoverFocus].src \in {-1, selected}
      BY <1>1, <1>3, <2>3, RingLaunches DEF SeenInv, ShownOK
    <3> QED BY <2>3, <3>1 DEF HandoffCover
  <2>4. CASE view = "collection"
    <3>1. selected = shown /\ covers.slots[CoverFocus].src \in {-1, selected}
      BY <1>1, <1>3, <2>4, FlowLaunches
    <3> QED BY <2>4, <3>1 DEF HandoffCover
  <2> QED BY <2>1, <2>2, <2>3, <2>4 DEF SeenInv, Views
<1>4. /\ launched'.title = cur /\ launched'.cover = HandoffCover
      /\ launched'.shown = shown
  BY <1>1
<1> HIDE DEF HandoffCover
<1>5. LaunchIsSeen'
  BY <1>1, <1>2, <1>3, <1>4 DEF LaunchIsSeen
<1>6. motion'.init => view' = "collection" /\ InFocus'
  BY <1>1 DEF SeenInv, InFocus
<1>7. ShownOK' /\ ClassicOK'
  BY <1>1 DEF SeenInv, ShownOK, ClassicOK
<1> QED BY <1>1, <1>5, <1>6, <1>7 DEF SeenInv

\* What is launched stays what was seen while the title is saved.
LEMMA SavingSeen ==
    ASSUME DiskTypes, SeenInv, SaveStep \/ SaveFault
    PROVE  SeenInv'
<1>1. /\ phase = "saving" /\ phase' = "saving"
      /\ UNCHANGED <<launched, view, selected, cur, marked, favs, filtered, classic,
                     motion, grid>>
  BY DEF SaveStep, SaveFault, uiVars
<1>2. saving'.then = saving.then
  BY SaveMoves DEF OneMove
<1>3. LaunchIsSeen'
  BY <1>1 DEF SeenInv, LaunchIsSeen
<1>4. motion'.init => view' = "collection" /\ InFocus'
  BY <1>1 DEF SeenInv, InFocus
<1>5. ShownOK' /\ ClassicOK'
  BY <1>1 DEF SeenInv, ShownOK, ClassicOK
<1> QED BY <1>1, <1>2, <1>3, <1>4, <1>5 DEF SeenInv

\* The start of a view: nothing is shown or launched yet.
LEMMA FreshSeen ==
    ASSUME view' \in Views, phase' # "input", motion' = NoMotion,
           launched' = NoLaunch, ClassicOK'
    PROVE  SeenInv'
<1>1. LaunchIsSeen'
  BY DEF LaunchIsSeen
<1>2. ~motion'.init
  BY DEF NoMotion
<1> QED BY <1>1, <1>2 DEF SeenInv, ShownOK

LEMMA OffSeen ==
    ASSUME Off
    PROVE  SeenInv'
<1>1. /\ view' = "classic" /\ phase' = "off" /\ motion' = NoMotion
      /\ launched' = NoLaunch /\ classic' = NoClassic
  BY DEF Off
<1>2. ClassicOK'
  BY <1>1 DEF ClassicOK, NoClassic
<1> QED BY <1>1, <1>2, FreshSeen DEF Views

LEMMA BootSeen ==
    ASSUME DiskTypes, Boot
    PROVE  SeenInv'
<1> DEFINE title == ReadTitle(files.title, [title |-> 0, time |-> 0]).title
           first == ReadView(files.view, "classic")
<1>1. /\ phase' = "draw" /\ view' = first /\ cur' = title /\ motion' = NoMotion
      /\ launched' = NoLaunch
      /\ classic' = IF first = "classic" THEN LoadedClassic(title) ELSE NoClassic
  BY DEF Boot
<1>2. view' \in Views
  BY <1>1, Reading
<1> HIDE DEF title, first
<1>3. ClassicOK'
  <2>1. CASE first = "classic"
    BY <1>1, <2>1, LoadedClassicOK DEF ClassicOK
  <2>2. CASE first # "classic"
    BY <1>1, <2>2 DEF ClassicOK, NoClassic
  <2> QED BY <2>1, <2>2
<1> QED BY <1>1, <1>2, <1>3, FreshSeen

LEMMA ChangeSeen ==
    ASSUME SeenInv, ChangeView
    PROVE  SeenInv'
<1> DEFINE next == NextView(view)
<1>1. /\ phase = "input" /\ phase' = "saving" /\ view' = next
      /\ motion' = NoMotion /\ UNCHANGED <<launched, cur>>
      /\ classic' = IF next = "classic" THEN LoadedClassic(cur) ELSE NoClassic
  BY DEF ChangeView, Acting, StartSave
<1>2. next \in Views
  BY DEF SeenInv, Views, NextView
<1> HIDE DEF next
<1>3. ClassicOK'
  <2>1. CASE next = "classic"
    BY <1>1, <2>1, LoadedClassicOK DEF ClassicOK
  <2>2. CASE next # "classic"
    BY <1>1, <2>2 DEF ClassicOK, NoClassic
  <2> QED BY <2>1, <2>2
<1>4. launched' = NoLaunch
  BY <1>1, NotYetLaunched
<1> QED BY <1>1, <1>2, <1>3, <1>4, FreshSeen

LEMMA TogglesSeen ==
    ASSUME SeenInv, ToggleFavourites \/ Favourite
    PROVE  SeenInv'
<1>1. /\ phase = "input" /\ phase' # "input"
      /\ UNCHANGED <<launched, view, cur, classic>>
      /\ (view = "classic" /\ motion' = motion) \/ motion' = NoMotion
  BY DEF ToggleFavourites, Favourite, Acting, StartSave
<1>2. ~motion'.init
  BY <1>1 DEF SeenInv, NoMotion
<1>3. ClassicOK'
  BY <1>1 DEF SeenInv, ClassicOK
<1> QED BY <1>1, <1>2, <1>3, PressSeen

LEMMA SavedSeen ==
    ASSUME CoverInv, SeenInv, SaveEnd
    PROVE  SeenInv'
<1>1. phase = "saving"
  BY DEF SaveEnd
<1>2. CASE saving.then = "launch"
  <2>1. Off
    BY <1>2 DEF SaveEnd
  <2> QED BY <2>1, OffSeen
<1>3. CASE saving.then # "launch"
  <2>1. phase' = "draw" /\ launched' = NoLaunch
    BY <1>3 DEF SaveEnd, SeenInv
  <2>2. LaunchIsSeen'
    BY <2>1 DEF LaunchIsSeen
  <2>3. CASE saving.then = "favourite"
    <3>1. FavouriteSaved /\ view = "classic"
      BY <1>1, <2>3 DEF SaveEnd, CoverInv, CoversKept
    <3>2. UNCHANGED <<view, motion>>
      BY <3>1 DEF FavouriteSaved
    <3>3. \/ UNCHANGED <<cur, classic>>
          \/ classic' = Asked(classic, selected')
      BY <3>1 DEF FavouriteSaved
    <3>4. ClassicOK'
      BY <3>1, <3>2, <3>3 DEF SeenInv, ClassicOK, Asked
    <3> QED BY <2>1, <2>2, <3>1, <3>2, <3>4 DEF SeenInv, ShownOK
  <2>4. CASE saving.then # "favourite"
    <3>1. UNCHANGED <<view, selected, cur, marked, favs, filtered, classic, motion>>
      BY <1>3, <2>4 DEF SaveEnd, uiVars
    <3>2. ClassicOK' /\ ShownOK' /\ (motion'.init => view' = "collection" /\ InFocus')
      BY <2>1, <3>1 DEF SeenInv, ClassicOK, ShownOK, InFocus
    <3> QED BY <2>1, <2>2, <3>1, <3>2 DEF SeenInv
  <2> QED BY <2>3, <2>4
<1> QED BY <1>2, <1>3

LEMMA SeenStep ==
    ASSUME TypesInv, CoverInv, SeenInv, [Next]_vars
    PROVE  SeenInv'
<1>0. SelectionTypes /\ DiskTypes /\ FavouriteSelected
  BY DEF TypesInv, SelectionInv, FilteredOK
<1>1. CASE Frame
  BY <1>0, <1>1, ClassicSeen, RingSeen, FlowSeen DEF Frame, Draw
<1>2. CASE \/ Idle \/ MoveInList \/ RandomScan \/ MoveGrid \/ PressShoulder
           \/ HoldShoulder \/ ReleaseShoulder
  BY <1>2, MovesSeen
<1>3. CASE MoveCollection \/ Launch
  BY <1>0, <1>3, StreamSeen, LaunchSeen
<1>4. CASE ToggleFavourites \/ Favourite \/ ChangeView
  BY <1>4, TogglesSeen, ChangeSeen
<1>5. CASE SaveStep \/ SaveFault \/ SaveEnd
  BY <1>0, <1>5, SavingSeen, SavedSeen
<1>6. CASE Boot \/ PowerCut \/ Quit
  BY <1>0, <1>6, BootSeen, OffSeen DEF PowerCut, Quit
<1>7. CASE UNCHANGED vars
  <2>1. UNCHANGED <<phase, shown, launched, view, selected, cur, marked, favs, filtered,
                    classic, motion, grid, saving>>
    BY <1>7 DEF vars, uiVars, diskVars
  <2>2. InFocus' = InFocus /\ ClassicOK' = ClassicOK /\ LaunchIsSeen' = LaunchIsSeen
    BY <2>1 DEF InFocus, ClassicOK, LaunchIsSeen
  <2>3. FlowShown' = FlowShown
    BY <2>1 DEF FlowShown, FlowTitles, FavouriteTitles, Titles
  <2>4. ShownOK' = ShownOK
    BY <2>1, <2>3 DEF ShownOK
  <2> QED BY <2>1, <2>2, <2>4 DEF SeenInv
<1>8. Next => \/ Frame \/ Idle \/ MoveInList \/ RandomScan \/ MoveGrid \/ PressShoulder
              \/ HoldShoulder \/ ReleaseShoulder \/ MoveCollection \/ Launch
              \/ ToggleFavourites \/ Favourite \/ ChangeView
              \/ SaveStep \/ SaveFault \/ SaveEnd \/ Boot \/ PowerCut \/ Quit
  BY Zenon DEF Next, Pad, Buttons, Drive
<1> QED BY <1>1, <1>2, <1>3, <1>4, <1>5, <1>6, <1>7, <1>8

LEMMA SeenInit ==
    ASSUME Init
    PROVE  SeenInv
<1>1. /\ phase = "off" /\ view = "classic" /\ motion = NoMotion
      /\ launched = NoLaunch /\ classic = NoClassic
  BY DEF Init
<1>2. ClassicOK /\ ~motion.init
  BY <1>1 DEF ClassicOK, NoClassic, NoMotion
<1> QED BY <1>1, <1>2, NothingSeen DEF SeenInv, ShownOK, Views

\* What Cross hands to neutrino is the title the user saw highlighted, with its
\* own cover: the selection, the frame, the stream, the cover cache and the
\* lists agree when the button comes, however they got there.
THEOREM LaunchedIsSeen == Spec => []LaunchIsSeen
<1>1. Init => TypesInv /\ CoverInv /\ SeenInv
  BY TypesInit, CoversInit, SeenInit
<1>2. (TypesInv /\ CoverInv /\ SeenInv) /\ [Next]_vars => (TypesInv /\ CoverInv /\ SeenInv)'
  BY TypesStep, CoversStep, SeenStep
<1>3. TypesInv /\ CoverInv /\ SeenInv => LaunchIsSeen
  BY DEF SeenInv
<1> QED BY <1>1, <1>2, <1>3, PTL DEF Spec

----------------------------------------------------------------------------
(* The pages of Grid.                                                      *)

PagesInv ==
    /\ GridRight(grid)
    /\ phase = "input" /\ view = "grid" => Opened(grid)

\* The steps of the other views.
LEMMA PagesAlone ==
    ASSUME PagesInv, UNCHANGED grid, phase' = "input" => view' # "grid"
    PROVE  PagesInv'
BY DEF PagesInv

LEMMA PagesAnew ==
    ASSUME NEW sel, grid' = GridReset(sel), phase' # "input"
    PROVE  PagesInv'
<1>1. GridRight(grid')
  BY ResetRight
<1> QED BY <1>1 DEF PagesInv

LEMMA PagesPressed ==
    ASSUME ~TapInCascade, PagesInv,
           MoveGrid \/ PressShoulder \/ HoldShoulder \/ ReleaseShoulder
    PROVE  PagesInv'
<1>0. GridRight(grid)
  BY DEF PagesInv
<1>1. SUFFICES ASSUME NEW g, GridTo(g), GridRight(g)
               PROVE  PagesInv'
  <2>1. CASE MoveGrid
    <3>1. ~grid.cascade /\ \E to : GridTo(GridMove(grid, to))
      BY <2>1 DEF MoveGrid
    <3> QED BY <1>0, <1>1, <3>1, MoveRight
  <2>2. CASE PressShoulder
    <3>1. \E dir : GridTo(ShoulderChange(grid, dir))
      BY <2>2 DEF PressShoulder
    <3> QED BY <1>0, <1>1, <3>1, ShoulderRight
  <2>3. CASE HoldShoulder
    <3>1. \/ GridTo(grid)
          \/ ~grid.fast /\ GridTo(FastStart(grid))
          \/ \E from, dir : GridTo(FastStep(grid, from, dir))
      BY <2>3 DEF HoldShoulder
    <3> QED BY <1>0, <1>1, <3>1, FastStartRight, FastStepRight
  <2>4. CASE ReleaseShoulder
    <3>1. \/ grid.fast /\ GridTo(FastEnd(grid))
          \/ /\ ~grid.cascade
             /\ GridTo([TapPage(grid, grid.shoulder) EXCEPT !.shoulder = 0])
      BY <2>4 DEF ReleaseShoulder
    <3> QED BY <1>0, <1>1, <3>1, FastEndRight, TapRight
  <2> QED BY <2>1, <2>2, <2>3, <2>4
<1>2. grid' = g /\ phase' = "draw"
  BY <1>1 DEF GridTo
<1> QED BY <1>1, <1>2 DEF PagesInv

LEMMA PagesDrawn ==
    ASSUME PagesInv, Frame
    PROVE  PagesInv'
<1>1. PICK due \in BOOLEAN : Draw(due)
  BY DEF Frame
<1>2. CASE DrawGrid(due)
  <2>1. grid' = GridFrame(grid, due)
    BY <1>2 DEF DrawGrid
  <2>2. GridRight(grid') /\ Opened(grid')
    BY <2>1, GridFrameRight DEF PagesInv
  <2> QED BY <2>2 DEF PagesInv
<1>3. CASE DrawClassic(due) \/ \E bad \in Short : DrawCollection(due, bad) \/ DrawOrbit(due, bad)
  <2>1. UNCHANGED <<grid, view>> /\ view # "grid"
    BY <1>3 DEF DrawClassic, DrawCollection, DrawOrbit, Drawing
  <2> QED BY <2>1, PagesAlone
<1> QED BY <1>1, <1>2, <1>3 DEF Draw

LEMMA PagesStep ==
    ASSUME ~TapInCascade, PagesInv, [Next]_vars
    PROVE  PagesInv'
<1>1. CASE Frame
  BY <1>1, PagesDrawn
<1>2. CASE MoveGrid \/ PressShoulder \/ HoldShoulder \/ ReleaseShoulder
  BY <1>2, PagesPressed
<1>3. CASE Idle \/ MoveInList \/ RandomScan \/ MoveCollection \/ ToggleFavourites
           \/ Favourite \/ Launch
  <2>1. UNCHANGED grid /\ phase' # "input"
    BY <1>3 DEF Idle, MoveInList, RandomScan, MoveCollection, ToggleFavourites,
       Favourite, Launch, StartSave, uiVars
  <2> QED BY <2>1, PagesAlone
<1>4. CASE SaveStep \/ SaveFault
  <2>1. UNCHANGED grid /\ phase' = "saving"
    BY <1>4 DEF SaveStep, SaveFault, uiVars
  <2> QED BY <2>1, PagesAlone
<1>5. CASE Boot \/ PowerCut \/ Quit \/ ChangeView
  <2>1. phase' # "input" /\ \E sel : grid' = GridReset(sel)
    BY <1>5 DEF Boot, PowerCut, Quit, Off, ChangeView, StartSave
  <2> QED BY <2>1, PagesAnew
<1>6. CASE SaveEnd
  <2>1. phase' # "input" /\ (UNCHANGED grid \/ grid' = GridReset(0))
    BY <1>6 DEF SaveEnd, Off, FavouriteSaved, uiVars
  <2> QED BY <2>1, PagesAlone, PagesAnew
<1>7. CASE UNCHANGED vars
  BY <1>7 DEF vars, uiVars, PagesInv
<1>8. Next => \/ Frame \/ MoveGrid \/ PressShoulder \/ HoldShoulder \/ ReleaseShoulder
              \/ Idle \/ MoveInList \/ RandomScan \/ MoveCollection \/ ToggleFavourites
              \/ Favourite \/ Launch \/ SaveStep \/ SaveFault
              \/ Boot \/ PowerCut \/ Quit \/ ChangeView \/ SaveEnd
  BY Zenon DEF Next, Pad, Buttons, Drive
<1> QED BY <1>1, <1>2, <1>3, <1>4, <1>5, <1>6, <1>7, <1>8

\* When the pad is read in Grid, every page on the screen shows its own covers
\* only and the highlighted title is on one of them, whichever buffers the
\* pages were loaded into and wherever a tap, a hold or a cascade has led: as
\* long as no shoulder is tapped while a page cascades in.
THEOREM ScreenIsItsOwn == ~TapInCascade => (Spec => []ScreenIsRight)
<1> SUFFICES ASSUME ~TapInCascade
             PROVE  Spec => []ScreenIsRight
  OBVIOUS
<1> DEFINE Inv == TypesInv /\ CoverInv /\ SeenInv /\ PagesInv
<1>1. Init => Inv
  <2>1. Init => PagesInv
    <3>1. Init => grid = GridReset(0) /\ phase = "off"
      BY DEF Init
    <3> QED BY <3>1, ResetRight DEF PagesInv
  <2> QED BY <2>1, TypesInit, CoversInit, SeenInit
<1>2. Inv /\ [Next]_vars => Inv'
  BY TypesStep, CoversStep, SeenStep, PagesStep
<1>3. Inv => ScreenIsRight
  <2> SUFFICES ASSUME Inv, phase = "input", view = "grid"
               PROVE  ScreenIsRight
    BY DEF ScreenIsRight
  <2>1. shown = Screen(grid).title
    BY DEF SeenInv, ShownOK
  <2>2. GridRight(grid) /\ Opened(grid)
    BY DEF PagesInv
  <2> QED BY <2>1, <2>2, ScreenRight DEF ScreenIsRight
<1> QED BY <1>1, <1>2, <1>3, PTL DEF Spec
====

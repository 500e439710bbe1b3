---- MODULE Navigation ----
(***************************************************************************)
(* The pure functions of nhddl's ui/navigation.c: where a button moves the *)
(* selection, which page buffer may be reused and which title belongs in   *)
(* which slot of the cover cache.                                          *)
(***************************************************************************)
EXTENDS Integers, FiniteSets, FiniteSetsExt

CONSTANTS
    GridColumns,   \* GRID_COLUMNS
    GridPageSize,  \* GRID_PAGE_SIZE
    CoverCount,    \* PSBBN_COVER_CACHE_COUNT
    CoverFocus,    \* PSBBN_COVER_CACHE_FOCUS
    Total,         \* titles->total: the titles are 0 .. Total - 1
    Art            \* the titles that have a square cover

ASSUME NavigationAssumption ==
    /\ GridColumns \in Nat \ {0} /\ GridPageSize \in Nat \ {0}
    /\ CoverCount \in Nat \ {0} /\ CoverFocus \in 0 .. CoverCount - 1
    /\ Total \in Nat \ {0} /\ Art \subseteq 0 .. Total - 1

Buffers == 0 .. 2        \* GRID_PAGE_BUFFERS
CoverSlots == 0 .. CoverCount - 1

NavWrap(total, i) == IF total <= 0 THEN -1 ELSE i % total

\* The shorter way round; forward when both are equal.
NavDirection(total, from, to) ==
    IF total <= 0 \/ from < 0 \/ from = to THEN 0
    ELSE IF NavWrap(total, to - from) <= NavWrap(total, from - to) THEN 1 ELSE -1

PageOf(i) == (i \div GridPageSize) * GridPageSize
PageCount(total) == (total + GridPageSize - 1) \div GridPageSize

\* Up and down a column, wrapping to the row at the other end that has one.
NavGridVertical(total, i, dir) ==
    LET to == i + dir * GridColumns
        column == i % GridColumns
        lowest == total - 1 - ((total - 1 - column) % GridColumns)
    IN  IF to \in 0 .. total - 1 THEN to
        ELSE IF dir < 0 THEN IF lowest >= 0 THEN lowest ELSE i
        ELSE IF column < total THEN column ELSE total - 1

InPage(total, to) == IF to < total THEN to ELSE total - 1

\* The same cell of the next page, or the last title of a short page.
NavGridPage(total, i, dir) ==
    InPage(total, NavWrap(PageCount(total), (i \div GridPageSize) + dir)
                    * GridPageSize + (i % GridPageSize))

NavPageBase(total, base, dir) ==
    NavWrap(PageCount(total), (base \div GridPageSize) + dir) * GridPageSize

NavFindBuffer(bases, base) ==
    LET hits == {b \in Buffers : bases[b] = base}
    IN  IF hits = {} THEN -1 ELSE Min(hits)

\* A buffer that is not on the screen: an empty one first.
NavChooseBuffer(bases, shown) ==
    LET free == Buffers \ shown
        empty == {b \in free : bases[b] < 0}
    IN  IF empty # {} THEN Min(empty)
        ELSE IF free # {} THEN Min(free) ELSE -1

\* Marked titles by rank: -1 when there is none.
NavMarkedRank(marked, i) ==
    IF i \in marked THEN Cardinality({j \in marked : j < i}) ELSE -1

NavMarkedByRank(marked, rank) ==
    IF marked = {} THEN -1
    ELSE CHOOSE i \in marked :
           NavMarkedRank(marked, i) = NavWrap(Cardinality(marked), rank)

NavMarkedStep(marked, i, dir) ==
    LET rank == NavMarkedRank(marked, i)
    IN  NavMarkedByRank(marked, IF rank >= 0 THEN rank + dir
                                ELSE IF dir < 0 THEN -1 ELSE 0)

\* A page on, held at the ends; only from the very end round to the other.
NavMarkedPage(marked, i, size, dir) ==
    LET n == Cardinality(marked)
        rank == NavMarkedRank(marked, i)
        to == IF rank < 0 THEN IF dir < 0 THEN n - 1 ELSE 0
              ELSE IF dir > 0
              THEN IF rank = n - 1 THEN 0 ELSE Min({rank + size, n - 1})
              ELSE IF rank = 0 THEN n - 1 ELSE Max({rank - size, 0})
    IN  IF n = 0 THEN -1 ELSE NavMarkedByRank(marked, to)

NavRandomTarget(total, i, jump) ==
    IF total <= 1 THEN i ELSE NavWrap(total, i + 1 + (jump % (total - 1)))

\* How far slot i stands from the middle of the screen, in thousandths.
Away(i, offset) ==
    LET p == (i - CoverFocus) * 1000 + offset IN IF p < 0 THEN -p ELSE p

\* Which title each slot is to hold: a title that occurs more than once
\* stays in the slot nearest the middle, and in the focus when two are.
CollectionCacheLayout(total, focus, offset) ==
    LET title(i) == NavWrap(total, focus + i - CoverFocus)
        before(i, j) ==
            \/ Away(i, offset) < Away(j, offset)
            \/ /\ Away(i, offset) = Away(j, offset)
               /\ (i = CoverFocus \/ (i < j /\ j # CoverFocus))
        owns(i) == \A j \in CoverSlots \ {i} :
                     title(j) = title(i) => before(i, j)
    IN  [i \in CoverSlots |-> IF owns(i) THEN title(i) ELSE -1]
====

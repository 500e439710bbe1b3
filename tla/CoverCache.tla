---- MODULE CoverCache ----
(***************************************************************************)
(* The cover cache that Collection and Orbit share (nhddl's                *)
(* ui/art_cache.c): the decoded covers kept in EE RAM, and which of them   *)
(* are in video memory at full size or as a thumbnail.                     *)
(*                                                                         *)
(* The cache is a record of its slots, the list it was filled from, and    *)
(* the largest number of full-size covers that ever were in video memory   *)
(* together.  An operation is a function from one cache to the next; `bad` *)
(* is the set of slots whose thumbnail cannot be allocated meanwhile.      *)
(***************************************************************************)
EXTENDS Navigation, Sequences

\* Neither end of the cache is one of the two slots loaded at full size.
ASSUME CoverCacheAssumption == CoverFocus \in 2 .. CoverCount - 2

NoTitle == -1

\* target and tried are collectionCoverTarget and -Attempted, src is the title
\* whose pixels are kept, mem what the texture points to.
EmptySlot == [target |-> -1, tried |-> FALSE, loaded |-> FALSE, full |-> FALSE,
              src |-> NoTitle, mem |-> "none", vram |-> FALSE]

NoCovers == [i \in CoverSlots |-> EmptySlot]

FullSize(slots) ==
    {i \in CoverSlots : slots[i].vram /\ slots[i].mem = "source"}

\* Every change of a slot goes through here, to see how many are resident.
With(c, slots) ==
    [c EXCEPT !.slots = slots, !.peak = Max({@, Cardinality(FullSize(slots))})]

ReleaseCovers(c) == [c EXCEPT !.slots = NoCovers, !.list = "none"]

ReleaseVRAM(c) ==
    [c EXCEPT !.slots = [i \in CoverSlots |-> [@[i] EXCEPT !.vram = FALSE]]]

\* setPSBBNCoverResidentSize.  A cover whose thumbnail cannot be allocated
\* keeps its pixels but is neither drawn nor in video memory.
Resized(s, selected, fails) ==
    IF ~s.loaded \/ s.src = NoTitle THEN s
    ELSE IF s.full = selected /\ (selected \/ s.mem # "source")
    THEN [s EXCEPT !.vram = TRUE]
    ELSE IF selected
    THEN [s EXCEPT !.mem = "source", !.vram = TRUE, !.full = TRUE]
    ELSE IF fails
    THEN [s EXCEPT !.mem = "source", !.vram = FALSE, !.full = TRUE,
                   !.loaded = FALSE]
    ELSE [s EXCEPT !.mem = "thumb", !.vram = TRUE, !.full = FALSE]

\* All slots of a set, as one change: demoting takes full-size covers away one
\* by one and promoting adds them, so the most are there at one end of it.
ResizeAll(c, set, selected, bad) ==
    With(c, [i \in CoverSlots |->
               IF i \in set THEN Resized(c.slots[i], selected, i \in bad)
               ELSE c.slots[i]])

DemoteAll(c, set, bad) == ResizeAll(c, set, FALSE, bad)
PromoteAll(c, set) == ResizeAll(c, set, TRUE, {})

\* decodePNGTextureRGBA and what follows it: nothing when there is no file.
Decoded(s, title) ==
    IF title \in Art
    THEN [s EXCEPT !.src = title, !.mem = "source", !.loaded = TRUE] ELSE s

----------------------------------------------------------------------------
\* `titles` is the sequence of the titles of the list, `name` the list.

TitleAt(titles, target) == titles[target + 1]

\* loadPSBBNCoverCacheEntry: loaded again is said of a cover whose thumbnail
\* could not be allocated.
LoadedEntry(titles, selected, i, bad) ==
    LET target == NavWrap(Len(titles), selected + i - CoverFocus)
        title == TitleAt(titles, target)
    IN  [Resized(Decoded(EmptySlot, title), i \in {CoverFocus - 1, CoverFocus},
                 i \in bad)
           EXCEPT !.loaded = title \in Art, !.target = target, !.tried = TRUE]

\* Each of these slots is empty or demoted: a set of them is one change too.
LoadAll(c, titles, selected, set, bad) ==
    With(c, [i \in CoverSlots |->
               IF i \in set THEN LoadedEntry(titles, selected, i, bad)
               ELSE c.slots[i]])

\* The cache slid by one title: the slot that falls out is loaded anew.
Slide(c, titles, selected, dir, bad) ==
    LET edge == IF dir > 0 THEN CoverCount - 1 ELSE 0
        slid == [i \in CoverSlots |-> IF i = edge THEN EmptySlot
                                      ELSE c.slots[i + dir]]
    IN  LoadAll(With(c, slid), titles, selected, {edge}, bad)

Missing(c, titles, selected) ==
    {i \in CoverSlots :
       \/ c.slots[i].target # NavWrap(Len(titles), selected + i - CoverFocus)
       \/ ~c.slots[i].tried}

\* refreshPSBBNCovers
RefreshCovers(c0, name, titles, selected, previous0, bad) ==
    LET other == c0.list # name
        c == IF other THEN [ReleaseCovers(c0) EXCEPT !.list = name] ELSE c0
        previous == IF other THEN -1 ELSE previous0
        dir == NavDirection(Len(titles), previous, selected)
        missing == Missing(c, titles, selected)
        adjacent == NavWrap(Len(titles), previous + dir) = selected
    IN  CASE previous = selected /\ missing = {} -> c
          [] previous = selected /\ missing # {} ->
               LoadAll(DemoteAll(c, CoverSlots, bad), titles, selected,
                       missing, bad)
          [] previous # selected /\ previous >= 0 /\ dir # 0 /\ adjacent ->
               Slide(c, titles, selected, dir, bad)
          [] OTHER -> LoadAll([ReleaseCovers(c) EXCEPT !.list = name], titles,
                              selected, CoverSlots, bad)

\* The two loaded covers nearest the middle: at most one other is nearer.
Nearest(c, offset) ==
    LET loaded == {i \in CoverSlots : c.slots[i].loaded}
        nearer(i, j) == \/ Away(i, offset) < Away(j, offset)
                        \/ Away(i, offset) = Away(j, offset) /\ i < j
    IN  {i \in loaded :
           \A j, k \in loaded : nearer(j, i) /\ nearer(k, i) => j = k}

\* A mutant: promote first.
PromoteFirst(c, others, nearest, bad) ==
    DemoteAll(PromoteAll(c, nearest), others, bad)

\* Demote first, so that promoting never brings a third full-size cover into
\* video memory.
DemoteFirst(c, others, nearest, bad) ==
    PromoteAll(DemoteAll(c, others, bad), nearest)

\* updatePSBBNCoverResidency
UpdateResidency(c, offset, bad) ==
    LET nearest == Nearest(c, offset)
    IN  DemoteFirst(c, CoverSlots \ nearest, nearest, bad)

\* A mutant: one of the fields is forgotten.
SwappedButSource(slots, i, j) ==
    [slots EXCEPT ![i] = [slots[j] EXCEPT !.src = slots[i].src],
                  ![j] = [slots[i] EXCEPT !.src = slots[j].src]]

\* swapCollectionCovers
Swapped(slots, i, j) == [slots EXCEPT ![i] = slots[j], ![j] = slots[i]]

\* refreshCollectionCovers moves the covers that stay wanted to their new
\* slots by swapping, one slot after the other; s is the slots and the set of
\* those that are in place.
MatchSlot(s, wanted, i) ==
    LET owners == {j \in CoverSlots \ s.matched : s.slots[j].target = wanted[i]}
    IN  IF wanted[i] < 0 \/ owners = {} THEN s
        ELSE [slots |-> Swapped(s.slots, i, Min(owners)),
              matched |-> s.matched \cup {i}]

Matched(c, wanted) ==
    LET after[n \in 0 .. CoverCount] ==
          IF n = 0 THEN [slots |-> c.slots, matched |-> {}]
          ELSE MatchSlot(after[n - 1], wanted, n - 1)
    IN  after[CoverCount].slots

\* A cover that has not been tried, nearest the focus and ahead first.
NextToLoad(slots, wanted, dir) ==
    LET open == {i \in CoverSlots : wanted[i] >= 0 /\ ~slots[i].tried}
        priority(i) ==
          LET r == i - CoverFocus
          IN  2 * (IF r < 0 THEN -r ELSE r) + (IF r * dir < 0 THEN 1 ELSE 0)
        best == {i \in open : \A j \in open : priority(i) <= priority(j)}
    IN  IF open = {} THEN -1 ELSE Min(best)

\* A mutant: a title without a cover is tried for ever.
TriedWhenLoaded(s, title) == Decoded([s EXCEPT !.tried = title \in Art], title)

Tried(s, title) == Decoded([s EXCEPT !.tried = TRUE], title)

OfList(c, name) == IF c.list = name THEN c ELSE [ReleaseCovers(c) EXCEPT !.list = name]

\* The covers that stay wanted, and empty slots for the others.
Kept(c, kept, wanted) ==
    With(c, [i \in CoverSlots |->
               IF kept[i].target = wanted[i] THEN kept[i]
               ELSE [EmptySlot EXCEPT !.target = wanted[i]]])

LoadSlot(c, titles, wanted, slot, bad) ==
    IF slot < 0 THEN c
    ELSE With(c, [c.slots EXCEPT ![slot] =
                    Resized(Tried(@, TitleAt(titles, wanted[slot])), FALSE,
                            slot \in bad)])

LoadNext(c, titles, wanted, dir, allowLoad, bad) ==
    IF allowLoad THEN LoadSlot(c, titles, wanted, NextToLoad(c.slots, wanted, dir), bad)
    ELSE c

Refit(c, titles, wanted, dir, allowLoad, bad) ==
    LoadNext(Kept(c, Matched(c, wanted), wanted), titles, wanted, dir, allowLoad, bad)

Resize(c, offset, fast, bad) ==
    IF fast THEN DemoteAll(c, CoverSlots, bad) ELSE UpdateResidency(c, offset, bad)

\* refreshCollectionCovers
RefreshCollection(c, name, titles, focus, offset, dir, allowLoad, fast, bad) ==
    Resize(Refit(OfList(c, name), titles,
                 CollectionCacheLayout(Len(titles), focus, offset), dir, allowLoad, bad),
           offset, fast, bad)

\* prepareCollectionCovers loads until nothing is left to load.
Prepared(c, name, titles, focus, bad) ==
    LET after[n \in 0 .. CoverCount] ==
          IF n = 0 THEN c
          ELSE RefreshCollection(after[n - 1], name, titles, focus, 0, 1, TRUE,
                                 FALSE, bad)
    IN  after[CoverCount]

\* A draw binds the covers that are loaded.
Drawn(c) ==
    With(c, [i \in CoverSlots |->
               [c.slots[i] EXCEPT !.vram = @ \/ c.slots[i].loaded]])
====

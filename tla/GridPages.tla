---- MODULE GridPages ----
(***************************************************************************)
(* The Grid view of nhddl (the UI_VIEW_GRID parts of uiLoop in ui/gui.c):  *)
(* three page buffers, filled one cover per frame, one on the screen, one  *)
(* cascading in, one kept from before; two buffers for the large cover of  *)
(* the selected title; and the shoulder buttons, a tap for one page or a   *)
(* hold to run through the pages as empty shells.                          *)
(*                                                                         *)
(* The state is one record, an operation a function from it to the next;   *)
(* sel is selectedTitleIdx, did is didLoadArtwork of the frame.            *)
(***************************************************************************)
EXTENDS Navigation

Slots == 0 .. GridPageSize - 1
NoPage == [s \in Slots |-> -1]

\* A page is complete when its last slot has been tried.
GridReset(sel) ==
    [sel |-> sel, did |-> FALSE,
     active |-> 0, incoming |-> -1, previous |-> -1,
     activeBase |-> -1, incomingBase |-> -1,
     bases |-> [b \in Buffers |-> -1], next |-> [b \in Buffers |-> 0],
     covers |-> [b \in Buffers |-> NoPage],
     big |-> 0, large |-> <<-1, -1>>,     \* gridSelectedActiveBuffer and content
     bigIdx |-> -1, requested |-> -1, attempted |-> -1,
     pend |-> -1, pendCover |-> -1,
     pageDir |-> 0, prefetchDir |-> 1, cascade |-> FALSE, cascadeDir |-> 0,
     shoulder |-> 0, fast |-> FALSE, settling |-> FALSE, fastDir |-> 0,
     fastSel |-> -1, fastFrom |-> -1, fastPage |-> -1]

Complete(g, b) == g.next[b] >= GridPageSize

\* A mutant: the covers of the page before stay in the buffer.
PrepareKeepsCovers(g, b, base) ==
    [g EXCEPT !.bases[b] = base, !.next[b] = 0]

Prepare(g, b, base) ==
    [g EXCEPT !.bases[b] = base, !.next[b] = 0, !.covers[b] = NoPage]

CoverOf(title) == IF title \in Art THEN title ELSE -1

RestOfPage(g, b) == [g EXCEPT !.next[b] = GridPageSize, !.did = FALSE]

\* loadGridPageStep: one cover, or the rest of a short page at once.
LoadStep(g, b) ==
    LET slot == g.next[b]
        title == g.bases[b] + slot
    IN  IF title < Total
        THEN [g EXCEPT !.next[b] = slot + 1, !.covers[b][slot] = CoverOf(title),
                       !.did = TRUE]
        ELSE RestOfPage(g, b)

\* The large cover goes into the buffer that is not shown ...
LoadLarge(g, title) == [g EXCEPT !.large[2 - g.big] = CoverOf(title)]

DropLarge(g) == [g EXCEPT !.large[2 - g.big] = -1]

\* ... and is shown by exchanging the two.
ShowLarge(g, title) ==
    DropLarge([g EXCEPT !.big = 1 - g.big, !.bigIdx = title])

\* The page `base`, in a buffer of its own.
Buffered(g, base) ==
    LET found == NavFindBuffer(g.bases, base)
        free == NavChooseBuffer(g.bases, {g.active, g.previous, g.incoming})
    IN  IF found >= 0 THEN [g |-> g, b |-> found]
        ELSE IF free >= 0 THEN [g |-> Prepare(g, free, base), b |-> free]
        ELSE [g |-> g, b |-> -1]

\* The incoming page, or the one fast-track stopped at, becomes the active.
Promote(g, b, base, dir) ==
    [g EXCEPT !.active = b, !.activeBase = base, !.previous = g.active,
              !.incoming = -1, !.incomingBase = -1, !.prefetchDir = dir,
              !.cascade = FALSE, !.cascadeDir = 0]

EndPending(g) == [g EXCEPT !.pend = -1, !.pendCover = -1, !.pageDir = 0]

FinishCascade(g) ==
    EndPending(Promote(g, g.incoming, g.incomingBase, g.cascadeDir))

----------------------------------------------------------------------------
\* One frame.  `due` says that GRID_CASCADE_DURATION_MS have passed.

OpenPage(g) ==
    IF g.activeBase >= 0 THEN g
    ELSE Prepare([g EXCEPT !.activeBase = PageOf(g.sel)], g.active,
                 PageOf(g.sel))

\* The pending title is shown: at once after a fast-track, else by a cascade.
ShowPending(g, b) ==
    LET h == [ShowLarge(g, g.pend) EXCEPT !.requested = g.pend,
                                          !.attempted = g.pend,
                                          !.sel = g.pend]
        base == g.bases[b]
        dir == IF g.pageDir # 0 THEN g.pageDir
               ELSE IF base > g.activeBase THEN 1 ELSE -1
    IN  IF g.settling
        THEN [EndPending(Promote(h, b, base, IF g.fastDir # 0 THEN g.fastDir
                                             ELSE g.pageDir))
                EXCEPT !.settling = FALSE]
        ELSE [h EXCEPT !.incoming = b, !.incomingBase = base,
                       !.cascade = TRUE, !.cascadeDir = dir]

\* The page the pending title is on, as [g, b]: b is its buffer, or -1.
PendingPage(g) ==
    IF ~g.cascade /\ g.pend >= 0 THEN Buffered(g, PageOf(g.pend))
    ELSE [g |-> g, b |-> -1]

\* One cover of it, or of the active page, is loaded.
LoadPage(p) ==
    IF p.b >= 0 /\ ~Complete(p.g, p.b) THEN [p EXCEPT !.g = LoadStep(@, p.b)]
    ELSE IF Complete(p.g, p.g.active) THEN p
    ELSE [p EXCEPT !.g = LoadStep(@, p.g.active)]

Ready(p) == p.b >= 0 /\ Complete(p.g, p.b)

\* Then the large cover of the title ...
LoadCover(p) ==
    IF Ready(p) /\ ~p.g.did /\ p.g.pendCover # p.g.pend
    THEN [p EXCEPT !.g = [LoadLarge(@, @.pend) EXCEPT !.pendCover = p.g.pend,
                                                      !.did = TRUE]]
    ELSE p

\* ... and then it is shown.
ShowWhenReady(p) ==
    IF Ready(p) /\ p.g.pendCover = p.g.pend THEN ShowPending(p.g, p.b) ELSE p.g

LoadPending(g) == ShowWhenReady(LoadCover(LoadPage(PendingPage(g))))

\* The large cover of a title selected on the page itself.
LoadSelected(g0) ==
    LET g == IF g0.requested = g0.sel THEN g0
             ELSE [g0 EXCEPT !.requested = g0.sel, !.attempted = -1]
        tried == [LoadLarge(g, g.requested) EXCEPT !.attempted = g.requested]
    IN  IF g.did \/ g.requested \in {g.bigIdx, g.attempted} THEN g
        ELSE IF g.requested \in Art THEN ShowLarge(tried, g.requested)
        ELSE [tried EXCEPT !.large[tried.big + 1] = -1, !.bigIdx = g.requested]

\* The pages before and after, one slot of one of them per frame.
Prefetch(g) ==
    LET first == Buffered(g, NavPageBase(Total, g.activeBase, g.prefetchDir))
        second == Buffered(first.g,
                           NavPageBase(Total, g.activeBase, -g.prefetchDir))
        open(p) == p.b >= 0 /\ ~Complete(p.g, p.b)
    IN  IF \/ g.did \/ g.cascade \/ g.pend >= 0
           \/ ~Complete(g, g.active) \/ g.bigIdx # g.requested
        THEN g
        ELSE IF open(first) THEN LoadStep(first.g, first.b)
        ELSE IF open(second) THEN LoadStep(second.g, second.b) ELSE second.g

CascadeEnd(g, cascading, due) ==
    IF g.cascade /\ cascading /\ due THEN FinishCascade(g) ELSE g

Artwork(g, due) ==
    [Prefetch(LoadSelected(CascadeEnd(LoadPending(g), g.cascade, due)))
       EXCEPT !.did = FALSE]

\* No artwork is touched while a shoulder is held.
Worked(g, due) == IF g.fast \/ g.shoulder # 0 THEN g ELSE Artwork(g, due)

GridFrame(g, due) == Worked(OpenPage(g), due)

\* What the screen shows: pages as pairs of base and buffer (or -1, an empty
\* shell), and the title that is highlighted and named.
Screen(g) ==
    LET full(base) ==
          LET b == NavFindBuffer(g.bases, base)
          IN  IF b >= 0 /\ Complete(g, b) THEN b ELSE -1
    IN  CASE g.fast ->
               [pages |-> {<<g.fastFrom, full(g.fastFrom)>>,
                           <<g.fastPage, full(g.fastPage)>>},
                title |-> g.fastSel]
          [] ~g.fast /\ g.settling /\ ~g.cascade ->
               [pages |-> {<<g.fastPage, NavFindBuffer(g.bases, g.fastPage)>>},
                title |-> g.fastSel]
          [] OTHER ->
               [pages |-> {<<g.activeBase, g.active>>,
                           <<g.incomingBase, g.incoming>>},
                title |-> g.sel]

----------------------------------------------------------------------------
\* The buttons.

\* Where the next move starts: from the page that is being loaded.
From(g) == IF g.pend >= 0 THEN g.pend ELSE g.sel

\* A large cover loaded for a title that is not the pending one is dropped.
DropStale(g) ==
    IF g.pendCover >= 0 /\ g.pendCover # g.pend
    THEN [DropLarge(g) EXCEPT !.pendCover = -1] ELSE g

\* A title of the page on the screen is selected at once, another when its
\* page has been loaded.
TapPage(g, dir) ==
    LET to == NavGridPage(Total, From(g), dir)
        h == IF PageOf(to) = g.activeBase
             THEN [g EXCEPT !.pend = -1, !.sel = to]
             ELSE [g EXCEPT !.pend = to]
    IN  [DropStale(h) EXCEPT !.pageDir = dir]

GridMove(g, to) ==
    LET h == IF PageOf(to) = g.activeBase
             THEN [(IF g.pendCover >= 0 THEN DropLarge(g) ELSE g)
                     EXCEPT !.pend = -1, !.pendCover = -1, !.sel = to]
             ELSE DropStale([g EXCEPT !.pend = to])
    IN  [h EXCEPT !.pageDir = NavDirection(Total, From(g), to)]

FastStep(g, from, dir) ==
    LET to == NavGridPage(Total, from, dir)
    IN  [g EXCEPT !.fastDir = dir, !.fastFrom = PageOf(from),
                  !.fastSel = to, !.fastPage = PageOf(to)]

\* The shoulder has been held for GRID_FAST_TRACK_HOLD_MS.
FastStart(g) ==
    LET landed == g.cascade /\ g.incoming >= 0
        h == IF landed
             THEN Promote(g, g.incoming, g.incomingBase, g.cascadeDir)
             ELSE IF g.pendCover >= 0 THEN DropLarge(g) ELSE g
        from == IF landed THEN g.sel ELSE From(g)
    IN  FastStep([h EXCEPT !.pend = -1, !.pendCover = -1, !.fast = TRUE,
                           !.settling = FALSE], from, g.shoulder)

\* The shoulders are released after fast-tracking.
FastEnd(g) ==
    LET h == [g EXCEPT !.fast = FALSE, !.shoulder = 0, !.pageDir = g.fastDir,
                       !.pendCover = -1]
    IN  IF PageOf(g.fastSel) = g.activeBase
        THEN [h EXCEPT !.pend = -1, !.sel = g.fastSel, !.settling = FALSE]
        ELSE [h EXCEPT !.pend = g.fastSel, !.settling = TRUE]

\* The other shoulder, or the first.
ShoulderChange(g, dir) ==
    LET h == [g EXCEPT !.shoulder = dir]
    IN  IF g.fast THEN FastStep(h, g.fastSel, dir) ELSE h
====

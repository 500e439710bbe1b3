---- MODULE Library ----
(***************************************************************************)
(* The library of nhddl: uiLoop in ui/gui.c with everything it drives.     *)
(* One thread draws a frame (phase "draw"), reads the pad (phase "input")  *)
(* and, for some buttons, saves a record to the drive (phase "saving"),    *)
(* where the power may be cut.  The four views share the selected title    *)
(* and, Collection and Orbit, the cover cache.                             *)
(***************************************************************************)
EXTENDS CoverCache, GridPages, SavedState

CONSTANTS
    ListPage,     \* maxTitlesPerPage
    ClassicArt,   \* the titles that have a cover for Classic
    Histories,    \* what is on the drive at first, and bounds on what follows
    TapInCascade  \* whether a shoulder is tapped while a page cascades in

\* What the three records are about: a view, a title and the time of its
\* launch, a set of titles.
Views == {"classic", "collection", "grid", "orbit"}
TitleTimes == [title : Int, time : Int]
TitleSets == {set \in SUBSET Int : IsFiniteSet(set)}

Drives == [view : PairOf(Views), title : PairOf(TitleTimes), fav : PairOf(TitleSets)]
Limits == [presses : Nat, boots : Nat, faults : Nat, pressure : Nat]

ASSUME LibraryAssumption ==
    /\ ListPage \in Nat \ {0} /\ ClassicArt \subseteq 0 .. Total - 1
    /\ Histories \subseteq [files : Drives, left : Limits]
    /\ TapInCascade \in BOOLEAN

VARIABLES
    phase,     \* "off", "draw", "input" or "saving"
    view,      \* UILibraryView
    selected,  \* selectedTitleIdx
    cur,       \* curTarget->idx
    shown,     \* the title the last frame highlighted
    marked,    \* favoriteFlags
    favs,      \* favoriteTitles
    filtered,  \* favoritesOnly of Classic, collectionFavoritesOnly of Collection
    classic,   \* the cover and when it is due
    motion,    \* collectionMotion
    orbit,     \* the random scan and the glide of Orbit
    base,      \* psbbnCoverBaseIdx
    covers,    \* the cover cache
    grid,      \* the Grid view
    files,     \* the drive
    saving,    \* the save in progress and what follows it
    known,     \* the values each record may hold after a power cut
    launched,  \* what was handed to neutrino
    left       \* what may still happen: presses, boots, faults, pressure

uiVars == <<view, selected, cur, marked, favs, filtered, classic, motion, orbit,
            base, covers, grid>>
diskVars == <<files, saving, known>>
vars == <<phase, shown, launched, uiVars, diskVars, left>>

\* lunaNavNextView
NextView(v) == CASE v = "classic" -> "collection" [] v = "collection" -> "grid"
                 [] v = "grid" -> "orbit" [] v = "orbit" -> "classic"

Titles == [i \in 1 .. Total |-> i - 1]
FavouriteTitles(set) ==
    [i \in 1 .. Cardinality(set) |-> NavMarkedByRank(set, i - 1)]

\* The list Collection shows.
FlowName == IF filtered THEN "favourites" ELSE "all"
FlowTitles == IF filtered THEN FavouriteTitles(favs) ELSE Titles

NoSave == [on |-> FALSE, save |-> Saving("view", "classic"), then |-> "draw"]
NoLaunch == [title |-> -1, cover |-> -1, shown |-> -1]
NoMotion == [init |-> FALSE, mode |-> "idle", focus |-> 0, at |-> 0,
             dir |-> 0, scan |-> FALSE, travel |-> 0]
NoOrbit == [active |-> FALSE, target |-> -1, dir |-> 1, glideTo |-> -1,
            glide |-> 0]

\* requested is classicArtRequestedIdx, held classicNavHeld, cover the title
\* whose pixels coverTexture holds, ready the negated isCoverUninitialized.
NoClassic == [ready |-> FALSE, cover |-> -1, requested |-> -1, held |-> FALSE]

ClassicCover(title) == IF title \in ClassicArt THEN title ELSE -1
LoadedClassic(title) == [NoClassic EXCEPT !.ready = title \in ClassicArt,
                                          !.cover = ClassicCover(title)]

NoCache == [slots |-> NoCovers, list |-> "none", peak |-> 0]

Spend(what) == left[what] > 0 /\ left' = [left EXCEPT ![what] = @ - 1]

\* At most one power cut or I/O error from the time each record was saved
\* whole, and a clock that does not run backwards.
OneFault ==
    \A h \in Histories :
      /\ h.left.faults <= 1
      /\ h.left.faults = 1 => \A which \in {"view", "title"} :
                               ~IsWhole(h.files[which].temp)
      /\ \A file \in {h.files.title.final, h.files.title.temp} :
           IsWhole(file) => file.text[1].time <= -h.left.boots

----------------------------------------------------------------------------
\* Start and stop.

Init ==
    /\ phase = "off" /\ view = "classic" /\ selected = 0 /\ cur = 0 /\ shown = 0
    /\ marked = {} /\ favs = {} /\ filtered = FALSE /\ classic = NoClassic
    /\ motion = NoMotion /\ orbit = NoOrbit /\ base = -1 /\ covers = NoCache
    /\ grid = GridReset(0)
    /\ \E h \in Histories : files = h.files /\ left = h.left
    /\ saving = NoSave /\ launched = NoLaunch
    /\ known = [view |-> {ReadView(files.view, "classic")},
                title |-> {ReadTitle(files.title, [title |-> 0, time |-> 0])},
                fav |-> {ReadFavourites(files.fav)}]

\* uiLoop restores the title, the view and the favourites.
Boot ==
    LET title == ReadTitle(files.title, [title |-> 0, time |-> 0]).title
    IN  /\ phase = "off" /\ Spend("boots") /\ phase' = "draw"
        /\ view' = ReadView(files.view, "classic")
        /\ selected' = title /\ cur' = title /\ shown' = title
        /\ marked' = ReadFavourites(files.fav)
        /\ favs' = ReadFavourites(files.fav) /\ filtered' = FALSE
        /\ classic' = IF ReadView(files.view, "classic") = "classic"
                      THEN LoadedClassic(title) ELSE NoClassic
        /\ motion' = NoMotion /\ orbit' = NoOrbit /\ base' = -1
        /\ covers' = NoCache
        /\ grid' = GridReset(IF ReadView(files.view, "classic") = "grid"
                             THEN title ELSE 0)
        /\ launched' = NoLaunch
        /\ UNCHANGED diskVars

\* What is in memory is lost.
Off ==
    /\ phase' = "off" /\ view' = "classic" /\ selected' = 0 /\ cur' = 0
    /\ shown' = 0 /\ marked' = {} /\ favs' = {} /\ filtered' = FALSE
    /\ classic' = NoClassic /\ motion' = NoMotion /\ orbit' = NoOrbit
    /\ base' = -1 /\ covers' = NoCache /\ grid' = GridReset(0)
    /\ saving' = NoSave /\ launched' = NoLaunch

\* The power is cut in the middle of a save; at another time it is as Quit.
PowerCut ==
    /\ phase = "saving" /\ Spend("faults") /\ Off
    /\ UNCHANGED <<files, known>>

----------------------------------------------------------------------------
\* Frames.  Slots whose thumbnail cannot be allocated in this one:

Short == IF left.pressure > 0 THEN {{}, CoverSlots} ELSE {{}}
Pressed(bad) == IF bad = {} THEN UNCHANGED left ELSE Spend("pressure")

Drawing(v) == phase = "draw" /\ view = v /\ phase' = "input"

\* A mutant: the cover of the title before stays.
AskedOnly(c, title) == [c EXCEPT !.requested = title]
Asked(c, title) == [c EXCEPT !.ready = FALSE, !.requested = title]

\* The cover of another title is asked for when the selection moves, and
\* loaded once the pad has been at rest for CLASSIC_ART_SETTLE_MS.
DrawClassic(due) ==
    LET moved == cur # selected
        c == IF moved THEN Asked(classic, selected) ELSE classic
    IN  /\ Drawing("classic")
        /\ cur' = selected /\ shown' = selected
        /\ classic' = IF c.requested = selected /\ ~c.held /\ due /\ ~moved
                      THEN [LoadedClassic(selected) EXCEPT !.held = c.held]
                      ELSE c
        /\ UNCHANGED <<launched, view, selected, marked, favs, filtered, motion,
                       orbit, base, covers, grid, diskVars, left>>

\* lunaCollectionOffset
Offset(m) == -333 * m.at

Rest(focus) == [NoMotion EXCEPT !.init = TRUE, !.focus = focus]

DrawCollection(due, bad) ==
    LET rank == IF filtered THEN NavMarkedRank(marked, selected) ELSE selected
        m == IF motion.init THEN motion ELSE Rest(IF rank < 0 THEN 0 ELSE rank)
        c == IF motion.init THEN covers
             ELSE Prepared(covers, FlowName, FlowTitles, m.focus, bad)
        fast == m.mode = "scan"
        allowLoad == /\ ~fast /\ ~(m.scan /\ m.dir # 0)
                     /\ m.mode = "idle" \/ due
    IN  /\ Drawing("collection") /\ Pressed(bad)
        /\ motion' = m /\ base' = m.focus /\ cur' = selected
        /\ covers' = Drawn(RefreshCollection(c, FlowName, FlowTitles, m.focus,
                             Offset(m), m.travel, allowLoad, fast, bad))
        /\ shown' = IF FlowTitles = <<>> THEN -1
                    ELSE TitleAt(FlowTitles, NavWrap(Len(FlowTitles), m.focus))
        /\ UNCHANGED <<launched, view, selected, marked, favs, filtered, classic,
                       orbit, grid, diskVars>>

\* A step of the random scan, and the glide of the ring towards the title.
OrbitMoved(due) ==
    LET to == NavWrap(Total, selected + orbit.dir)
    IN  IF orbit.active /\ due
        THEN [sel |-> to, orbit |-> IF to = orbit.target
                                    THEN [orbit EXCEPT !.active = FALSE,
                                                       !.target = -1]
                                    ELSE orbit]
        ELSE [sel |-> selected, orbit |-> orbit]

Glides(o, sel, due) ==
    IF o.glideTo < 0 THEN [o EXCEPT !.glideTo = sel, !.glide = 0]
    ELSE IF o.glideTo # sel
    THEN [o EXCEPT !.glideTo = sel,
                   !.glide = @ + 1000 * NavDirection(Total, o.glideTo, sel)]
    ELSE [o EXCEPT !.glide = IF due THEN 0 ELSE Max({-400, Min({@, 400})})]

DrawOrbit(due, bad) ==
    LET moved == OrbitMoved(due)
        o == Glides(moved.orbit, moved.sel, due)
        c == RefreshCovers(covers, "all", Titles, moved.sel, base, bad)
    IN  /\ Drawing("orbit") /\ Pressed(bad)
        /\ selected' = moved.sel /\ cur' = moved.sel /\ shown' = moved.sel
        /\ base' = moved.sel /\ orbit' = o
        /\ covers' = Drawn(UpdateResidency(c, o.glide, bad))
        /\ UNCHANGED <<launched, view, marked, favs, filtered, classic, motion,
                       grid, diskVars>>

DrawGrid(due) ==
    /\ Drawing("grid")
    /\ grid' = GridFrame(grid, due)
    /\ selected' = grid'.sel /\ cur' = grid'.sel /\ shown' = Screen(grid').title
    /\ UNCHANGED <<launched, view, marked, favs, filtered, classic, motion,
                   orbit, base, covers, diskVars, left>>

Draw(due) ==
    \/ DrawClassic(due)
    \/ DrawGrid(due)
    \/ \E bad \in Short : DrawCollection(due, bad) \/ DrawOrbit(due, bad)

----------------------------------------------------------------------------
\* The pad.  Input(v) reads it in view v; a press is counted.

Input(v) == phase = "input" /\ view = v
Press == Spend("presses")

\* A step or a page through the list, in the favourites only through them.
Step(dir) ==
    LET to == NavMarkedStep(marked, selected, dir)
    IN  CASE ~filtered -> NavWrap(Total, selected + dir)
          [] filtered /\ to >= 0 -> to
          [] OTHER -> selected

PageStep(dir) ==
    LET to == NavMarkedPage(marked, selected, ListPage, dir)
        end == IF dir > 0 THEN Total - 1 ELSE 0
    IN  CASE filtered -> IF to >= 0 THEN to ELSE selected
          [] ~filtered /\ selected = end -> Total - 1 - end
          [] OTHER -> Max({0, Min({Total - 1, selected + dir * ListPage})})

\* Only Classic looks at whether a direction is held.
Held(is) == [classic EXCEPT !.held = is /\ view = "classic"]

\* No button, or one that does nothing here.
Idle ==
    /\ phase = "input" /\ phase' = "draw"
    /\ view # "collection" /\ (view = "grid" => grid.shoulder = 0)
    /\ classic' = Held(FALSE)
    /\ UNCHANGED <<shown, launched, view, selected, cur, marked, favs, filtered,
                   motion, orbit, base, covers, grid, diskVars, left>>

MoveInList ==
    /\ Input("classic") \/ Input("orbit")
    /\ phase' = "draw" /\ Press
    /\ \E dir \in {-1, 1} :
         \/ selected' = Step(dir) /\ classic' = Held(TRUE)
         \/ selected' = PageStep(dir) /\ classic' = Held(FALSE)
    /\ orbit' = [orbit EXCEPT !.active = FALSE]
    /\ UNCHANGED <<shown, launched, view, cur, marked, favs, filtered, motion,
                   base, covers, grid, diskVars>>

RandomScan ==
    /\ Input("orbit") /\ phase' = "draw" /\ Press
    /\ IF Total > 1
       THEN \E jump \in 0 .. Total - 2 :
              LET to == NavRandomTarget(Total, selected, jump)
              IN  orbit' = [orbit EXCEPT !.active = TRUE, !.target = to,
                              !.dir = NavDirection(Total, selected, to)]
       ELSE UNCHANGED orbit
    /\ UNCHANGED <<shown, launched, view, selected, cur, marked, favs, filtered,
                   classic, motion, base, covers, grid, diskVars>>

\* lunaCollectionUpdate: what a change of the held buttons does at once ...
Steered(m, dir, scan) ==
    LET changed == dir # m.dir \/ scan # m.scan
        flowing == m.mode \in {"browse", "scan"}
    IN  [m EXCEPT !.dir = dir, !.scan = scan,
           !.travel = IF changed /\ dir # 0 THEN dir ELSE @,
           !.mode = CASE ~changed -> @
                      [] changed /\ dir = 0 /\ flowing -> "settle"
                      [] changed /\ dir # 0 /\ scan /\ @ = "browse" -> "settle"
                      [] changed /\ dir # 0 /\ ~scan ->
                           IF flowing THEN "browse" ELSE "step"
                      [] OTHER -> @]

\* ... and where the stream is a frame later, in thirds of a title, as the
\* speed allows no more: a button held long enough browses or scans, a glide
\* ends on a title.
Moved(m, total, by) ==
    LET to == m.at + by
    IN  IF to \in -1 .. 1 THEN [m EXCEPT !.at = to]
        ELSE [m EXCEPT !.at = -by, !.focus = NavWrap(total, @ + by)]

Flowed(m, total) ==
    LET held == IF m.dir = 0 THEN m.mode ELSE IF m.scan THEN "scan" ELSE "browse"
        on == {[Moved(m, total, by) EXCEPT !.mode = mode] :
                 by \in {-1, 0, 1}, mode \in {m.mode, held} \ {"idle"}}
        resting == IF m.mode = "idle" THEN {m} ELSE {}
        ended == {[n EXCEPT !.mode = "idle"] :
                    n \in {n \in on : n.at = 0 /\ n.mode \in {"step", "settle"}}}
    IN  IF total <= 1 THEN {Rest(IF total = 0 THEN -1 ELSE 0)}
        ELSE on \cup resting \cup ended

\* The title in the focus is the selected one.
Focused(m) ==
    IF FlowTitles = <<>> THEN selected
    ELSE IF filtered THEN NavMarkedByRank(marked, m.focus) ELSE m.focus

MoveCollection ==
    /\ Input("collection") /\ phase' = "draw"
    /\ \E dir \in {-1, 0, 1}, scan \in BOOLEAN, both \in BOOLEAN :
         LET same == dir = motion.dir /\ scan = motion.scan /\ ~both
             braked == IF both /\ motion.mode \notin {"settle", "idle"}
                       THEN [motion EXCEPT !.mode = "settle"] ELSE motion
         IN  /\ both => dir = 0
             /\ IF same THEN UNCHANGED left ELSE Press
             /\ motion' \in Flowed(Steered(braked, dir, scan), Len(FlowTitles))
    /\ selected' = Focused(motion') /\ cur' = selected'
    /\ UNCHANGED <<shown, launched, view, marked, favs, filtered, classic, orbit,
                   base, covers, grid, diskVars>>

GridTo(g) ==
    /\ phase' = "draw" /\ grid' = g /\ selected' = g.sel
    /\ UNCHANGED <<shown, launched, view, cur, marked, favs, filtered, classic,
                   motion, orbit, base, covers, diskVars>>

\* The d-pad is not read while a page cascades in or the pages run by.
MoveGrid ==
    /\ Input("grid") /\ Press
    /\ grid.shoulder = 0 /\ ~grid.cascade /\ ~grid.fast
    /\ \E dir \in {-1, 1} :
         \/ GridTo(GridMove(grid, NavWrap(Total, From(grid) + dir)))
         \/ GridTo(GridMove(grid, NavGridVertical(Total, From(grid), dir)))

PressShoulder ==
    /\ Input("grid") /\ Press
    /\ \E dir \in {-1, 1} \ {grid.shoulder} : GridTo(ShoulderChange(grid, dir))

HoldShoulder ==
    /\ Input("grid") /\ grid.shoulder # 0
    /\ \/ GridTo(grid) /\ UNCHANGED left
       \/ ~grid.fast /\ GridTo(FastStart(grid)) /\ UNCHANGED left
       \/ grid.fast /\ Press
          /\ GridTo(FastStep(grid, grid.fastSel, grid.shoulder))

ReleaseShoulder ==
    /\ Input("grid") /\ grid.shoulder # 0 /\ UNCHANGED left
    /\ IF grid.fast THEN GridTo(FastEnd(grid))
       ELSE /\ grid.cascade => TapInCascade
            /\ GridTo([TapPage(grid, grid.shoulder) EXCEPT !.shoulder = 0])

\* A button that acts on the selected title: Collection stops first, Grid does
\* not read it while a page moves.
Acting ==
    /\ phase = "input" /\ Press
    /\ view = "grid" => grid.shoulder = 0 /\ ~grid.cascade /\ ~grid.fast

\* Select: the favourites, or all titles again.
ToggleFavourites ==
    LET outside == ~filtered /\ selected \notin marked /\ marked # {}
    IN  /\ Acting /\ view \in {"classic", "collection"} /\ phase' = "draw"
        /\ filtered' = ~filtered
        /\ selected' = IF outside THEN NavMarkedByRank(marked, 0) ELSE selected
        /\ IF view = "classic" THEN UNCHANGED <<motion, covers, base, orbit>>
           ELSE /\ motion' = NoMotion /\ covers' = ReleaseCovers(covers)
                /\ base' = -1 /\ orbit' = [orbit EXCEPT !.glideTo = -1,
                                                       !.glide = 0]
        /\ UNCHANGED <<shown, launched, view, cur, marked, favs, classic, grid,
                       diskVars>>

\* The time of a title is how many starts came before: minus those to come.
StartSave(which, value, then) ==
    /\ phase' = "saving"
    /\ saving' = [on |-> TRUE, save |-> Saving(which, value), then |-> then]
    /\ known' = [known EXCEPT ![which] = @ \cup {value}]
    /\ UNCHANGED files

Anything == ~filtered \/ marked # {}

Flipped == IF selected \in marked THEN marked \ {selected}
           ELSE marked \cup {selected}

\* Square in Classic: the selected title becomes a favourite, or no longer is.
Favourite ==
    /\ Acting /\ view = "classic" /\ Anything
    /\ marked' = Flipped /\ StartSave("fav", marked', "favourite")
    /\ UNCHANGED <<shown, launched, view, selected, cur, favs, filtered, classic,
                   motion, orbit, base, covers, grid>>

\* The cover handed over to the launch screen.
HandoffCover ==
    CASE view = "classic" /\ classic.ready -> classic.cover
      [] view = "grid" -> grid.large[grid.big + 1]
      [] view \in {"collection", "orbit"} /\ covers.slots[CoverFocus].loaded ->
           covers.slots[CoverFocus].src
      [] OTHER -> -1

\* Cross: neutrino is started once the title is saved.
Launch ==
    /\ Acting /\ Anything
    /\ launched' = [title |-> cur, cover |-> HandoffCover, shown |-> shown]
    /\ StartSave("title", [title |-> cur, time |-> -left.boots], "launch")
    /\ UNCHANGED <<shown, uiVars>>

\* Circle: the next view.
ChangeView ==
    LET next == NextView(view)
        keep == ~(view = "collection" /\ filtered)
        flow == view \in {"collection", "orbit"}
    IN  /\ Acting /\ view' = next
        /\ filtered' = FALSE /\ motion' = NoMotion /\ orbit' = NoOrbit
        /\ covers' = CASE flow /\ ~keep -> ReleaseCovers(covers)
                       [] flow /\ keep /\ next # "orbit" -> ReleaseVRAM(covers)
                       [] OTHER -> covers
        /\ base' = IF keep THEN base ELSE -1
        /\ grid' = GridReset(IF next = "grid" THEN selected ELSE 0)
        /\ classic' = IF next = "classic" THEN LoadedClassic(cur) ELSE NoClassic
        /\ StartSave("view", next, "draw")
        /\ UNCHANGED <<shown, launched, selected, cur, marked, favs>>

\* Start: back to the browser.
Quit ==
    /\ Acting /\ Off
    /\ UNCHANGED <<files, known>>

----------------------------------------------------------------------------
\* Saving.

Save == saving.save

SaveStep ==
    LET p == files[Save.which]
        refused == Save.step = "rename" /\ p.final.there
    IN  /\ phase = "saving" /\ Save.step \notin {"done", "failed"}
        /\ files' = IF refused THEN files
                    ELSE [files EXCEPT ![Save.which] =
                            Stepped(p, Save.step, Save.value)]
        /\ saving' = [saving EXCEPT !.save.step =
                        IF refused THEN "failed" ELSE StepOf(@)]
        /\ UNCHANGED <<phase, shown, launched, uiVars, known, left>>

SaveFault ==
    /\ phase = "saving" /\ Save.step \notin {"done", "failed"}
    /\ Spend("faults")
    /\ \/ /\ files' = [files EXCEPT ![Save.which] = Failed(@, Save.step)]
          /\ saving' = [saving EXCEPT !.save.step = AfterFailure(@)]
       \/ /\ Unnoticed(Save.which, Save.step) /\ UNCHANGED files
          /\ saving' = [saving EXCEPT !.save.step = StepOf(@)]
    /\ UNCHANGED <<phase, shown, launched, uiVars, known>>

\* A mutant: the flags stay as they are when they could not be saved.
NotRestored == marked
Restored == Flipped

\* The favourite after the one that was removed, from the last to the first.
SelectedAfter ==
    LET rank == Cardinality({t \in marked : t < selected})
    IN  NavMarkedByRank(marked, IF rank < Cardinality(marked) THEN rank ELSE 0)

\* What a favourite that was removed or kept leads to.  Building the list of
\* the favourites can fail: then Collection keeps the old one.
FavouriteSaved ==
    /\ IF Save.step = "done"
       THEN /\ UNCHANGED marked
            /\ \/ favs' = marked /\ UNCHANGED left
               \/ Spend("faults") /\ UNCHANGED favs
       ELSE marked' = Restored /\ UNCHANGED <<favs, left>>
    /\ IF Save.step = "done" /\ filtered /\ selected \notin marked /\ marked # {}
       THEN /\ selected' = SelectedAfter /\ cur' = selected'
            /\ classic' = Asked(classic, selected')
       ELSE UNCHANGED <<selected, cur, classic>>
    /\ UNCHANGED <<view, filtered, motion, orbit, base, covers, grid>>

SaveEnd ==
    /\ phase = "saving" /\ Save.step \in {"done", "failed"}
    /\ known' = IF Save.step = "done"
                THEN [known EXCEPT ![Save.which] = {Save.value}] ELSE known
    /\ IF saving.then = "launch" THEN Off /\ UNCHANGED left
       ELSE /\ phase' = "draw" /\ saving' = NoSave /\ UNCHANGED <<shown, launched>>
            /\ IF saving.then = "favourite" THEN FavouriteSaved
               ELSE UNCHANGED <<uiVars, left>>
    /\ UNCHANGED files

Buttons ==
    \/ MoveInList \/ RandomScan \/ MoveGrid \/ PressShoulder
    \/ ToggleFavourites \/ Favourite \/ Launch \/ ChangeView \/ Quit

Frame == \E due \in BOOLEAN : Draw(due)
Pad == Idle \/ MoveCollection \/ HoldShoulder \/ ReleaseShoulder \/ Buttons
Drive == SaveStep \/ SaveFault \/ SaveEnd

Next == Boot \/ PowerCut \/ Frame \/ Pad \/ Drive

Spec == Init /\ [][Next]_vars

\* The loop does not stop.  Frame is enabled exactly in phase "draw", the pad
\* can always be left alone: that the phase changes is all there is to ask.
FairSpec == /\ Spec
            /\ WF_phase(phase = "draw" /\ phase' = "input")
            /\ WF_phase(phase = "input" /\ phase' = "draw")

----------------------------------------------------------------------------
\* Properties.

\* Video memory never holds a third full-size cover, whatever the order in
\* which covers near and away from the middle change size, and also when a
\* thumbnail cannot be allocated.
TwoFullCovers == covers.peak <= 2

\* When the pad is read in Collection or Orbit, each slot stands for the title
\* its place on the screen calls for, and shows the cover of that title: the
\* covers were moved, slid and reloaded together with the selection.
CoversMatchTitles ==
    LET titles == IF view = "collection" THEN FlowTitles ELSE Titles
        wanted == IF view = "collection"
                  THEN CollectionCacheLayout(Len(titles), motion.focus,
                                             Offset(motion))
                  ELSE [i \in CoverSlots |->
                          NavWrap(Total, selected + i - CoverFocus)]
    IN  phase = "input" /\ view \in {"collection", "orbit"} =>
          \A i \in CoverSlots :
            LET s == covers.slots[i]
            IN  /\ s.loaded \/ s.src # NoTitle => s.target = wanted[i]
                /\ s.loaded /\ s.src # NoTitle =>
                     s.src = TitleAt(titles, s.target)

\* When the pad is read in Grid, every page on the screen shows its own covers
\* only, never those of the page its buffer held before, and the title that
\* is highlighted is on one of these pages.
ScreenIsRight ==
    LET pages == Screen(grid).pages
    IN  phase = "input" /\ view = "grid" =>
          /\ \A page \in pages :
               page[1] >= 0 /\ page[2] >= 0 =>
                 /\ grid.bases[page[2]] = page[1]
                 /\ \A s \in Slots :
                      grid.covers[page[2]][s] \in {-1, page[1] + s}
          /\ \E page \in pages : page[1] = PageOf(shown)

\* What Cross hands to neutrino is the title the user saw highlighted, with
\* its own cover, whichever frame the button came in.  Grid after a
\* fast-track is LaunchedIsHighlighted's; its cover is not looked at.  Title
\* -1, which Collection selects when the list of the favourites could not be
\* built after the last one was removed, is none to launch.
LaunchIsSeen ==
    launched # NoLaunch /\ launched.title \in 0 .. Total - 1 /\ ~grid.settling
    /\ (filtered => favs = marked) =>
      /\ launched.title = launched.shown
      /\ view # "grid" => launched.cover \in {-1, launched.title}

\* README: "Cross: launch the selected game", in every state of every view.
LaunchedIsHighlighted ==
    launched # NoLaunch /\ favs = marked => launched.title = launched.shown

\* While only the favourites are shown the selected title is one of them,
\* also after it was removed, or its removal could not be saved.
FavouriteSelected ==
    phase \in {"draw", "input"} /\ filtered /\ marked # {} => selected \in marked

\* After one power cut or I/O error at any step of a save, the next start
\* finds the view saved last or the one being saved, and the title likewise,
\* but for one error: a title whose file cannot be closed replaces the old one
\* nevertheless (options.c:199-204), and then neither is found.
RecordKept ==
    phase # "saving" =>
      /\ ReadView(files.view, "classic") \in known["view"]
      /\ \/ ReadTitle(files.title, [title |-> 0, time |-> 0]) \in known["title"]
         \/ IsTorn(files.title.final)

\* The rename failed after the old favourites were removed: the new file is
\* left under its temporary name, which nothing reads (favorites.c:117-120).
FavouritesLost == ~files.fav.final.there /\ files.fav.temp.there

\* A favourite that could not be saved is not shown as one, also when the old
\* file could not be removed and the new one is left beside it: what Classic
\* marks is what the next start will read.  One error is excepted: a rename
\* that fails once the old file is gone.  The marks go back to what was saved
\* before, and the next start reads none.  While only the favourites are
\* shown, one is selected.
FavouritesAsSaved ==
    /\ phase \in {"draw", "input"} /\ ~FavouritesLost =>
         marked = ReadFavourites(files.fav)
    /\ FavouriteSelected

\* Once the Collection flow is at rest every cover on the screen is tried,
\* one a frame, also those whose file is missing or was decoded before; and a
\* page that was asked for in Grid is shown or cascades in once no shoulder is
\* held, whatever was being loaded or prefetched.
AtRest == view = "collection" /\ phase \in {"draw", "input"} /\ motion.init
          /\ motion.mode = "idle" /\ motion.dir = 0
AllTried == \A i \in CoverSlots :
    covers.slots[i].target >= 0 => covers.slots[i].tried
Waiting == view = "grid" /\ phase \in {"draw", "input"} /\ grid.pend >= 0
           /\ grid.shoulder = 0
ScreensSettle == /\ AtRest ~> (AllTried \/ ~AtRest)
                 /\ Waiting ~> (~Waiting \/ grid.cascade)
====

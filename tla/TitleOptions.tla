---- MODULE TitleOptions ----
(***************************************************************************)
(* The launch options of a title: the lists of arguments and the files     *)
(* they are read from and saved to (nhddl/src/options.c), the screen of    *)
(* known arguments (nhddl/src/ui/args.c and uiTitleOptionsLoop of          *)
(* nhddl/src/ui/gui.c), the list of all arguments (uiArgumentListLoop),    *)
(* and the save, a line of the file at a time.  A value is a tuple of      *)
(* tokens: a path is <<path>> in a file, and has the tokens of its         *)
(* device's mountpoint before it in memory, of which the first is the      *)
(* drive.                                                                  *)
(*                                                                         *)
(* Then the launch of a title (uiLaunchTitle of gui.c, nhddl/src/          *)
(* neutrino.c): the memory card emulators are told of it and polled until  *)
(* they have changed their card (nhddl/src/devices/mmce.c), the arguments  *)
(* of its device are appended, and neutrino is started.                    *)
(***************************************************************************)
EXTENDS Integers, Sequences, SequencesExt, FiniteSets

CONSTANTS Paths,    \* tokens that start with '/' or '\'
          Global,   \* global.yaml
          TitleFiles, \* the title files there may be, in the order readdir gives them
          NoFile

-----------------------------------------------------------------------------
(* The lists and their files.                                              *)

Empty == <<>>

Argument(arg, value, isDisabled, isGlobal) ==
    [arg |-> arg, value |-> value, isDisabled |-> isDisabled, isGlobal |-> isGlobal]
Line(arg, value, isDisabled) == [arg |-> arg, value |-> value, isDisabled |-> isDisabled]

Names(list) == {list[i].arg : i \in DOMAIN list}
\* getArgument: the first argument of that name.
Index(list, arg) == SelectInSeq(list, LAMBDA a : a.arg = arg)
Changed(list, arg, a) == [list EXCEPT ![Index(list, arg)] = a]

\* parseOptionsFile: a path of the file is a path on its device.
OnDevice(value, mountpoint) ==
    IF value # Empty /\ Head(value) \in Paths THEN mountpoint \o value ELSE value
parseOptionsFile(file, mountpoint, isGlobal) ==
    [i \in DOMAIN file |->
        Argument(file[i].arg, OnDevice(file[i].value, mountpoint), file[i].isDisabled, isGlobal)]

\* getGlobalLaunchArguments: the older directory is tried when there is no file
\* in the newer one.  files[base][name] is a file of one of the directories.
getGlobalLaunchArguments(files, mountpoint) ==
    LET base == IF files[1][Global] # NoFile THEN 1 ELSE 2
    IN IF files[base][Global] = NoFile THEN <<>>
       ELSE parseOptionsFile(files[base][Global], mountpoint, TRUE)

\* The file of a title in a directory: its own name, else the first of those
\* whose name begins with it.
TitleFile(directory, title) ==
    LET there == SelectSeq(TitleFiles, LAMBDA f : directory[f.file] # NoFile /\ title \in f.prefixes)
        exact == SelectSeq(there, LAMBDA f : f.exact = title)
    IN CASE exact # <<>> -> exact[1].file
         [] exact = <<>> /\ there # <<>> -> there[1].file
         [] OTHER -> NoFile
getTitleLaunchArguments(files, title, mountpoint) ==
    LET base == IF TitleFile(files[1], title) # NoFile THEN 1 ELSE 2
        name == TitleFile(files[base], title)
    IN IF name = NoFile THEN <<>> ELSE parseOptionsFile(files[base][name], mountpoint, FALSE)

\* A mutant: the argument that takes the value is switched on again.
MergeSwitchesOn(list, a) ==
    IF a.arg \notin Names(list) THEN Append(list, a)
    ELSE LET b == list[Index(list, a.arg)]
         IN IF b.isDisabled /\ b.value = Empty THEN Changed(list, a.arg, a) ELSE list
\* mergeArgumentLists, for one argument of the second list: one that the first
\* list switches off without a value takes the value, and stays off.
Merge(list, a) ==
    IF a.arg \notin Names(list) THEN Append(list, a)
    ELSE LET b == list[Index(list, a.arg)]
         IN IF b.isDisabled /\ b.value = Empty
            THEN Changed(list, a.arg, [a EXCEPT !.isDisabled = TRUE]) ELSE list
mergeArgumentLists(list1, list2) == FoldLeft(Merge, list1, list2)

loadLaunchArgumentLists(files, title, mountpoint) ==
    LET globals == getGlobalLaunchArguments(files, mountpoint)
        own == getTitleLaunchArguments(files, title, mountpoint)
    IN IF own = <<>> THEN globals ELSE mergeArgumentLists(own, globals)

\* updateTitleLaunchArguments: the lines of the title's file.  A path loses its
\* drive; a global argument is written only when it is switched off.
Relative(value) == IF Len(value) > 1 /\ value[2] \in Paths THEN Tail(value) ELSE value
Written(a) ==
    IF a.isGlobal THEN Line(a.arg, Empty, TRUE) ELSE Line(a.arg, Relative(a.value), a.isDisabled)
SavedLines(list) ==
    LET kept == SelectSeq(list, LAMBDA a : ~a.isGlobal \/ a.isDisabled)
    IN [i \in DOMAIN kept |-> Written(kept[i])]

\* A mutant: what is switched off is passed, too.
EnabledOrNot(list) == [i \in DOMAIN list |-> <<list[i].arg, list[i].value>>]
\* assembleArgv (neutrino.c): what is passed to neutrino.
Enabled(list) ==
    LET on == SelectSeq(list, LAMBDA a : ~a.isDisabled)
    IN [i \in DOMAIN on |-> <<on[i].arg, on[i].value>>]

-----------------------------------------------------------------------------
(* The screens.                                                            *)

VARIABLES
    files,   \* files[base][name]: the option files of the device
    options, \* the screen that is open and the list it works on
    saved    \* the title that was saved last and its list, or nothing

optionsVars == <<files, options, saved>>

uiArguments == <<"gc", "gsm", "logo", "dbc">>
gcValueMap == <<"0", "2", "3", "5", "7">>
gsmVideo == <<"fp1", "fp2", "1080ix1", "1080ix2", "1080ix3">>
gsmFlips == <<":1", ":2", ":3">>
gsmValueMap == gsmVideo \o gsmFlips
Toggles == {"logo", "dbc"}
On == {"on"}

\* The rows of an argument that can be chosen.
Elements(arg) ==
    CASE arg = "gc" -> gcValueMap [] arg = "gsm" -> gsmValueMap [] OTHER -> <<"on">>

-----------------------------------------------------------------------------
(* Parsing and marshalling one argument.                                   *)

\* What a value that is in force shows.
ValueState(arg, value) ==
    CASE arg = "gc" -> ToSet(value) \intersect ToSet(gcValueMap)
      [] arg = "gsm" /\ value # Empty /\ Head(value) \in ToSet(gsmVideo) ->
            {Head(value)} \union (ToSet(Tail(value)) \intersect ToSet(gsmFlips))
      [] arg \in Toggles -> On
      [] OTHER -> {}
IsOn(list, arg) == arg \in Names(list) /\ ~list[Index(list, arg)].isDisabled
State(list, arg) ==
    IF IsOn(list, arg) THEN ValueState(arg, list[Index(list, arg)].value) ELSE {}

\* gcParse, gsmParse: the value of an argument that is off is forgotten, and a
\* value of no meaning switches the argument off.
Parse(list, arg) ==
    IF arg \in Toggles \/ arg \notin Names(list) THEN list
    ELSE LET a == list[Index(list, arg)]
         IN CASE a.isDisabled -> Changed(list, arg, [a EXCEPT !.value = Empty])
              [] ~a.isDisabled /\ State(list, arg) = {} ->
                    Changed(list, arg, [a EXCEPT !.isDisabled = TRUE])
              [] OTHER -> list
ParseAll(list) == FoldLeft(Parse, list, uiArguments)
ParsedStates(list) == [arg \in ToSet(uiArguments) |-> State(list, arg)]

Value(arg, state) == SelectSeq(Elements(arg), LAMBDA e : e \in state)
\* gcMarshal, gsmMarshal, toggleMarshal.
KeepsGlobal(arg, a, value) ==
    /\ arg \notin Toggles /\ a.isGlobal
    /\ value = a.value \/ (arg = "gc" /\ value = Empty)
Marshal(list, arg, state) ==
    LET there == arg \in Names(list)
        known == IF there THEN list ELSE Append(list, Argument(arg, Empty, FALSE, FALSE))
        a == known[Index(known, arg)]
        value == IF arg \in Toggles THEN a.value ELSE Value(arg, state)
    IN IF state = {} /\ (~there \/ (arg \notin Toggles /\ a.isDisabled)) THEN list
       ELSE Changed(known, arg, Argument(arg, value, state = {}, KeepsGlobal(arg, a, value)))

\* gsmInput: one video mode at most, one flip at most and none without a mode.
gsmInput(state, element) ==
    LET flips == ToSet(gsmFlips)
        toggled == {element} \ state
        flipped == (state \ flips) \union toggled
    IN CASE element \notin flips ->
              IF toggled = {} THEN {} ELSE toggled \union (state \intersect flips)
         [] element \in flips /\ flipped = {element} -> {element, "fp2"}
         [] OTHER -> flipped
Toggled(arg, state, element) ==
    IF arg = "gsm" THEN gsmInput(state, element)
    ELSE (state \ {element}) \union ({element} \ state)

-----------------------------------------------------------------------------
Closed == [screen |-> "closed"]
OptionsInit == options = Closed /\ saved = Closed

OpenOptions(title, mountpoint) ==
    LET list == ParseAll(loadLaunchArgumentLists(files, title, mountpoint))
    IN /\ options.screen = "closed"
       /\ options' = [screen |-> "known", title |-> title, mountpoint |-> mountpoint,
                      list |-> list, states |-> ParsedStates(list), active |-> 1,
                      element |-> [arg \in ToSet(uiArguments) |-> 1], selected |-> 1,
                      back |-> "known", written |-> 0]
       /\ UNCHANGED <<files, saved>>

ActiveArgument == uiArguments[options.active]
Toggle ==
    LET arg == ActiveArgument
        state == Toggled(arg, options.states[arg], Elements(arg)[options.element[arg]])
    IN [options EXCEPT !.states[arg] = state, !.list = Marshal(@, arg, state)]
\* handleInput: the cursor leaves the argument at its first and last element.
Moved(by) ==
    LET arg == ActiveArgument
        element == options.element[arg] + by
        active == options.active + by
    IN CASE element \in DOMAIN Elements(arg) -> [options EXCEPT !.element[arg] = element]
         [] element \notin DOMAIN Elements(arg) /\ active \in DOMAIN uiArguments ->
               [options EXCEPT !.active = active]
         [] OTHER -> options

\* uiTitleOptionsLoop, and uiArgumentListLoop when the list is shown.
KnownInput(key) ==
    /\ options.screen = "known"
    /\ options' = CASE key = "cross" -> Toggle
                    [] key = "up" -> Moved(-1)
                    [] key = "down" -> Moved(1)
                    [] key = "l1" -> [options EXCEPT !.screen = "list", !.selected = 1]

\* Switching an argument off makes it the title's own.
ListToggle ==
    LET a == options.list[options.selected]
    IN [options EXCEPT !.list[options.selected] =
           [a EXCEPT !.isDisabled = ~@, !.isGlobal = a.isGlobal /\ a.isDisabled]]
BackFromList ==
    LET list == ParseAll(options.list)
    IN [options EXCEPT !.screen = "known", !.list = list, !.states = ParsedStates(list),
                       !.active = 1, !.element = [arg \in ToSet(uiArguments) |-> 1]]
ListInput(key) ==
    LET total == Len(options.list)
    IN /\ options.screen = "list"
       /\ key = "l1" \/ total > 0
       /\ options' = CASE key = "cross" -> ListToggle
                       [] key = "up" ->
                             [options EXCEPT !.selected = IF @ = 1 THEN total ELSE @ - 1]
                       [] key = "down" ->
                             [options EXCEPT !.selected = IF @ = total THEN 1 ELSE @ + 1]
                       [] key = "l1" -> BackFromList

Input(key) == (KnownInput(key) \/ ListInput(key)) /\ UNCHANGED <<files, saved>>
Cancel ==
    /\ options.screen \in {"known", "list"}
    /\ options' = Closed
    /\ UNCHANGED <<files, saved>>

-----------------------------------------------------------------------------
(* updateTitleLaunchArguments: the file is emptied and written in place.   *)

OwnFile(title) == (CHOOSE i \in DOMAIN TitleFiles : TitleFiles[i].exact = title)
Own == TitleFiles[OwnFile(options.title)].file
Save ==
    /\ options.screen \in {"known", "list"}
    /\ files' = [files EXCEPT ![1][Own] = <<>>]
    /\ options' = [options EXCEPT !.screen = "saving", !.back = options.screen, !.written = 0]
    /\ saved' = Closed
WriteLine ==
    LET lines == SavedLines(options.list)
    IN /\ options.screen = "saving" /\ options.written < Len(lines)
       /\ files' = [files EXCEPT ![1][Own] = Append(@, lines[options.written + 1])]
       /\ options' = [options EXCEPT !.written = @ + 1]
       /\ UNCHANGED saved
SaveDone ==
    /\ options.screen = "saving" /\ options.written = Len(SavedLines(options.list))
    /\ saved' = [screen |-> "saved", title |-> options.title, list |-> options.list,
                 mountpoint |-> options.mountpoint]
    /\ options' = Closed
    /\ UNCHANGED files
\* A write failed: what was written stays, and the screen is back.
SaveFails ==
    /\ options.screen = "saving" /\ options.written < Len(SavedLines(options.list))
    /\ options' = [options EXCEPT !.screen = options.back]
    /\ UNCHANGED <<files, saved>>

-----------------------------------------------------------------------------
(* The launch (launchTitleWithProgress).                                   *)

CONSTANTS MaxPolls,  \* how often a card emulator is asked whether it is ready
          bsdValues  \* bsdValues[mode]: the driver neutrino takes for a device of nhddl

VARIABLES
    launch, \* the launch
    cards   \* the memory card emulators of the two slots

launchVars == <<launch, cards>>

Slots == {1, 2}
NoLaunch == [step |-> "none"]
LaunchInit == launch = NoLaunch

\* mountpoint and path as fullPath has them.
FullPath(title, mode) == <<IF mode = "hdl" THEN "hdl:" ELSE title.drive, title.path>>
Given(arg, value) == Argument(arg, value, FALSE, FALSE)

\* launchTitleWithProgress, up to the cards.  list: the arguments as the screen
\* of the title has them, or as they are in its files.
launchTitle(title, mode, list) ==
    /\ launch.step = "none"
    /\ launch' = [step |-> "tell", title |-> title, mode |-> mode, slot |-> 1, polls |-> 0,
                  list |-> IF mode = "hdl" THEN Append(list, Given("bsdfs", <<"hdl">>)) ELSE list]
    /\ UNCHANGED cards

-----------------------------------------------------------------------------
(* mmceMountVMC.                                                           *)

NextSlot == [launch EXCEPT !.step = IF launch.slot = 2 THEN "append" ELSE "tell",
                           !.slot = @ + 1, !.polls = 0]
Holds(neutrino, slot) == neutrino = IF slot = 1 THEN "mc0:" ELSE "mc1:"
\* The slot neutrino is on is left alone; a card that is not there or does not
\* answer is passed over.
SkipCard(neutrino) ==
    /\ launch.step = "tell"
    /\ Holds(neutrino, launch.slot) \/ ~cards[launch.slot].there
    /\ launch' = NextSlot
    /\ UNCHANGED cards
TellCard(neutrino) ==
    /\ launch.step = "tell"
    /\ ~Holds(neutrino, launch.slot) /\ cards[launch.slot].there
    /\ launch' = [launch EXCEPT !.step = "poll"]
    /\ cards' = [cards EXCEPT ![launch.slot] =
                    [@ EXCEPT !.next = launch.title.id, !.busy = TRUE]]
PollCard ==
    /\ launch.step = "poll"
    /\ launch' = IF ~cards[launch.slot].busy \/ launch.polls + 1 = MaxPolls THEN NextSlot
                 ELSE [launch EXCEPT !.polls = @ + 1]
    /\ UNCHANGED cards
\* The emulator has changed its card.
CardSwitches(slot) ==
    /\ cards[slot].busy
    /\ cards' = [cards EXCEPT ![slot] = [@ EXCEPT !.vmc = cards[slot].next, !.busy = FALSE]]
    /\ UNCHANGED launch

-----------------------------------------------------------------------------
\* What is appended: the last of two arguments of one name counts.
AppendArguments(returnPath) ==
    /\ launch.step = "append"
    /\ launch' = [launch EXCEPT !.step = "start", !.list =
           @ \o <<Given("bsd", <<bsdValues[launch.mode]>>),
                  Given("dvd", FullPath(launch.title, launch.mode))>>
             \o (IF returnPath = Empty THEN <<>> ELSE <<Given("igr", returnPath)>>)
             \o (IF launch.mode = "hdl" THEN <<>> ELSE <<Given("qb", Empty)>>)]
    /\ UNCHANGED cards
assembleArgv == Enabled(launch.list)

LaunchStep(neutrino, returnPath) ==
    SkipCard(neutrino) \/ TellCard(neutrino) \/ PollCard \/ AppendArguments(returnPath)
====

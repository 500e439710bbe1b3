---- MODULE Console ----
(***************************************************************************)
(* A console from the start of nhddl to the game: the start (Startup), the *)
(* options of a title and its launch (TitleOptions), neutrino's            *)
(* loader (Loader) and the core under the game (EeCore), with power cuts   *)
(* at any step, storage that changes between two starts, and games that    *)
(* are left for nhddl again.                                               *)
(***************************************************************************)
EXTENDS Startup, TitleOptions, EeCore

CONSTANTS
    Histories,   \* what happens to the console
    ServerToken, \* the drive name of the server's files
    GameDriver,  \* the module that serves the drives of a mode in a game
    OtherFiles,  \* OtherFiles[drive]: the files of a drive besides the images
    Searched     \* Searched[drive]: the images that are to be listed

VARIABLE plan \* what is still to happen, and the console

gameVars == <<loaderVars, core>>
vars == <<bootVars, scanVars, optionsVars, launchVars, gameVars, plan>>

BootOff == [Started EXCEPT !.pc = "off"]
\* A console on which nhddl is started, or neutrino by another program.
Init ==
    \E h \in Histories :
        /\ plan = [later |-> Tail(h.starts), cuts |-> h.cuts, resets |-> h.resets,
                  screens |-> h.screens, inputs |-> h.inputs, keys |-> h.keys,
                  faults |-> h.faults, launches |-> h.launches, console |-> h.console,
                  argv |-> h.argv, play |-> h.play]
        /\ given = Head(h.starts).given /\ present = Head(h.starts).present
        /\ cacheFile = h.cacheFile /\ files = h.files /\ cards = h.cards
        /\ boot = (IF h.argv = <<>> THEN Started ELSE BootOff) /\ splash = SplashOff
        /\ ScanInit /\ OptionsInit /\ LaunchInit
        /\ loader = (IF h.argv = <<>> THEN NoLoader ELSE Loading(h.argv, h.console))
        /\ xparam = {} /\ game = NoGame /\ core = NoCore

-----------------------------------------------------------------------------
(* The program that runs.                                                  *)

StartupStep == StartupNext /\ UNCHANGED <<optionsVars, launchVars, gameVars, plan>>
Draws ==
    /\ uiSplashThread
    /\ UNCHANGED <<given, boot, scanVars, optionsVars, launchVars, gameVars, plan>>
CacheFault ==
    /\ plan.faults > 0
    /\ WriteCacheFails \/ CloseCacheFails
    /\ plan' = [plan EXCEPT !.faults = @ - 1]
    /\ UNCHANGED <<bootVars, optionsVars, launchVars, gameVars>>

\* What the user does in the library and on the screens of a title.
InLibrary == boot.pc = "library" /\ launch.step = "none"
Titles == {titles[i] : i \in DOMAIN titles}
DeviceOf(title) == boot.map[title.device]
MountpointOf(title) == Meta(DeviceOf(title))
OthersAs == <<bootVars, scanVars, gameVars>>
OpensScreen ==
    /\ InLibrary /\ plan.screens > 0
    /\ \E t \in Titles : OpenOptions(t.name, MountpointOf(t))
    /\ plan' = [plan EXCEPT !.screens = @ - 1]
    /\ UNCHANGED <<OthersAs, launchVars>>
Types ==
    /\ InLibrary /\ plan.inputs > 0
    /\ \E key \in plan.keys : Input(key)
    /\ plan' = [plan EXCEPT !.inputs = @ - 1]
    /\ UNCHANGED <<OthersAs, launchVars>>
Leaves == InLibrary /\ (Cancel \/ Save) /\ UNCHANGED <<OthersAs, launchVars, plan>>
Saving == InLibrary /\ (WriteLine \/ SaveDone) /\ UNCHANGED <<OthersAs, launchVars, plan>>
SaveFault ==
    /\ InLibrary /\ plan.faults > 0
    /\ SaveFails
    /\ plan' = [plan EXCEPT !.faults = @ - 1]
    /\ UNCHANGED <<OthersAs, launchVars>>

-----------------------------------------------------------------------------
(* The launch, from the library or from the options of a title.            *)

uiLaunchTitle(title, list) ==
    /\ plan.launches > 0
    /\ launchTitle(title, DeviceOf(title).mode, list)
    /\ plan' = [plan EXCEPT !.launches = @ - 1]
    /\ UNCHANGED <<OthersAs, optionsVars>>
Listed(title) == loadLaunchArgumentLists(files, title.name, MountpointOf(title))
LaunchFromLibrary ==
    /\ InLibrary /\ options.screen = "closed"
    /\ \E t \in Titles : uiLaunchTitle(t, Listed(t))
LaunchFromOptions ==
    /\ InLibrary /\ options.screen \in {"known", "list"}
    /\ \E t \in Titles : t.name = options.title /\ uiLaunchTitle(t, options.list)
LaunchForwarded ==
    /\ boot.pc = "forwarded" /\ launch.step = "none"
    /\ launchTitle(titles[1], DeviceOf(titles[1]).mode, Listed(titles[1]))
    /\ UNCHANGED <<OthersAs, optionsVars, plan>>
Launches ==
    /\ LaunchStep(boot.neutrino, given.returnPath) \/ \E slot \in Slots : CardSwitches(slot)
    /\ UNCHANGED <<OthersAs, optionsVars, plan>>

\* What neutrino finds: without a reset of the IOP, the modules of nhddl.
FilesOf(drive) ==
    OtherFiles[drive] \union (IF drive \in DOMAIN present THEN present[drive] ELSE {})
MassDrive(d) == [mode |-> mapBDMDriverName(d.driver), files |-> FilesOf(d.drive)]
Masses == {given.drives[i] : i \in DOMAIN given.drives}
Drives ==
    [drive \in DOMAIN OtherFiles |->
        IF \E d \in Masses : d.drive = drive
        THEN MassDrive(CHOOSE d \in Masses : d.drive = drive)
        ELSE IF \E i \in DOMAIN given.cards : given.cards[i] = drive
        THEN [mode |-> "mmce", files |-> FilesOf(drive)]
        ELSE IF drive = ServerToken /\ given.server
        THEN [mode |-> "udpfs", files |-> FilesOf(drive)]
        ELSE IF drive = "hdl:" /\ given.hdd # "none"
        THEN [mode |-> "hdl", files |-> {Partitions[i].path : i \in DOMAIN Partitions}]
        ELSE [mode |-> "none", files |-> {}]]
World == [plan.console EXCEPT !.resident = {m \o ".irx" : m \in boot.iop.modules},
                             !.drives = Drives]
\* A neutrino.elf that cannot be loaded ends in a trap.
launchELF ==
    /\ launch.step = "start"
    /\ IF boot.neutrino \in given.unreadable
       THEN launch' = [launch EXCEPT !.step = "trap"] /\ UNCHANGED gameVars
       ELSE /\ launch' = [launch EXCEPT !.step = "gone"]
            /\ loader' = Loading(assembleArgv, World)
            /\ UNCHANGED <<xparam, game, core>>
    /\ UNCHANGED <<bootVars, scanVars, optionsVars, cards, plan>>
Above == <<bootVars, scanVars, optionsVars, launchVars>>
LoaderRuns ==
    /\ LoaderStep
    /\ core' = IF game'.runs /\ ~game.runs THEN Core(game'.argv, plan.play) ELSE core
    /\ UNCHANGED <<Above, plan>>
GameRuns == (CoreStep \/ ProgramStep) /\ UNCHANGED <<Above, plan>>
Combination ==
    /\ plan.resets > 0
    /\ IGR_Intc_Handler
    /\ plan' = [plan EXCEPT !.resets = @ - 1]
    /\ UNCHANGED Above

-----------------------------------------------------------------------------
(* The console is switched off, or the game is left.                       *)

StartsAgain ==
    /\ boot' = Started /\ splash' = SplashOff
    /\ titles' = <<>> /\ scan' = NotScanning
    /\ options' = Closed /\ launch' = NoLaunch
    /\ loader' = NoLoader /\ game' = NoGame /\ core' = NoCore
    /\ IF plan.later = <<>> THEN UNCHANGED <<given, present>>
       ELSE given' = Head(plan.later).given /\ present' = Head(plan.later).present
    /\ UNCHANGED <<files, saved>>
Later == IF plan.later = <<>> THEN <<>> ELSE Tail(plan.later)
PowerCut ==
    /\ plan.cuts > 0
    /\ StartsAgain
    /\ plan' = [plan EXCEPT !.cuts = @ - 1, !.later = Later]
    /\ cacheFile' \in TornCache
    /\ cards' = [slot \in Slots |-> [cards[slot] EXCEPT !.busy = FALSE]]
    /\ xparam' = {}
\* The launcher, or the browser and the boot chain of the hard disk.
Return ==
    /\ At("home")
    /\ StartsAgain
    /\ plan' = [plan EXCEPT !.later = Later]
    /\ UNCHANGED <<cacheFile, cards, xparam>>

\* What goes on by itself: not what waits for the splash screen, the user, or
\* the cards.
Working ==
    \/ boot.pc \notin {"off", "library", "forwarded", "failed"} /\ (boot.pc = "main" \/ Logged)
    \/ boot.pc = "forwarded" /\ launch.step = "none"
    \/ launch.step \in {"tell", "poll", "append", "start"}
    \/ options.screen = "saving" /\ launch.step = "none"
    \/ loader.at \notin {"none", "exited"}
    \/ CoreWorks
Rests == ~Working /\ UNCHANGED vars
Next ==
    \/ StartupStep \/ Saving \/ LaunchForwarded \/ Launches \/ launchELF \/ LoaderRuns \/ GameRuns
    \/ Draws \/ Rests
    \/ CacheFault \/ OpensScreen \/ Types \/ Leaves \/ SaveFault
    \/ LaunchFromLibrary \/ LaunchFromOptions \/ Combination
    \/ PowerCut \/ Return

\* The main thread goes on when it can; what else changes its state (the user, a
\* power cut) is bounded.  The splash thread is woken by the display.
Worked == <<boot, scanVars, options, files, launch, loader, game, core>>
Spec ==
    /\ Init /\ [][Next]_vars
    /\ []<>~Working \/ []<><<TRUE>>_Worked
    /\ WF_splash(uiSplashThread)

-----------------------------------------------------------------------------
(* Properties.                                                             *)

\* The library lists every image on the drives that are scanned, and every
\* game of the hard disk, once, with its own title ID and in the order of the
\* names, whatever a power cut or an older start has left of the cache files
\* (findISO, processTitleID, storeTitleIDCache, findHDLTargets).
ScannedDevices == {i \in DOMAIN Mounted(boot.map) : boot.map[i].mode \in Scannable}
OnDrive(drive) ==
    {<<drive, p, ImageIds[drive][p]>> :
        p \in {q \in Searched[drive] \intersect present[drive] : ImageIds[drive][q] # NoId}}
OnHardDisk(drive) ==
    {<<drive, Partitions[i].path, Partitions[i].id>> :
        i \in {j \in DOMAIN Partitions : Partitions[j].main /\ Partitions[j].valid}}
OnDisk ==
    UNION {IF boot.map[i].mode = "hdl" THEN OnHardDisk(boot.map[i].drive)
           ELSE OnDrive(boot.map[i].drive) : i \in ScannedDevices}
TitlesAsOnDisk ==
    boot.pc = "library" =>
        /\ {<<t.drive, t.path, t.id>> : t \in Titles} = OnDisk
        /\ Len(titles) = Cardinality(OnDisk)
        /\ \A i, j \in DOMAIN titles :
              i < j => UpperRank[titles[i].name] <= UpperRank[titles[j].name]

\* What was saved for a title is what is in force when its options are loaded
\* again, the older and the global files beside it: no argument that was off
\* comes back, and none is lost (updateTitleLaunchArguments,
\* loadLaunchArgumentLists).  But for one that was switched off, and so emptied,
\* and switched on again in the list: it has no value to save.
InForce(list, arg) == {a.value : a \in {b \in ToSet(list) : b.arg = arg /\ ~b.isDisabled}}
Emptied(list, arg) == arg \notin Toggles /\ Empty \in InForce(list, arg)
SavedIsLoaded ==
    saved.screen = "saved" /\ options.screen # "saving" =>
        LET again == loadLaunchArgumentLists(files, saved.title, saved.mountpoint)
        IN \A arg \in Names(again) \union Names(saved.list) :
              Emptied(saved.list, arg) \/ InForce(again, arg) = InForce(saved.list, arg)

Launched == game.runs /\ launch.step = "gone"
\* The game that runs is the title that was launched, or the image that another
\* program named: that is the disc, whatever its options say, and the game's
\* modules hold the driver of its drive with their data
\* (launchTitleWithProgress, bsd_from_path, main of the loader).
NamedDiscs == SelectSeq(plan.argv, LAMBDA a : a[1] = "dvd")
Wanted ==
    IF launch.step = "gone"
    THEN {[disc |-> FullPath(launch.title, launch.mode), id |-> launch.title.id,
           driver |-> GameDriver[launch.mode]]}
    ELSE {[disc |-> NamedDiscs[i][2], id |-> plan.console.images[NamedDiscs[i][2]].id,
           driver |-> GameDriver[plan.console.drives[NamedDiscs[i][2][1]].mode]] :
             i \in DOMAIN NamedDiscs}
GameIsChosen ==
    game.runs =>
        \A w \in Wanted :
            /\ game.id = w.id
            /\ Head(game.files) = <<"CDVD", w.disc>>
            /\ \E i \in DOMAIN game.table : game.table[i].file = w.driver /\ game.table[i].data

\* What was switched on for the title is in force in the game, and nothing
\* else but what the game's table in compat.toml says (assembleArgv,
\* parse_cmdline_args, the compatibility modes).  The parameters of a DECKARD
\* console are those of the game that runs, also after another game was left
\* without a power cycle (ResetDeckardXParams).  A pad that was opened through
\* the hook is watched for the combination that leaves the game, also in the
\* programs a game starts (Reset_Padhook, Install_IGR).
AskedFor(arg) ==
    LET asked == SelectSeq(launch.list, LAMBDA a : a.arg = arg /\ ~a.isDisabled)
    IN IF asked = <<>> THEN {} ELSE {asked[Len(asked)].value}
Digits == UNION {ToSet(v) : v \in AskedFor("gc")}
FlagsOf(id) == IF id \in DOMAIN GameTables THEN GameTables[id].flags ELSE {}
SettingsReachGame ==
    /\ game.runs => \A p \in xparam : p[1] = game.id
    /\ At("program") /\ core.pad.opened => Watched(core.pad)
    /\ Launched =>
           /\ game.flags \ {"LOGO_PATCH", "LOGO_PAL"} =
                 FlagsOf(game.id) \union UNION {Modes[d].flags : d \in Digits \intersect DOMAIN Modes}
                 \union (IF AskedFor("dbc") # {} THEN {"DBC"} ELSE {})
           /\ \A d \in Digits \intersect DOMAIN Modes : \A i \in DOMAIN Modes[d].depends :
                 \A j \in DOMAIN Configs[Modes[d].depends[i]].modules :
                    \E k \in DOMAIN game.table :
                       /\ game.table[k].file = Configs[Modes[d].depends[i]].modules[j].file
                       /\ game.table[k].data
           /\ {game.gsm} = (IF AskedFor("gsm") = {} THEN {NotSet} ELSE AskedFor("gsm"))
           /\ {game.igr} = AskedFor("igr")
           /\ Head(game.argv) = "rom0:PS2LOGO" => AskedFor("logo") # {}
           /\ {f[2] : f \in {g \in ToSet(game.files) : g[1] = "mc0"}} = AskedFor("mc0")

\* A program of the game runs on an IOP that is up, with all of neutrino's modules,
\* and with the image the program asked for in its last reset, or none of its own
\* when it asked for nothing and EELOAD resets the IOP.  Where duplicate resets
\* are ignored it is the image of the first.  MODE3 unhooks after one reset
\* (New_Reset_Iop2, the hooks of iopmgr.c).
ImageAskedFor == IF iop_rm[3] = 1 THEN Head(core.asked) ELSE Last(core.asked)
GameHasItsImage ==
    At("program") /\ (core.hooked \/ core.asked = <<>>) =>
        /\ core.iop.modules = "table" \/ Head(core.argv) = "rom0:PS2LOGO"
        /\ core.iop.flags = Registers
        /\ core.asked # <<>> => core.iop.image = ImageAskedFor
        /\ core.asked = <<>> /\ iop_rm[1] \in {2, 3} => core.iop.image = ""

\* main reaches the library, a forwarded image or its error, though the splash
\* screen must draw each of its lines; a launch ends in a program of the game or
\* in an error, though card emulators never become ready; and a reset or a
\* start in the game ends, though the game's own writes to the registers come
\* after the reset was done for it, in the program, in the launcher when the
\* combination is pressed meanwhile, or in an error.
StartsEnd ==
    /\ boot.pc = "main" ~> boot.pc \in {"library", "forwarded", "failed"}
    /\ launch.step = "tell" ~>
          (launch.step \in {"none", "trap"} \/ game.runs \/ loader.at = "exited")
    /\ core.at # "none" ~> core.at \in CoreEnded \union {"program", "home"}

\* compat.toml says of the games' own tables that they override the command
\* line: the modules they add must be there with their data, as those of -gc are.
PatchesReachGame == game.runs => \A i \in DOMAIN game.table : game.table[i].data
====

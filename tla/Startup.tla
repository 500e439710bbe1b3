---- MODULE Startup ----
(***************************************************************************)
(* The start of nhddl up to the library (nhddl/src/main.c): its options,   *)
(* the drivers (devices/init.c), the devices that they make visible        *)
(* (devices.c, bdm.c, mmce.c, udpfs.c, hdl.c), as functions of the         *)
(* drivers' state, the scan of each, and beside it the thread that draws   *)
(* the splash screen (ui/gui.c).  A mode is a set of names.                *)
(***************************************************************************)
EXTENDS TitleScan, FiniteSets

MODE_BASIC == {"basic"}
MODE_BDM == {"ata", "mx4sio", "usb", "ilink", "hdl"}
MODE_ALL == {"ata", "mmce", "udpfs", "usb", "hdl", "basic"}

Module(name, mode) == [name |-> name, mode |-> mode]
moduleList ==
    <<Module("iomanX", MODE_ALL), Module("fileXio", MODE_ALL), Module("sio2man", MODE_ALL),
      Module("mcman", MODE_ALL), Module("mcserv", MODE_ALL), Module("freepad", MODE_ALL),
      Module("mmceman", MODE_ALL), Module("ps2dev9", {"udpfs", "ata", "hdl"}),
      Module("bdm", MODE_BDM), Module("bdmfs_fatfs", MODE_BDM), Module("smap", {"udpfs"}),
      Module("ministack", {"udpfs"}), Module("udpfs_ioman", {"udpfs"}),
      Module("ata_bd", {"ata", "hdl"}), Module("usbd_mini", {"usb"}),
      Module("usbmass_bd_mini", {"usb"}), Module("mx4sio_bd_mini", {"mx4sio"}),
      Module("iLinkman", {"ilink"}), Module("IEEE1394_bd_mini", {"ilink"}),
      Module("ps2hdd_bdm", {"hdl"}), Module("ps2fs", {"hdl"})>>

-----------------------------------------------------------------------------
(* initModules.  iop: loadedModules, LAUNCHER_OPTIONS.mode, and whether it  *)
(* failed.                                                                 *)

IopOff == [modules |-> {}, mode |-> {}, failed |-> FALSE]

\* The modes that start from a reset of the IOP.
Restarts(iop, modeType) ==
    \/ modeType = MODE_ALL
    \/ modeType = {"mx4sio"} /\ "mmce" \in iop.mode
    \/ modeType = {"mmce"} /\ "mx4sio" \in iop.mode
Reset(iop, modeType) == IF Restarts(iop, modeType) THEN IopOff ELSE iop

Skipped(state, m) ==
    \/ m.mode # MODE_ALL /\ m.mode \intersect state.modeType = {}
    \/ m.name = "mmceman" /\ "mx4sio" \in state.modeType
    \/ m.name \in state.iop.modules
\* loadModule: ministack needs an address.
Breaks(m, given) == m.name \in given.broken \/ (m.name = "ministack" /\ ~given.ip)
LoadNext(state, m) ==
    CASE state.iop.failed \/ Skipped(state, m) -> state
      [] ~state.iop.failed /\ ~Skipped(state, m) /\ ~Breaks(m, state.given) ->
            [state EXCEPT !.iop.modules = @ \union {m.name}]
      [] ~state.iop.failed /\ ~Skipped(state, m) /\ Breaks(m, state.given) ->
            IF state.modeType = MODE_ALL /\ m.mode # MODE_ALL
            THEN [state EXCEPT !.modeType = @ \ m.mode, !.iop.mode = @ \ m.mode]
            ELSE [state EXCEPT !.iop.failed = TRUE]
initModules(iop, modeType, given) ==
    LET start == [iop |-> Reset(iop, modeType), modeType |-> modeType, given |-> given]
        end == FoldLeft(LoadNext, start, moduleList)
    IN CASE modeType = {} -> iop
         [] modeType # {} /\ end.iop.failed -> end.iop
         [] OTHER -> [end.iop EXCEPT !.mode = @ \union end.modeType]

-----------------------------------------------------------------------------
(* initDeviceMap.  The map is filled from the count of the devices found   *)
(* so far: what a backend that fails has put there is overwritten.         *)

MapEntry(mode, drive, mountpoint) ==
    [mode |-> mode, drive |-> drive, mountpoint |-> mountpoint, metadev |-> <<>>]
\* The drives of BDM that the loaded drivers find, as massX.
DriverOf == [ata |-> "ata_bd", sdc |-> "mx4sio_bd_mini", usb |-> "usbmass_bd_mini",
             sd |-> "IEEE1394_bd_mini", other |-> "usbmass_bd_mini"]
MassDrives(iop, given) ==
    IF ~({"bdm", "bdmfs_fatfs"} \subseteq iop.modules) THEN <<>>
    ELSE SelectSeq(given.drives, LAMBDA d : DriverOf[d.driver] \in iop.modules)
mapBDMDriverName(driver) ==
    CASE driver = "ata" -> "ata" [] driver = "sdc" -> "mx4sio" [] driver = "usb" -> "usb"
      [] driver = "sd" -> "ilink" [] OTHER -> "none"
\* The drives initBDMDevices comes to: it stops after the ATA drive when that
\* is the only mode, and at one whose driver does not answer.
BdmSeen(iop, given) ==
    LET drives == MassDrives(iop, given)
        onlyAta == iop.mode \intersect MODE_BDM = {"ata"}
        ends == {i \in DOMAIN drives : drives[i].deaf \/ (onlyAta /\ drives[i].driver = "ata")}
        last == IF ends = {} THEN Len(drives) ELSE CHOOSE i \in ends : \A j \in ends : i <= j
    IN SubSeq(drives, 1, last)
\* The image's drive only, when there is an image.
BdmFound(iop, given) ==
    IF given.image = <<>> THEN BdmSeen(iop, given)
    ELSE SelectSeq(MassDrives(iop, given), LAMBDA d : d.drive = given.image[1])
initBDMDevices(iop, given) ==
    LET found == BdmFound(iop, given)
        answers == SelectSeq(found, LAMBDA d : ~d.deaf)
        entries == [i \in DOMAIN answers |->
                      MapEntry(mapBDMDriverName(answers[i].driver), answers[i].drive,
                               <<answers[i].drive>>)]
    IN [entries |-> entries, count |-> IF answers = found THEN Len(entries) ELSE 0]
initMMCEDevices(iop, given) ==
    LET cards == IF "mmceman" \in iop.modules THEN given.cards ELSE <<>>
        entries == [i \in DOMAIN cards |-> MapEntry("mmce", cards[i], <<cards[i]>>)]
    IN [entries |-> entries, count |-> Len(entries)]
initUDPFSDevices(iop, given) ==
    LET found == "udpfs_ioman" \in iop.modules /\ given.server
    IN IF found THEN [entries |-> <<MapEntry("udpfs", "udpfs0:", <<"udpfs0:">>)>>, count |-> 1]
       ELSE [entries |-> <<>>, count |-> 0]
\* initHDL: a drive without a partition for the options fails, but is in the
\* map; without a drive the map ends there.
initHDL(iop, given) ==
    LET found == {"ata_bd", "ps2hdd_bdm"} \subseteq iop.modules /\ given.hdd # "none"
        entry == [MapEntry("hdl", "hdd0:", <<"hdd0:">>) EXCEPT
                     !.metadev = CASE given.hdd = "+OPL" -> <<"pfs0:">>
                                   [] given.hdd = "__common" -> <<"pfs0:", "/OPL">>
                                   [] OTHER -> <<>>]
    IN [entries |-> IF found THEN <<entry>> ELSE <<MapEntry("none", "", <<>>)>>,
        count |-> IF found /\ entry.metadev # <<>> THEN 1 ELSE 0]

\* Entries past the count stay, where no other overwrites them.
Placed(map, count, entries) ==
    [i \in 1 .. (IF Len(map) > count + Len(entries) THEN Len(map) ELSE count + Len(entries)) |->
        IF i \in count + 1 .. count + Len(entries) THEN entries[i - count] ELSE map[i]]
Backend(modes, result) == [modes |-> modes, result |-> result]
backends(iop, given) ==
    <<Backend({"mmce"}, initMMCEDevices(iop, given)),
      Backend({"udpfs"}, initUDPFSDevices(iop, given)),
      Backend({"ata", "mx4sio", "usb", "ilink"}, initBDMDevices(iop, given)),
      Backend({"hdl"}, initHDL(iop, given))>>
initDeviceMap(iop, given) ==
    LET wanted == SelectSeq(backends(iop, given), LAMBDA b : b.modes \intersect iop.mode # {})
    IN FoldLeft(LAMBDA state, b :
                   [map |-> Placed(state.map, state.count, b.result.entries),
                    count |-> state.count + b.result.count],
                [map |-> <<>>, count |-> 0], wanted)

-----------------------------------------------------------------------------
(* The state.                                                              *)

VARIABLES
    given,  \* how nhddl is started, and what is attached
    boot,   \* where main is, and what it has found
    splash  \* the splash thread and its semaphores

bootVars == <<given, boot, splash>>

NoOptions == {"no file"}
LUNA_LIBRARY_DEFAULT_MODES == {"ata", "hdl"}
LUNA_LIBRARY_OPT_IN_MODES == {"usb", "mx4sio", "mmce", "ilink", "udpfs"}

-----------------------------------------------------------------------------
(* The splash screen: main says that there is a new string and waits until *)
(* it is drawn.                                                            *)

SplashOff == [thread |-> "none", done |-> FALSE, newString |-> FALSE, drawn |-> FALSE]
startSplashScreen == [SplashOff EXCEPT !.thread = "pollDone"]
\* uiSplashLogString: the signal; the wait is Logged.
Log(sp) == IF sp.thread = "none" THEN sp ELSE [sp EXCEPT !.newString = TRUE]
Logged == splash.drawn \/ splash.thread = "none"
\* WaitSema(drawnSema).
Taken(sp) == [sp EXCEPT !.drawn = FALSE]

\* A mutant: the thread ends and tells nobody.
PollDoneSilently ==
    /\ splash.thread = "pollDone"
    /\ splash' = IF splash.done THEN [splash EXCEPT !.thread = "ended"]
                 ELSE [splash EXCEPT !.thread = "pollString"]
PollDone ==
    /\ splash.thread = "pollDone"
    /\ splash' = IF splash.done THEN [splash EXCEPT !.thread = "ended", !.drawn = TRUE]
                 ELSE [splash EXCEPT !.thread = "pollString"]
PollString ==
    /\ splash.thread = "pollString"
    /\ splash' = [splash EXCEPT !.thread = "draw", !.newString = FALSE,
                                !.drawn = @ \/ splash.newString]
Drawn ==
    /\ splash.thread = "draw"
    /\ splash' = [splash EXCEPT !.thread = "pollDone"]
uiSplashThread == PollDone \/ PollString \/ Drawn

-----------------------------------------------------------------------------
(* main.  A step ends at the next string of the splash screen.             *)

Steps(to) == boot' = [boot EXCEPT !.pc = to]
Reached(pc) == boot.pc = pc /\ Logged
\* The step logs, and goes on at "to" when the string is drawn.
Logs(b) == boot' = b /\ splash' = Log(Taken(splash))
Fails == Logs([boot EXCEPT !.pc = "failed"])

Started == [pc |-> "main", iop |-> IopOff, configuredLibraryModes |-> {}, map |-> <<>>,
            at |-> 1, neutrino |-> "none"]

\* parseArgv and parseFilename.
ArgvMode == IF given.argMode = {} THEN MODE_ALL ELSE given.argMode
FirstMode == IF given.argv THEN ArgvMode ELSE given.postfix
IsForward == given.argv /\ given.image # <<>> /\ "hdl" \notin ArgvMode
Main ==
    /\ boot.pc = "main"
    /\ boot' = [boot EXCEPT !.iop.mode = FirstMode,
                            !.pc = CASE IsForward -> "forward"
                                     [] ~IsForward /\ given.argv -> "argInit"
                                     [] OTHER -> "init"]
    /\ splash' = IF IsForward THEN splash ELSE Log(startSplashScreen)
    /\ UNCHANGED <<given, scanVars>>

\* argInit.
ArgInit ==
    LET iop == initModules(boot.iop, boot.iop.mode, given)
    IN /\ Reached("argInit")
       /\ IF iop.failed THEN Fails ELSE Logs([boot EXCEPT !.iop = iop, !.pc = "devices"])
       /\ UNCHANGED <<given, scanVars>>

\* resolveRootDevice.
guessDeviceType(root) ==
    CASE root = "mc" -> MODE_BASIC [] root = "hdd" -> {"hdl"}
      [] root = "mass" -> {"ata", "usb", "mx4sio"} [] OTHER -> {root}
RootModes(root) == IF root \in {"udpfs", "ilink"} THEN {} ELSE guessDeviceType(root)
resolveRootDevice ==
    /\ Reached("init")
    /\ Logs([boot EXCEPT !.iop = IF RootModes(given.root) = {} THEN @
                                 ELSE initModules(@, RootModes(given.root), given),
                         !.pc = "options"])
    /\ UNCHANGED <<given, scanVars>>

\* loadOptions, and the modules it calls for: none when the mode is the same.
loadOptions ==
    LET mode == IF given.options = NoOptions THEN MODE_ALL
                ELSE boot.iop.mode \union given.options
        asked == IF given.options = NoOptions THEN {}
                 ELSE given.options \intersect LUNA_LIBRARY_OPT_IN_MODES
        before == [boot.iop EXCEPT !.mode = mode, !.failed = FALSE]
        iop == IF mode = boot.iop.mode THEN before ELSE initModules(before, mode, given)
    IN /\ Reached("options")
       /\ IF iop.failed THEN Fails
          ELSE Logs([boot EXCEPT !.iop = iop, !.configuredLibraryModes = asked,
                                 !.pc = "devices"])
       /\ UNCHANGED <<given, scanVars>>

\* initDevices.
initDevices ==
    LET found == initDeviceMap(boot.iop, given)
    IN /\ Reached("devices")
       /\ IF found.count = 0 THEN Fails
          ELSE Logs([boot EXCEPT !.map = found.map, !.pc = "neutrino"])
       /\ UNCHANGED <<given, scanVars>>

\* findNeutrinoELF: beside nhddl, on the devices up to the end of the map, on
\* the card emulators, on the memory cards.
Mounted(map) ==
    LET ends == {i \in DOMAIN map : map[i].mode = "none"}
        last == IF ends = {} THEN Len(map) ELSE (CHOOSE i \in ends : \A j \in ends : i <= j) - 1
    IN SubSeq(map, 1, last)
Meta(device) == IF device.metadev # <<>> THEN device.metadev ELSE device.mountpoint
NeutrinoPlaces(map, iop) ==
    [i \in DOMAIN Mounted(map) |-> Meta(Mounted(map)[i])[1]]
    \o (IF "mmceman" \in iop.modules THEN <<"mmce0:", "mmce1:">> ELSE <<>>)
    \o <<"mc0:", "mc1:">>
findNeutrinoELF(cwd, map, iop) ==
    LET there == SelectSeq((IF cwd THEN <<given.cwd>> ELSE <<>>) \o NeutrinoPlaces(map, iop),
                           LAMBDA p : p \in given.neutrino)
    IN IF there = <<>> THEN "none" ELSE there[1]
FindNeutrino ==
    LET found == findNeutrinoELF(TRUE, boot.map, boot.iop)
    IN /\ Reached("neutrino")
       /\ IF found = "none" THEN Fails
          ELSE Logs([boot EXCEPT !.neutrino = found, !.pc = "scan"])
       /\ UNCHANGED <<given, scanVars>>

-----------------------------------------------------------------------------
(* The scan of the devices that the library is configured for.             *)

Scannable == LUNA_LIBRARY_DEFAULT_MODES \union boot.configuredLibraryModes
DevicesLeft == boot.at \in DOMAIN Mounted(boot.map)
Device == boot.map[boot.at]
SkipDevice ==
    /\ Reached("scan") /\ scan.step = "idle" /\ DevicesLeft /\ Device.mode \notin Scannable
    /\ boot' = [boot EXCEPT !.at = @ + 1]
    /\ UNCHANGED <<given, splash, scanVars>>
Scan ==
    /\ Reached("scan") /\ DevicesLeft /\ Device.mode \in Scannable
    /\ IF Device.mode = "hdl" THEN ScanPartitions(boot.at, Device.drive)
       ELSE ScanDevice(boot.at, Device.drive)
    /\ UNCHANGED <<given, boot, splash>>
TitleIds == Reached("scan") /\ (LoadCache \/ MatchIds \/ storeTitleIDCache) /\ UNCHANGED bootVars
Scanned ==
    /\ Reached("scan") /\ scan.step = "scanned"
    /\ scan' = NotScanning
    /\ boot' = [boot EXCEPT !.at = @ + 1]
    /\ UNCHANGED <<given, splash, present, cacheFile, titles>>
\* The end of the scan: stopUISplashThread, when there is a title.
ScanEnds ==
    /\ Reached("scan") /\ scan.step = "idle" /\ ~DevicesLeft
    /\ IF titles = <<>> THEN Fails
       ELSE /\ boot' = [boot EXCEPT !.pc = "stop"]
            /\ splash' = [Taken(splash) EXCEPT !.done = TRUE, !.newString = TRUE]
    /\ UNCHANGED <<given, scanVars>>
\* uiLoop starts.
stopUISplashThread ==
    /\ Reached("stop")
    /\ Steps("library")
    /\ splash' = Taken(splash)
    /\ UNCHANGED <<given, scanVars>>

-----------------------------------------------------------------------------
(* forwardBoot.                                                            *)

\* With noInit the modules are those of the program that started nhddl.
Forwards(from, works, b) ==
    /\ Reached(from)
    /\ boot' = IF works THEN b ELSE [boot EXCEPT !.pc = "failed"]
    /\ UNCHANGED <<given, splash, present, cacheFile, scan>>
ForwardModules ==
    LET iop == IF given.noInit THEN [boot.iop EXCEPT !.modules = given.preloaded]
               ELSE initModules(boot.iop, boot.iop.mode, given)
    IN Forwards("forward", ~iop.failed, [boot EXCEPT !.iop = iop, !.pc = "forward devices"])
       /\ UNCHANGED titles
ForwardDevices ==
    LET found == initDeviceMap(boot.iop, given)
        neutrino == findNeutrinoELF(FALSE, found.map, boot.iop)
    IN Forwards("forward devices",
                found.count > 0 /\ given.image[2] \in present[given.image[1]] /\ neutrino # "none",
                [boot EXCEPT !.map = SubSeq(found.map, 1, found.count), !.neutrino = neutrino,
                             !.pc = "forward target"])
       /\ UNCHANGED titles
\* The device whose mountpoint the image's path holds.
ForwardTarget ==
    LET drive == given.image[1]
        device == SelectInSeq(boot.map, LAMBDA d : d.drive = drive)
        image == [path |-> given.image[2], name |-> given.imageName]
    IN /\ Forwards("forward target", device # 0, [boot EXCEPT !.pc = "forwarded"])
       /\ titles' = IF device = 0 THEN titles
                    ELSE <<Target(device, drive, image, ImageIds[drive][image.path])>>
forwardBoot == ForwardModules \/ ForwardDevices \/ ForwardTarget

StartupNext ==
    \/ Main \/ ArgInit \/ resolveRootDevice \/ loadOptions \/ initDevices \/ FindNeutrino
    \/ SkipDevice \/ Scan \/ TitleIds \/ Scanned \/ ScanEnds \/ stopUISplashThread
    \/ forwardBoot
====

---- MODULE MCConsole ----
\* A console with a USB drive, a hard disk with HDL games and memory card
\* emulators, and neutrino's own configuration files, cut to a few modules.
EXTENDS Console

\* The drives: names in the order of readdir.
Dir(name, path) == [dir |-> TRUE, name |-> name, path |-> path, iso |-> FALSE]
Iso(name, path) == [dir |-> FALSE, name |-> name, path |-> path, iso |-> TRUE]
MCTree ==
    [drive \in {"mass0:", "mass1:", "mmce0:", "udpfs0:"} |->
        CASE drive = "mass0:" ->
                ("/" :> <<Dir(".trash", "/.trash"), Dir("VMC", "/VMC"), Dir("DVD", "/DVD")>> @@
                 "/.trash" :> <<Iso("old", "/old.iso")>> @@
                 "/VMC" :> <<Iso("card", "/card.iso")>> @@
                 "/DVD" :> <<Iso("beta", "/beta.iso"), Iso("alpha", "/alpha.iso"),
                             Iso("blank", "/blank.iso")>>)
          [] drive = "mass1:" -> ("/" :> <<Iso("gamma", "/gamma.iso"), Iso("alpha", "/alpha.iso")>>)
          [] OTHER -> ("/" :> <<Iso("beta", "/beta.iso")>>)]
MCUpperRank == [alpha |-> 1, beta |-> 2, blank |-> 3, delta |-> 4, gamma |-> 5]
MCImageIds ==
    [drive \in DOMAIN MCTree |->
        CASE drive = "mass0:" -> ("/alpha.iso" :> "ALPHA" @@ "/beta.iso" :> "BETA" @@
                                  "/blank.iso" :> NoId)
          [] drive = "mass1:" -> ("/gamma.iso" :> "GAMMA" @@ "/alpha.iso" :> "ALPHA2")
          [] OTHER -> ("/beta.iso" :> "BETA")]
MCPartitions ==
    <<[name |-> "beta", path |-> "PP.BETA", id |-> "BETA", main |-> TRUE, valid |-> TRUE],
      [name |-> "delta", path |-> "PP.BETA", id |-> "BETA", main |-> FALSE, valid |-> TRUE],
      [name |-> "delta", path |-> "PP.OTHER", id |-> "OTHER", main |-> TRUE, valid |-> FALSE],
      [name |-> "alpha", path |-> "PP.ALPHA", id |-> "ALPHA", main |-> TRUE, valid |-> TRUE]>>
MCOtherFiles ==
    [drive \in {"mass0:", "mass1:", "mmce0:", "udpfs0:", "hdl:"} |->
        IF drive = "mass0:" THEN {"/card.vmc"} ELSE {}]
MCGameIds == {"ALPHA", "ALPHA2", "BETA", "GAMMA"}
Image(id) == [valid |-> id # NoId, id |-> id, cnf |-> id # NoId, large |-> id # "BETA",
              dual |-> id = "GAMMA"]
MCImages ==
    [p \in {<<drive, path>> : drive \in DOMAIN MCImageIds, path \in {"/alpha.iso", "/beta.iso", "/blank.iso", "/gamma.iso"}} |->
        Image(IF p[2] \in DOMAIN MCImageIds[p[1]] THEN MCImageIds[p[1]][p[2]] ELSE NoId)]
    @@ (<<"hdl:", "PP.BETA">> :> Image("BETA") @@ <<"hdl:", "PP.ALPHA">> :> Image("ALPHA"))

\* The configuration files.
M(file, env) == [file |-> file, ioprp |-> "", func |-> "", order |-> 20, env |-> env,
                 data |-> FALSE]
Both == {"LE", "EE"}
Table(modules) == [NoTable EXCEPT !.modules = modules]
Depending(modules, depends) == [Table(modules) EXCEPT !.depends = depends]
FhiBd == [M("fhi_bd.irx", {"EE"}) EXCEPT !.order = 10]
Patch(file) == [M(file, {"EE"}) EXCEPT !.order = 31]
RebootMode(irm) == [NoTable EXCEPT !.settings = [irm |-> irm]]
MCConfigs ==
    "system" :> [Table(<<[M("eesync.irx", {"EE"}) EXCEPT !.ioprp = "EESYNC"],
                         [M("imgdrv.irx", {"EE"}) EXCEPT !.func = "IMGDRV"],
                         [M("udnl.irx", {"EE"}) EXCEPT !.func = "UDNL"],
                         [M("fakemod.irx", {"EE"}) EXCEPT !.order = 30]>>)
                 EXCEPT !.settings = [bsd |-> <<"no">>, bsdfs |-> <<"exfat">>, dvd |-> <<"no">>,
                                      elf |-> <<"auto">>]] @@
    "compat" :> [NoTable EXCEPT !.settings = [fs_sectors |-> <<"8">>, irm |-> <<2, 2, 0>>]] @@
    "fast" :> RebootMode(<<1, 1, 0>>) @@ "three" :> RebootMode(<<3, 3, 0>>) @@
    "four" :> RebootMode(<<1, 4, 0>>) @@ "once" :> RebootMode(<<2, 2, 1>>) @@
    "i_bdm" :> Table(<<M("bdm.irx", {"LE"})>>) @@
    "i_dev9_hidden" :> [Table(<<M("dev9_hidden.irx", Both)>>) EXCEPT !.fakes = <<"DEV9.IRX">>] @@
    "bsd-usb" :> Depending(<<M("usbmass_bd_mini.irx", Both)>>, <<"i_bdm">>) @@
    "bsd-ata" :> Depending(<<M("ata_bd.irx", Both)>>, <<"i_bdm", "i_dev9_hidden">>) @@
    "bsd-mmce" :> Table(<<M("mmceman.irx", {"LE"}), M("mmcefhi.irx", {"EE"})>>) @@
    "bsd-udpfs" :> Depending(<<M("udpfs_ioman.irx", {"LE"}), M("udpfs_fhi.irx", {"EE"})>>,
                             <<"i_dev9_hidden">>) @@
    "bsdfs-exfat" :> Table(<<M("bdmfs_fatfs.irx", {"LE"}), FhiBd>>) @@
    "bsdfs-hdl" :> Table(<<M("hdlfs.irx", {"LE"}), FhiBd>>) @@
    "emu-dvd-file" :> Table(<<[M("cdvdman_emu.irx", {"EE"}) EXCEPT !.ioprp = "CDVDMAN"],
                              [M("cdvdfsv.irx", {"EE"}) EXCEPT !.ioprp = "CDVDFSV"]>>) @@
    "emu-mc-file" :> Table(<<M("mc_emu.irx", {"EE"})>>) @@
    "p-membo" :> Table(<<Patch("patch_membo.irx")>>) @@
    "p-uya" :> Table(<<Patch("patch_rc_uya.irx")>>)
MCModes == "0" :> [NoTable EXCEPT !.flags = {"FAST_READ"}] @@
           "2" :> [NoTable EXCEPT !.flags = {"SYNC_READ"}] @@
           "3" :> [NoTable EXCEPT !.flags = {"UNHOOK"}] @@
           "7" :> [NoTable EXCEPT !.depends = <<"p-membo">>]
\* A game with a flag of its own, and one with a patch.
MCGameTables == "BETA" :> [NoTable EXCEPT !.flags = {"DVD_DL"}]
PatchGameTables == MCGameTables @@ "ALPHA" :> [NoTable EXCEPT !.depends = <<"p-uya">>]
MCPathPrefix == "mass0:" :> "mass" @@ "mass1:" :> "mass" @@ "mmce0:" :> "mmce" @@
                "udpfs0:" :> "udpfs" @@ "hdl:" :> "hdl"
MCDriverOfMode == [usb |-> "usbmass_bd_mini.irx", ata |-> "ata_bd.irx", mmce |-> "mmceman.irx",
                   udpfs |-> "udpfs_ioman.irx", hdl |-> "hdlfs.irx", none |-> "no driver"]
MCGameDriver == [usb |-> "usbmass_bd_mini.irx", ata |-> "ata_bd.irx", mmce |-> "mmcefhi.irx",
                 udpfs |-> "udpfs_fhi.irx", hdl |-> "ata_bd.irx"]
MCbsdValues == [ata |-> "ata", mx4sio |-> "mx4sio", udpfs |-> "udpfs", usb |-> "usb",
                ilink |-> "ilink", mmce |-> "mmce", hdl |-> "ata"]
MCCnfVMode == [ALPHA |-> "NTSC", ALPHA2 |-> "none", BETA |-> "PAL", GAMMA |-> "none"]
MCIdRegion == [ALPHA2 |-> "NTSC", GAMMA |-> "PAL"]
MCExtraTitles == [BETA |-> {"CPU_DELAY"}]

-----------------------------------------------------------------------------
\* The option files: of the title alpha, and of a title whose name is longer.
MCTitleFiles == <<[file |-> "alphabet", exact |-> "alphabet", prefixes |-> {"alpha", "alphabet"}],
                  [file |-> "alpha", exact |-> "alpha", prefixes |-> {"alpha"}],
                  [file |-> "beta", exact |-> "beta", prefixes |-> {"beta"}]>>
Directory(globals, alpha) ==
    [name \in {"global", "alpha", "alphabet", "beta"} |->
        CASE name = "global" -> globals [] name = "alpha" -> alpha [] OTHER -> NoFile]
NoFiles == Directory(NoFile, NoFile)
Globals == <<Line("gc", <<"0", "2">>, FALSE), Line("mc0", <<"/card.vmc">>, FALSE)>>
OwnLines == <<Line("gsm", <<"fp1", ":2">>, FALSE), Line("gc", Empty, TRUE)>>

OptionFiles == <<Directory(Globals, OwnLines), NoFiles>>
Keys == {"cross", "up", "down", "l1"}

-----------------------------------------------------------------------------
Drive(drive, driver) == [drive |-> drive, driver |-> driver, deaf |-> FALSE]
MCGiven ==
    [argv |-> FALSE, argMode |-> {}, postfix |-> {}, image |-> <<>>, imageName |-> "",
     noInit |-> FALSE, preloaded |-> {}, root |-> "mass", options |-> {"usb"},
     cwd |-> "mass0:", neutrino |-> {"mass0:"}, unreadable |-> {}, broken |-> {}, ip |-> TRUE,
     drives |-> <<Drive("mass0:", "usb")>>, cards |-> <<>>, server |-> FALSE, hdd |-> "none",
     returnPath |-> <<"hdd">>]
TwoDrives == [MCGiven EXCEPT !.drives = <<Drive("mass0:", "usb"), Drive("mass1:", "ata")>>]
FromCard == [MCGiven EXCEPT !.root = "mc", !.cwd = "mc0:", !.neutrino = {"mc0:"}]
HddOnly == [FromCard EXCEPT !.options = NoOptions, !.drives = <<>>, !.hdd = "+OPL"]
MmceOnly == [FromCard EXCEPT !.options = {"mmce"}, !.drives = <<>>, !.cards = <<"mmce0:">>]
UdpfsOnly == [FromCard EXCEPT !.options = {"udpfs"}, !.drives = <<>>, !.server = TRUE,
                              !.neutrino = {"udpfs0:"}]
FromHdd == [HddOnly EXCEPT !.argv = TRUE, !.argMode = {"hdl"}]
\* A module that does not start, and a neutrino that cannot be read.
NoServer == [FromCard EXCEPT !.options = NoOptions, !.ip = FALSE, !.hdd = "__common",
                             !.unreadable = {"mc0:"}]
Forwarded == [MCGiven EXCEPT !.argv = TRUE, !.argMode = {"usb"},
                             !.image = <<"mass0:", "/beta.iso">>, !.imageName = "beta"]
ForwardedAsIs == [Forwarded EXCEPT !.noInit = TRUE,
                      !.preloaded = {"bdm", "bdmfs_fatfs", "usbmass_bd_mini"}]
AllImages == [drive \in DOMAIN MCTree |->
                 CASE drive = "mass0:" -> {"/alpha.iso", "/beta.iso", "/blank.iso", "/old.iso", "/card.iso"}
                   [] drive = "mass1:" -> {"/gamma.iso", "/alpha.iso"}
                   [] OTHER -> {"/beta.iso"}]
FewImages == [AllImages EXCEPT !["mass0:"] = {"/beta.iso", "/blank.iso"}]
Start(g, images) == [given |-> g, present |-> images]

NoCaches == [drive \in DOMAIN MCTree |-> [cache |-> NoCache, tmp |-> NoCache, legacy |-> NoCache]]
NoDisc == [valid |-> FALSE, id |-> NoId, cnf |-> FALSE, large |-> FALSE, dual |-> FALSE]
MCWorld ==
    [oldRom |-> FALSE, elfId |-> "", romver |-> TRUE, missing |-> {}, broken |-> {},
     disc |-> NoDisc, fullIds |-> MCGameIds, deckard |-> TRUE, xparam2 |-> FALSE,
     region |-> "NTSC", longPaths |-> {}, images |-> MCImages, resident |-> {},
     drives |-> <<>>]
CardWorld == [MCWorld EXCEPT !.oldRom = TRUE, !.elfId = "BETA",
                             !.drives = "mmce0:" :> [mode |-> "mmce", files |-> {"/beta.iso"}]]
NoCards == [slot \in Slots |-> [there |-> FALSE, vmc |-> "", next |-> "", busy |-> FALSE]]
MCCards == [slot \in Slots |-> [there |-> TRUE, vmc |-> "", next |-> "", busy |-> FALSE]]
Op(op) == [op |-> op]
ResetTo(image) == [op |-> "reset", image |-> image]
\* Programs that reset the IOP, twice without need, and start one another.
Chain == <<ResetTo("first"), Op("pad"), ResetTo("again"), Op("load"), ResetTo("second"), Op("pad")>>
Overlays == <<Op("unpack"), Op("thread"), Op("pad"), Op("exec"), Op("pad"), Op("load"), Op("pad")>>
Damage == <<ResetTo("first"), Op("overrun"), Op("load")>>
Plain == [starts |-> <<Start(MCGiven, AllImages)>>, argv |-> <<>>, cacheFile |-> NoCaches,
          files |-> <<NoFiles, NoFiles>>, cards |-> NoCards, cuts |-> 0, resets |-> 0,
          screens |-> 0, inputs |-> 0, keys |-> {}, faults |-> 0, launches |-> 1,
          console |-> MCWorld, play |-> <<Op("pad")>>]
\* Another program starts a game with a mode of resets.
ByProgram(config, play) ==
    [Plain EXCEPT !.argv = <<<<"dvd", <<"mmce0:", "/beta.iso">>>>, <<"cfg", <<config>>>>,
                             <<"igr", <<"mc0:", "LUNA.ELF">>>>, <<"logo", Empty>>>>,
                  !.console = CardWorld, !.play = play]
MCHistories ==
    {\* images come and go between two starts that a power cut may end
     [Plain EXCEPT !.starts = <<Start(TwoDrives, FewImages), Start(TwoDrives, AllImages),
                                Start(TwoDrives, FewImages)>>,
                   !.cuts = 2, !.faults = 1, !.launches = 0],
     \* a game of each kind of drive, and another after it
     [Plain EXCEPT !.starts = <<Start(TwoDrives, AllImages)>>, !.cards = MCCards,
                   !.resets = 1, !.launches = 2],
     [Plain EXCEPT !.starts = <<Start(HddOnly, AllImages)>>, !.resets = 1, !.launches = 2,
                   !.cards = MCCards],
     [Plain EXCEPT !.starts = <<Start(MmceOnly, AllImages)>>, !.cards = MCCards],
     [Plain EXCEPT !.starts = <<Start(UdpfsOnly, AllImages)>>],
     [Plain EXCEPT !.starts = <<Start(FromHdd, AllImages)>>],
     [Plain EXCEPT !.starts = <<Start(NoServer, AllImages)>>],
     [Plain EXCEPT !.starts = <<Start(Forwarded, AllImages)>>],
     [Plain EXCEPT !.starts = <<Start(ForwardedAsIs, AllImages)>>],
     \* games that reset the IOP, in each of the reset modes, and end
     [Plain EXCEPT !.play = Overlays, !.resets = 1],
     [Plain EXCEPT !.play = Damage],
     [ByProgram("fast", Chain) EXCEPT !.resets = 1], ByProgram("three", Chain),
     [ByProgram("four", Chain) EXCEPT !.resets = 1],
     [ByProgram("once", Chain) EXCEPT !.resets = 1],
     [ByProgram("compat", Chain) EXCEPT !.argv = Append(@, <<"gc", <<"3">>>>)],
     \* neutrino is started by another program, which names no driver
     [Plain EXCEPT !.argv = <<<<"dvd", <<"mmce0:", "/beta.iso">>>>, <<"gsm", <<"fp2">>>>>>,
                   !.console = CardWorld],
     [Plain EXCEPT !.argv = <<<<"dvd", <<"mmce0:", "/beta.iso">>>>, <<"logo", Empty>>,
                              <<"elf", <<"BETA.ELF">>>>, <<"-b", Empty>>, <<"arg", Empty>>>>,
                   !.console = CardWorld],
     \* a module of the game is missing
     [Plain EXCEPT !.console.missing = {"cdvdman_emu.irx"}],
     \* options are changed and saved, and a title is launched with them
     [Plain EXCEPT !.files = OptionFiles, !.screens = 2, !.inputs = 3, !.keys = Keys,
                   !.faults = 1, !.cuts = 1, !.launches = 0],
     [Plain EXCEPT !.files = OptionFiles, !.screens = 1, !.inputs = 2, !.keys = Keys]}
PatchHistories == {Plain, [Plain EXCEPT !.starts = <<Start(HddOnly, AllImages)>>]}

-----------------------------------------------------------------------------
\* What TitlesAsOnDisk expects: the images in directories that are searched.
MCSearched == [drive \in DOMAIN MCTree |->
                  CASE drive = "mass0:" -> {"/alpha.iso", "/beta.iso"}
                    [] drive = "mass1:" -> {"/gamma.iso", "/alpha.iso"}
                    [] OTHER -> {"/beta.iso"}]
====

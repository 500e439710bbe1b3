---- MODULE Loader ----
(***************************************************************************)
(* neutrino's loader from its start to the start of the emulation          *)
(* environment (neutrino/ee/loader/src: main.c, config.c, modlist.c,       *)
(* iso_cnf.c, fhi_config.c, ioprp.c, xparam.c).  Without quick boot the    *)
(* IOP is reset half way, and the files of the loader are out of reach     *)
(* from there on.                                                          *)
(*                                                                         *)
(* The settings, which are its configuration files, its command line and   *)
(* the list of modules they add up to, are functions of a record sys that  *)
(* holds the globals sys and drv.  A value is a tuple of tokens, <<>> when *)
(* it is not set.                                                          *)
(***************************************************************************)
EXTENDS Integers, Sequences, SequencesExt

CONSTANTS
    Configs,       \* Configs[name]: the table of config/<name>.toml
    Modes,         \* Modes[digit]: the table MODE<digit> of compat.toml
    GameTables,    \* GameTables[id]: the table of a game in compat.toml
    PathPrefix,    \* PathPrefix[token]: the device name of a path, without its number
    DRV_MAX_MOD, MODULE_SETTINGS_MAX_FAKE_COUNT, MAX_CHEATLIST,
    DriverOfMode,   \* the IRX that serves the drives of a mode
    CnfVMode,       \* CnfVMode[id]: the VMODE of a game's SYSTEM.CNF: "PAL", "NTSC" or "none"
    IdRegion,       \* IdRegion[id]: the region its ID stands for, likewise
    SpecialTitles,  \* IDs that CheckSpecialDiscXParamTitle knows
    ExtraTitles     \* ExtraTitles[id]: the extra parameters of ApplyExtraXParamTitle

VARIABLES
    loader, \* the loader: where it is and what it has found
    xparam, \* the parameters of a DECKARD console that differ from the default
    game    \* what was handed to the game that runs

loaderVars == <<loader, xparam, game>>

-----------------------------------------------------------------------------
(* The settings.                                                           *)

NotSet == <<>>
Yes == <<"on">>
Valued == {"bsd", "bsdfs", "dvd", "ata0", "ata0id", "ata1", "mc0", "mc1", "elf", "gc", "gsm",
           "cfg", "igr"}
Flags == {"dbc", "logo", "qb"}
Tuned == {"media_type", "fs_sectors", "irm", "mod_base"}

\* A table that says nothing.
NoTable == [depends |-> <<>>, settings |-> <<>>, flags |-> {}, cheats |-> <<>>,
            modules |-> <<>>, fakes |-> <<>>]
NoSettings == [ok |-> TRUE, set |-> [key \in Valued \union Flags \union Tuned |-> NotSet],
               flags |-> {}, cheats |-> <<>>, modules |-> <<>>, fakes |-> <<>>,
               configs |-> TRUE]
Refused(sys) == [sys EXCEPT !.ok = FALSE]

-----------------------------------------------------------------------------
(* The list of modules.                                                    *)

modlist_get_by_name(modules, file) == SelectInSeq(modules, LAMBDA m : m.file = file)
\* A module that is added again takes the place of the first, without its data.
modlist_add(sys, m) ==
    LET at == modlist_get_by_name(sys.modules, m.file)
        entry == [m EXCEPT !.data = FALSE]
    IN CASE ~sys.ok -> sys
         [] sys.ok /\ at # 0 -> [sys EXCEPT !.modules[at] = entry]
         [] sys.ok /\ at = 0 /\ Len(sys.modules) >= DRV_MAX_MOD -> Refused(sys)
         [] OTHER -> [sys EXCEPT !.modules = Append(@, entry)]
fakelist_add(sys, fake) ==
    CASE ~sys.ok -> sys
      [] sys.ok /\ Len(sys.fakes) >= MODULE_SETTINGS_MAX_FAKE_COUNT -> Refused(sys)
      [] OTHER -> [sys EXCEPT !.fakes = Append(@, fake)]
AddCheats(old, cheats) ==
    IF Len(cheats) % 2 = 0 /\ Len(old) + Len(cheats) <= MAX_CHEATLIST THEN old \o cheats ELSE old

\* A mutant: the modules of that environment only are read.
modlist_load_only(sys, env, missing) ==
    LET wanted == {i \in DOMAIN sys.modules : sys.modules[i].env = env}
    IN IF \E i \in wanted : sys.modules[i].file \in missing THEN Refused(sys)
       ELSE [sys EXCEPT !.modules =
                [i \in DOMAIN @ |-> IF i \in wanted THEN [@[i] EXCEPT !.data = TRUE] ELSE @[i]]]
\* module_load of the modules of an environment, where the files can be read.
modlist_load(sys, env, missing) ==
    LET wanted == {i \in DOMAIN sys.modules : sys.modules[i].env \intersect env # {}}
    IN IF \E i \in wanted : sys.modules[i].file \in missing THEN Refused(sys)
       ELSE [sys EXCEPT !.modules =
                [i \in DOMAIN @ |-> IF i \in wanted THEN [@[i] EXCEPT !.data = TRUE] ELSE @[i]]]
HasData(sys, file) ==
    \E i \in DOMAIN sys.modules : sys.modules[i].file = file /\ sys.modules[i].data

-----------------------------------------------------------------------------
(* load_config: what a table depends on comes first, then what it says.    *)

Applied(sys, table) ==
    LET said == [sys EXCEPT !.set = [key \in DOMAIN @ |->
                                        IF key \in DOMAIN table.settings
                                        THEN table.settings[key] ELSE @[key]],
                            !.flags = @ \union table.flags,
                            !.cheats = AddCheats(@, table.cheats)]
    IN FoldLeft(fakelist_add, FoldLeft(modlist_add, said, table.modules), table.fakes)
RECURSIVE load_config(_, _)
load_config_file(sys, name) ==
    CASE ~sys.ok -> sys
      [] sys.ok /\ sys.configs /\ name \in DOMAIN Configs -> load_config(sys, Configs[name])
      [] OTHER -> Refused(sys)
load_config(sys, table) ==
    LET below == FoldLeft(load_config_file, sys, table.depends)
    IN IF below.ok THEN Applied(below, table) ELSE below

-----------------------------------------------------------------------------
(* The command line.  After "--b" it is the program's own.                 *)

Break(argv) == SelectInSeq(argv, LAMBDA a : a[1] = "-b")
Options(argv) == IF Break(argv) = 0 THEN argv ELSE SubSeq(argv, 1, Break(argv) - 1)
ElfArguments(argv) == IF Break(argv) = 0 THEN <<>> ELSE SubSeq(argv, Break(argv) + 1, Len(argv))
ParseArgument(sys, a) ==
    CASE ~sys.ok \/ (a[1] = "cwd" /\ a[2] # NotSet) -> sys
      [] sys.ok /\ a[1] \in Valued /\ a[2] # NotSet -> [sys EXCEPT !.set[a[1]] = a[2]]
      [] sys.ok /\ a[1] \in Flags -> [sys EXCEPT !.set[a[1]] = Yes]
      [] OTHER -> Refused(sys)
parse_cmdline_args(sys, argv) == FoldLeft(ParseArgument, sys, Options(argv))

digits == {"0", "1", "2", "3", "4", "5", "6", "7", "8", "9"}
CompatMode(sys, digit) ==
    CASE ~sys.ok \/ digit \notin digits -> Refused(sys)
      [] sys.ok /\ digit \in DOMAIN Modes -> load_config(sys, Modes[digit])
      [] OTHER -> sys
CompatModes(sys) == FoldLeft(CompatMode, sys, sys.set["gc"])
GameTable(sys, id) == IF id \in DOMAIN GameTables THEN load_config(sys, GameTables[id]) ELSE sys

\* parse_gsm_flags: a video mode, a compatibility mode, or both.
gsmModes == {"fp1", "fp2", "1080ix1", "1080ix2", "1080ix3"}
gsmCompat == {":1", ":2", ":3"}
parse_gsm_flags(sys) ==
    LET v == sys.set["gsm"]
        rest == IF v # NotSet /\ Head(v) \in gsmModes THEN Tail(v) ELSE v
    IN IF sys.ok /\ rest # NotSet /\ Head(rest) \notin gsmCompat THEN Refused(sys) ELSE sys

\* bsd_from_path: the driver that a path's device name stands for.
drivers == {"usb", "mx4sio", "ilink", "ata", "udpbd", "mmce", "udpfs"}
IsPath(value) == value # NotSet /\ Head(value) \in DOMAIN PathPrefix
bsd_from_path(sys) ==
    LET paths == SelectSeq(<<"dvd", "ata0", "ata1", "mc0", "mc1">>,
                           LAMBDA key : IsPath(sys.set[key])
                                        /\ PathPrefix[Head(sys.set[key])] \in drivers)
    IN IF sys.ok /\ sys.set["bsd"] = <<"no">> /\ paths # <<>>
       THEN [sys EXCEPT !.set["bsd"] = <<PathPrefix[Head(sys.set[paths[1]])]>>] ELSE sys

-----------------------------------------------------------------------------
(* From the start of main to the load of the modules.  A table of a mode or *)
(* of a game names no file to emulate.                                     *)

Named(prefix, sys, key) == IF IsPath(sys.set[key]) THEN prefix \o "file"
                           ELSE prefix \o sys.set[key][1]
WhenSet(sys, prefix, key) ==
    IF sys.set[key] = <<"no">> THEN sys
    ELSE load_config_file(sys, Named(prefix, sys, key))
EmulatedFile(sys, prefix, keys) ==
    IF \A key \in keys : sys.set[key] = NotSet THEN sys ELSE load_config_file(sys, prefix \o "file")
\* mmce and udpfs have no file system on top.
BackingStore(sys) == WhenSet(sys, "bsd-", "bsd")
FileSystem(sys) ==
    CASE sys.set["bsd"] = <<"no">> -> sys
      [] sys.set["bsd"] \in {<<"mmce">>, <<"udpfs">>} -> [sys EXCEPT !.set["bsdfs"] = <<"no">>]
      [] OTHER -> WhenSet(sys, "bsdfs-", "bsdfs")
UserConfig(sys) ==
    IF sys.ok /\ sys.set["cfg"] # NotSet THEN load_config_file(sys, sys.set["cfg"][1]) ELSE sys

\* A program that is named has its game's table applied at once.
ElfGame(sys, id) == IF sys.set["elf"] = <<"auto">> THEN sys ELSE GameTable(sys, id)
\* The video mode of 576p on a console that lacks it.
UserFlags(sys, oldRom) ==
    [sys EXCEPT !.flags = @ \union (IF sys.set["dbc"] = Yes THEN {"DBC"} ELSE {})
                  \union {f \in {"GSM_NO_576P"} : /\ oldRom /\ sys.set["gsm"] # NotSet
                                                  /\ Head(sys.set["gsm"]) = "fp2"}]
-----------------------------------------------------------------------------
(* The loader.                                                             *)

NoLoader == [at |-> "none"]
NoGame == [runs |-> FALSE]

\* console: what is attached, as the loader finds it, and the modules that run.
Loading(argv, console) ==
    [at |-> "configure", argv |-> argv, world |-> console, sys |-> NoSettings,
     started |-> {}, next |-> 1, id |-> "", files |-> <<>>]
Is(step) == loader.at = step
Continues(l) == loader' = l /\ UNCHANGED <<xparam, game>>
Exits == Continues([loader EXCEPT !.at = "exited"])

sys == loader.sys
world == loader.world
QuickBoot == sys.set["qb"] = Yes
GameIdOf(id) == IF id \in world.fullIds THEN id ELSE ""

-----------------------------------------------------------------------------
(* The boot environment, and the reset into the load environment.          *)

Stage(from, to, s) ==
    /\ Is(from)
    /\ IF s.ok THEN Continues([loader EXCEPT !.sys = s, !.at = to]) ELSE Exits
LoadSystem ==
    Stage("configure", "arguments",
          IF world.romver THEN load_config_file(NoSettings, "system") ELSE Refused(NoSettings))
ParseArguments == Stage("arguments", "compat", parse_cmdline_args(sys, loader.argv))
LoadCompat == Stage("compat", "user", load_config_file(sys, "compat"))
LoadUser == Stage("user", "driver", UserConfig(sys))
DetectDriver == Stage("driver", "modes", bsd_from_path(sys))
LoadModes == Stage("modes", "game", CompatModes(sys))
LoadElfGame == Stage("game", "flags", ElfGame(sys, world.elfId))
ParseGsm == Stage("flags", "store", parse_gsm_flags(UserFlags(sys, world.oldRom)))
LoadStore == Stage("store", "file system", BackingStore(sys))
LoadFileSystem == Stage("file system", "dvd", FileSystem(sys))
LoadDvd == Stage("dvd", "ata", WhenSet(sys, "emu-dvd-", "dvd"))
LoadAta == Stage("ata", "mc", EmulatedFile(sys, "emu-ata-", {"ata0", "ata1"}))
LoadMc == Stage("mc", "files to load", EmulatedFile(sys, "emu-mc-", {"mc0", "mc1"}))
Configure ==
    \/ LoadSystem \/ ParseArguments \/ LoadCompat \/ LoadUser \/ DetectDriver \/ LoadModes
    \/ LoadElfGame \/ ParseGsm \/ LoadStore \/ LoadFileSystem \/ LoadDvd \/ LoadAta \/ LoadMc
\* The modules are read, and without quick boot the IOP is reset.
LoadModules ==
    LET loaded == modlist_load(sys, IF QuickBoot THEN {"EE"} ELSE {"LE", "EE"}, world.missing)
    IN /\ Is("files to load")
       /\ IF ~loaded.ok THEN Exits
          ELSE Continues([loader EXCEPT !.sys = [loaded EXCEPT !.configs = QuickBoot],
                                        !.started = IF QuickBoot THEN world.resident ELSE {},
                                        !.at = IF QuickBoot THEN "image" ELSE "modules"])
StartModule ==
    LET m == sys.modules[loader.next]
    IN /\ Is("modules") /\ loader.next <= Len(sys.modules)
       /\ CASE "LE" \notin m.env -> Continues([loader EXCEPT !.next = @ + 1])
            [] "LE" \in m.env /\ m.file \in world.broken -> Exits
            [] OTHER -> Continues([loader EXCEPT !.next = @ + 1, !.started = @ \union {m.file}])
ModulesStarted ==
    /\ Is("modules") /\ loader.next > Len(sys.modules)
    /\ Continues([loader EXCEPT !.at = "image"])

-----------------------------------------------------------------------------
(* The image, its SYSTEM.CNF, and the table of the game.                   *)

fhiModules == <<"fhi_bd.irx", "mmcefhi.irx", "udpfs_fhi.irx">>
\* fhi_config_init: the first of the back ends that is loaded.
fhi_config_init(s) == SelectSeq(fhiModules, LAMBDA f : HasData(s, f))
\* A file opens when its drive is served and it is there.
Opens(path) ==
    /\ path[1] \in DOMAIN world.drives
    /\ DriverOfMode[world.drives[path[1]].mode] \in loader.started
    /\ path[2] \in world.drives[path[1]].files
Registered(fid, path) == [loader EXCEPT !.files = Append(@, <<fid, path>>)]

HasImage == IsPath(sys.set["dvd"])
ImageWorks ==
    /\ fhi_config_init(sys) # <<>> /\ HasData(sys, "cdvdman_emu.irx")
    /\ Opens(sys.set["dvd"]) /\ world.images[sys.set["dvd"]].valid
setup_dvd_iso ==
    /\ Is("image")
    /\ CASE ~HasImage -> Continues([loader EXCEPT !.at = "cnf"])
         [] HasImage /\ ImageWorks ->
               Continues([Registered("CDVD", sys.set["dvd"]) EXCEPT !.at = "cnf"])
         [] OTHER -> Exits

\* read_system_cnf, of the image or of the disc in the drive.
Disc == IF HasImage THEN world.images[sys.set["dvd"]] ELSE world.disc
Auto == sys.set["elf"] = <<"auto">>
SystemCnf ==
    LET id == IF Auto THEN GameIdOf(Disc.id) ELSE GameIdOf(world.elfId)
        done == IF Auto THEN GameTable(sys, id) ELSE sys
    IN /\ Is("cnf")
       /\ IF (Auto /\ ~Disc.cnf) \/ ~done.ok THEN Exits
          ELSE Continues([loader EXCEPT !.sys = done, !.id = id, !.at = "xparams"])

-----------------------------------------------------------------------------
(* The parameters of a DECKARD console stay when the IOP is reset.         *)

DCacheOff == {"DCACHE_OFF"}
Applies(id) ==
    IF id \in SpecialTitles THEN {<<id, p>> : p \in DCacheOff}
    ELSE {<<id, "ROM">>} \union
         (IF id \in DOMAIN ExtraTitles THEN {<<id, p>> : p \in ExtraTitles[id]} ELSE {})
ResetDeckardXParams(params) == IF world.xparam2 THEN params ELSE {}
ApplyDeckardXParam(params, id) ==
    IF world.xparam2 THEN {<<id, "ROM2">>} ELSE params \union Applies(id)
XParams ==
    /\ Is("xparams")
    /\ xparam' = IF world.deckard THEN ApplyDeckardXParam(ResetDeckardXParams(xparam), loader.id)
                 ELSE xparam
    /\ loader' = [loader EXCEPT !.at = "files"]
    /\ UNCHANGED game

\* fhi_add_file of the drives and cards that files stand for.
Emulated == <<"ata0", "ata0id", "ata1", "mc0", "mc1">>
FilesToAdd ==
    SelectSeq(Emulated, LAMBDA key : /\ sys.set[key] # NotSet
                                     /\ key = "ata0id" => sys.set["ata0"] # NotSet)
AddFiles ==
    LET keys == FilesToAdd
        works == keys = <<>> \/ (fhi_config_init(sys) # <<>>
                                 /\ \A i \in DOMAIN keys : Opens(sys.set[keys[i]]))
    IN /\ Is("files")
       /\ IF works
          THEN Continues([loader EXCEPT !.at = "run",
                                   !.files = @ \o [i \in DOMAIN keys |->
                                                      <<keys[i], sys.set[keys[i]]>>]])
          ELSE Exits

-----------------------------------------------------------------------------
(* The start of the emulation environment.                                 *)

\* The logo, when the regions are the same, or both known.
Region(id) ==
    IF Auto /\ CnfVMode[Disc.id] # "none" THEN CnfVMode[Disc.id]
    ELSE IF id \in DOMAIN IdRegion THEN IdRegion[id] ELSE "none"
ConsolePAL == world.region = "PAL"
LogoShown(id) ==
    /\ sys.set["logo"] = Yes
    /\ \/ ConsolePAL = (Region(id) = "PAL")
       \/ world.region # "none" /\ Region(id) # "none"
LogoFlags(id) ==
    IF ~LogoShown(id) THEN {}
    ELSE {f \in {"LOGO_PATCH", "LOGO_PAL"} :
             IF f = "LOGO_PATCH" THEN ConsolePAL # (Region(id) = "PAL") ELSE Region(id) = "PAL"}

Media ==
    IF sys.set["media_type"] # NotSet THEN sys.set["media_type"][1]
    ELSE IF Disc.large THEN "dvd" ELSE "cd"

\* build_irx_table: the image of replaced modules first, then IMGDRV, UDNL and
\* the others by their load order.
ioprp == IF HasImage THEN <<"CDVDMAN", "CDVDFSV", "EESYNC">> ELSE <<"EESYNC">>
patch_IOPRP_image ==
    LET Replacing(name) == SelectSeq(sys.modules, LAMBDA m : m.ioprp = name)
    IN [i \in DOMAIN ioprp |->
           IF Replacing(ioprp[i]) = <<>> THEN ioprp[i] ELSE Replacing(ioprp[i])[1].file]
ByFunction(f) ==
    LET at == SelectInSeq(sys.modules, LAMBDA m : m.func = f)
    IN IF at = 0 THEN <<>> ELSE <<sys.modules[at]>>
InTable(m) == "EE" \in m.env /\ m.ioprp = "" /\ m.func \notin {"IMGDRV", "UDNL"}
Installed(m) == [file |-> m.file, data |-> m.data, order |-> m.order]
InOrder(order) == SelectSeq(sys.modules, LAMBDA m : InTable(m) /\ m.order = order)
Sorted == FlattenSeq([n \in 1 .. 41 |-> InOrder(n - 1)])
build_irx_table ==
    LET functions == ByFunction("IMGDRV") \o ByFunction("UDNL")
        all == functions \o Sorted
    IN [i \in DOMAIN all |-> Installed(all[i])]

IgrWorks ==
    \/ sys.set["igr"] = NotSet
    \/ /\ sys.set["igr"] = <<"hdd">> \/ Head(sys.set["igr"]) \in {"mc0:", "mc1:"}
       /\ sys.set["igr"] \notin world.longPaths
FakesWork == sys.fakes = <<>> \/ HasData(sys, "fakemod.irx")
ExecPS2 ==
    /\ Is("run")
    /\ IF ~FakesWork \/ ~IgrWorks THEN Exits
       ELSE /\ game' = [runs |-> TRUE, id |-> loader.id, files |-> loader.files,
                        flags |-> sys.flags \union LogoFlags(loader.id),
                        gsm |-> sys.set["gsm"], igr |-> sys.set["igr"],
                        cheats |-> sys.cheats, ioprp |-> patch_IOPRP_image,
                        table |-> build_irx_table, fakes |-> sys.fakes,
                        media |-> IF HasImage THEN Media ELSE "disc",
                        irm |-> sys.set["irm"], mod_base |-> sys.set["mod_base"],
                        fs_sectors |-> IF HasImage THEN sys.set["fs_sectors"] ELSE NotSet,
                        layer1 |-> HasImage /\ Disc.dual,
                        argv |-> (IF LogoShown(loader.id) THEN <<"rom0:PS2LOGO">> ELSE <<>>)
                                 \o <<IF Auto THEN Disc.id ELSE sys.set["elf"][1]>>
                                 \o ElfArguments(loader.argv)]
            /\ loader' = NoLoader
            /\ UNCHANGED xparam

LoaderStep ==
    \/ Configure \/ LoadModules \/ StartModule \/ ModulesStarted \/ setup_dvd_iso \/ SystemCnf
    \/ XParams \/ AddFiles \/ ExecPS2
====

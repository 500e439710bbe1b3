---- MODULE EeCore ----
(***************************************************************************)
(* neutrino's EE core under a game (neutrino/ee/ee_core/src: main.c,       *)
(* iopmgr.c, asm.S, padhook.c, luna_igr_rpc.c).  It loads every program of *)
(* the game in EELOAD's place, carries out the IOP resets that the game    *)
(* asks for so that the emulation is there again afterwards, and watches   *)
(* the pad for the combination that leaves the game.                       *)
(***************************************************************************)
EXTENDS Loader

VARIABLE core \* the EE core, the IOP below it and the program above it

\* What the IOP reports in SMFLAG when it is up, and two registers of the kernel.
SmFlags == {"BOOTEND", "SIFINIT", "CMDINIT"}
Registers == SmFlags \union {"RPCINIT", "SUBADDR"}

\* An IOP that boots: its flags come when it is up.  modules: "rom", those of
\* the image of replaced modules, or all of the table.
Boots(modules, image) == [modules |-> modules, image |-> image, flags |-> {}]
\* lib: the program's pad library is in memory; patched: its calls are hooked;
\* thread: the IGR thread and the handler exist; known: their IDs are kept.
NoPad == [lib |-> FALSE, patched |-> FALSE, thread |-> FALSE, known |-> FALSE, buf |-> FALSE,
          opened |-> FALSE, padOpen_hooked |-> FALSE]
NoCore == [at |-> "none"]
\* play: what the programs do; asked: the resets since EELOAD.
Core(argv, play) ==
    [at |-> "first", argv |-> argv, play |-> play, asked |-> <<>>, pad |-> NoPad,
     iop |-> [modules |-> "load environment", image |-> "", flags |-> Registers],
     iopstate |-> 0, resetcount |-> 0, eeload_prev |-> FALSE, eeload |-> FALSE,
     todo |-> <<>>, set_reg_hook |-> 0, get_reg_hook |-> 0, hooked |-> FALSE, intact |-> TRUE]
\* A game's sceSifResetIop: BOOTEND is cleared, the reset is sent, four registers
\* are cleared; then sceSifSyncIop polls.
NextCall == [BOOTEND |-> "dma", SIFINIT |-> "CMDINIT", CMDINIT |-> "RPCINIT",
             RPCINIT |-> "SUBADDR", SUBADDR |-> "sync"]
At(step) == core.at = step
Goes(c) == core' = c /\ UNCHANGED loaderVars

iop_rm == IF game.irm = NotSet THEN <<0, 0, 0>> ELSE game.irm
Unhooks == "UNHOOK" \in game.flags
Igr == game.igr # NotSet /\ ~Unhooks

-----------------------------------------------------------------------------
(* The reset of the IOP: 1 to its ROM, 2 with neutrino's modules, 3 with   *)
(* the game's image below them.                                            *)

EeloadReboots ==
    CASE iop_rm[1] = 1 /\ core.resetcount = 0 -> <<2>>
      [] iop_rm[1] = 2 -> <<2>>
      [] iop_rm[1] = 3 -> <<1, 2>>
      [] OTHER -> <<>>
GameReboots ==
    CASE iop_rm[2] = 1 \/ (iop_rm[2] \in {2, 3} /\ core.iopstate = 2) -> <<3>>
      [] iop_rm[2] = 2 /\ core.iopstate # 2 -> <<2, 3>>
      [] iop_rm[2] = 4 \/ (iop_rm[2] = 3 /\ core.iopstate # 2) -> <<1, 2, 3>>
      [] OTHER -> <<>>
Ignored(eeload) == iop_rm[3] = 1 /\ ~core.eeload_prev /\ ~eeload
\* After the reset: the ELF is loaded, or the game's call returns.
Rebooted(c) == IF c.eeload THEN [c EXCEPT !.at = "elf"]
               ELSE [c EXCEPT !.at = "SIFINIT", !.set_reg_hook = 4, !.get_reg_hook = 1]
Reboots(c, todo) ==
    CASE todo = <<>> -> Rebooted(c)
      [] todo # <<>> /\ c.intact -> [c EXCEPT !.at = "reboots", !.todo = todo]
      [] OTHER -> [c EXCEPT !.at = "flashing"]
\* A mutant: eeload_prev stays as it is.
ForgetsEeload(c, eeload) ==
    Reboots([c EXCEPT !.eeload = eeload],
            IF Ignored(eeload) THEN <<>> ELSE IF eeload THEN EeloadReboots ELSE GameReboots)
New_Reset_Iop2(c, eeload) ==
    Reboots([c EXCEPT !.eeload = eeload, !.eeload_prev = eeload],
            IF Ignored(eeload) THEN <<>> ELSE IF eeload THEN EeloadReboots ELSE GameReboots)

\* Reset_Iop, or New_Reset_Iop up to the boot.
Reboot ==
    /\ At("reboots") /\ core.todo # <<>>
    /\ Goes([core EXCEPT !.at = "booting", !.iop =
                CASE Head(core.todo) = 1 -> Boots("rom", "")
                  [] Head(core.todo) = 2 -> Boots("ioprp", "")
                  [] OTHER -> Boots("ioprp", Last(core.asked))])
\* It takes longer to boot than the EE to clear the flags.
IopBoots ==
    /\ core.at \notin {"none"} \union DOMAIN NextCall /\ core.iop.flags = {}
    /\ Goes([core EXCEPT !.iop.flags = SmFlags])
\* services_start, and the modules from the fourth on.
Booted ==
    /\ At("booting") /\ core.iop.flags # {}
    /\ Goes([core EXCEPT !.at = "reboots", !.todo = Tail(@), !.iopstate = Head(core.todo),
                         !.iop.flags = Registers,
                         !.iop.modules = IF Head(core.todo) = 1 THEN "rom" ELSE "table"])
ResetDone ==
    /\ At("reboots") /\ core.todo = <<>>
    /\ Goes(Rebooted([core EXCEPT !.resetcount = @ + 1]))

-----------------------------------------------------------------------------
(* The pad.  The kernel ends all threads, and their handlers, when a       *)
(* program is started.                                                     *)

\* Before EELOAD; the core's own memory stays.
ProgramGone(pad) ==
    [pad EXCEPT !.lib = FALSE, !.patched = FALSE, !.thread = FALSE, !.opened = FALSE]
\* A mutant: the IDs of the thread and the handler stay.
KeepsIds(pad) == [pad EXCEPT !.padOpen_hooked = FALSE]
Reset_Padhook(pad) == [pad EXCEPT !.known = FALSE, !.padOpen_hooked = FALSE]
\* A call that is hooked already is not found again.
Install_PadOpen_Hook(pad) ==
    [pad EXCEPT !.patched = @ \/ pad.lib, !.padOpen_hooked = pad.lib /\ ~pad.patched]
Install_IGR(pad) ==
    [pad EXCEPT !.buf = FALSE, !.known = TRUE, !.thread = @ \/ ~pad.known]
\* The program that starts; Hook_ExecPS2 searches it.
Hook_ExecPS2(pad) ==
    LET new == [pad EXCEPT !.thread = FALSE, !.opened = FALSE]
    IN IF Igr THEN Install_PadOpen_Hook(Reset_Padhook(new)) ELSE new
Watched(pad) == pad.buf /\ pad.thread

-----------------------------------------------------------------------------
(* main: the first time, and for every program.                            *)

Install_Kernel_Hooks ==
    /\ At("first")
    /\ Goes([core EXCEPT !.at = "eeload", !.hooked = TRUE])
MainAgain ==
    /\ At("eeload")
    /\ Goes(New_Reset_Iop2([core EXCEPT !.asked = <<>>, !.pad =
           IF game.igr # NotSet THEN Reset_Padhook(ProgramGone(@)) ELSE ProgramGone(@)], TRUE))
ElfLoads ==
    Head(core.argv) = "rom0:PS2LOGO" \/ core.iop.modules = "table" \/ game.files = <<>>
LoadElf ==
    /\ At("elf")
    /\ \E lib \in BOOLEAN :
         LET found == [core.pad EXCEPT !.lib = lib]
         IN Goes(IF ~ElfLoads THEN [core EXCEPT !.at = "failed"]
                 ELSE [core EXCEPT !.at = "program", !.pad = Hook_ExecPS2(
                          IF Igr THEN Install_PadOpen_Hook(Install_IGR(found)) ELSE found)])

-----------------------------------------------------------------------------
(* The programs of the game.                                               *)

Does(op) == /\ At("program") /\ Head(core.argv) # "rom0:PS2LOGO"
            /\ core.play # <<>> /\ Head(core.play).op = op
Done == [core EXCEPT !.play = Tail(@)]
LogoEnds ==
    /\ At("program") /\ Head(core.argv) = "rom0:PS2LOGO"
    /\ Goes([core EXCEPT !.at = "eeload", !.argv = Tail(@)])
LoadExecPS2 == Does("load") /\ Goes([Done EXCEPT !.at = "eeload"])
\* The program unpacks another one, with a pad library or without, and starts it.
ExecProgram ==
    /\ Does("exec")
    /\ \E lib \in BOOLEAN :
         Goes([Done EXCEPT !.pad = Hook_ExecPS2([@ EXCEPT !.lib = lib, !.patched = FALSE])])
\* It unpacks its pad library, starts a thread of low priority, opens the pad.
Unpack == Does("unpack") /\ Goes([Done EXCEPT !.pad.lib = TRUE, !.pad.patched = FALSE])
Hook_CreateThread ==
    /\ Does("thread")
    /\ Goes(IF ~Igr \/ core.pad.padOpen_hooked THEN Done
            ELSE [Done EXCEPT !.pad = Install_PadOpen_Hook(@)])
OpenPad ==
    /\ Does("pad")
    /\ Goes(IF ~core.pad.patched THEN Done
            ELSE [Done EXCEPT !.pad = [Install_IGR(@) EXCEPT !.buf = TRUE, !.opened = TRUE]])
\* The handler takes a frame number that does not move for a pad that is gone.
Vblank ==
    /\ At("program") /\ Watched(core.pad)
    /\ Goes([core EXCEPT !.pad.padOpen_hooked = ~@])
\* It writes past a buffer, into the modules that are kept for the next reset.
Overrun == Does("overrun") /\ Goes([Done EXCEPT !.intact = FALSE])

ResetCall ==
    /\ Does("reset")
    /\ Goes([Done EXCEPT !.at = "BOOTEND", !.asked = Append(@, Head(core.play).image)])
Awaited == <<"SUBADDR", "RPCINIT", "CMDINIT", "SIFINIT">>
\* A mutant: the start of a reset is passed on.
SwallowedLater(register) ==
    core.hooked /\ core.set_reg_hook # 0 /\ register = Awaited[core.set_reg_hook]
Swallowed(register) ==
    /\ core.hooked
    /\ IF core.set_reg_hook = 0 THEN register = "BOOTEND"
       ELSE register = Awaited[core.set_reg_hook]
Hook_SifSetReg(register) ==
    CASE Swallowed(register) ->
           [core EXCEPT !.set_reg_hook = IF @ = 0 THEN 0 ELSE @ - 1,
                        !.hooked = ~(Unhooks /\ core.set_reg_hook = 1)]
      [] core.hooked /\ core.set_reg_hook # 0 /\ ~Swallowed(register) ->
           [core EXCEPT !.at = "flashing"]
      [] OTHER -> [core EXCEPT !.iop.flags = @ \ {register}]
SetReg ==
    /\ core.at \in DOMAIN NextCall
    /\ LET after == Hook_SifSetReg(core.at)
       IN Goes(IF after.at = "flashing" THEN after ELSE [after EXCEPT !.at = NextCall[@]])
\* Without the hook the IOP resets itself to its ROM and the game's image.
Hook_SifSetDma ==
    /\ At("dma")
    /\ Goes(IF core.hooked THEN New_Reset_Iop2(core, FALSE)
            ELSE [core EXCEPT !.at = "SIFINIT", !.iop = Boots("rom", Last(core.asked))])
\* Hook_SifGetReg answers the first poll; the game starts its RPC when the IOP is up.
Sync ==
    /\ At("sync")
    /\ IF core.hooked /\ core.get_reg_hook = 1 THEN Goes([core EXCEPT !.get_reg_hook = 0])
       ELSE /\ SmFlags \subseteq core.iop.flags
            /\ Goes([core EXCEPT !.at = "program", !.iop.flags = Registers])

-----------------------------------------------------------------------------
(* The way out of the game.                                                *)

InGame ==
    \/ core.at \in {"program", "dma", "sync"} \union DOMAIN NextCall
    \/ core.at \in {"reboots", "booting"} /\ ~core.eeload
\* IGR_Intc_Handler: all other threads are suspended.
IGR_Intc_Handler ==
    /\ InGame /\ Watched(core.pad)
    /\ Goes([core EXCEPT !.at = "shutdown"])
\* lunaIGRShutdown is answered by neutrino's cdvdfsv only.
lunaIGRShutdown ==
    /\ At("shutdown") /\ core.iop.flags # {}
    /\ Goes([core EXCEPT !.at = IF core.iop.modules = "rom" THEN "failed" ELSE "leaving"])
\* Reset_Iop reads a register through the hook.
IGR_Reset ==
    /\ At("leaving")
    /\ Goes(IF core.hooked /\ core.get_reg_hook # 0 THEN [core EXCEPT !.at = "flashing"]
            ELSE [core EXCEPT !.at = "left", !.iop = Boots("rom", ""), !.hooked = FALSE])
\* The launcher may not be on the memory card.
luna_return_home ==
    /\ At("left") /\ core.iop.flags # {}
    /\ \E end \in IF game.igr = <<"hdd">> THEN {"home"} ELSE {"home", "failed"} :
         Goes([core EXCEPT !.at = end])

CoreEnded == {"none", "failed", "flashing"}
CoreWorks ==
    CASE At("program") -> Head(core.argv) = "rom0:PS2LOGO"
      [] At("sync") -> core.get_reg_hook = 1 \/ SmFlags \subseteq core.iop.flags \/ core.iop.flags = {}
      [] OTHER -> core.at \notin CoreEnded
CoreStep ==
    \/ Install_Kernel_Hooks \/ MainAgain \/ Reboot \/ IopBoots \/ Booted \/ ResetDone \/ LoadElf
    \/ LogoEnds \/ SetReg \/ Hook_SifSetDma \/ Sync
    \/ lunaIGRShutdown \/ IGR_Reset \/ luna_return_home
ProgramStep ==
    \/ LoadExecPS2 \/ ExecProgram \/ Unpack \/ Hook_CreateThread \/ OpenPad \/ Vblank \/ Overrun
    \/ ResetCall
====

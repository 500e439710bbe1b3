---- MODULE Storage ----
(***************************************************************************)
(* The storage of the menu and of a game, put together: a caller of file   *)
(* and sector reads and the memory card driver share, with the pads, the   *)
(* SIO2 port to a memory card emulator, or a drive with its fragment       *)
(* lists.  The caller keeps for each handle the file and the position it   *)
(* believes in.                                                            *)
(***************************************************************************)
EXTENDS McEmu

CONSTANTS
    Sizes,    \* the sizes of reads and writes: [elements, pio]
    Runs,     \* the sectors of the disc that are read: [sector, count]
    Positions \* where the caller seeks to, in units

VARIABLE disc \* the caller: what it believes of each handle, its calls so far

\* A handle is an entry of mmce_fs_fds, a file descriptor of the card in a
\* game, or one of the two file systems of the loader.
HdlHandle == MaxFd + 1
BdfsHandle == MaxFd + 2
Handles == 1 .. BdfsHandle

vars == <<sio2Vars, pad, call, left, mmceVars, driveVars, mc, shadow, disc>>

Closed == [file |-> "", pos |-> 0]
Opened(file) == [file |-> file, pos |-> 0]
IsoSectors == ToSet(Layout["iso"])
Original ==
    [s \in UNION {ToSet(Layout[f]) : f \in Files} |->
        LET file == CHOOSE f \in Files : s \in ToSet(Layout[f])
            nth == SelectInSeq(Layout[file], LAMBDA x : x = s) - 1
        IN [j \in 1 .. SectorUnits |->
              IF file = "iso" THEN <<"iso", nth * SectorUnits + j>> ELSE <<"page", nth, j, 0>>]]


\* left.open: the files that were opened before.
Init ==
    /\ left \in Histories
    /\ Sio2Init /\ DriveInit
    /\ disk = Original
    /\ MmceInit
    /\ McEmuInit
    /\ call = [t \in Callers |-> NoCall]
    /\ disc = [at |-> [h \in Handles |->
                        IF h \in DOMAIN left.open THEN Opened(left.open[h]) ELSE Closed],
               calls |-> 0]

-----------------------------------------------------------------------------
(* The caller.  It reads and writes open files, where it knows to be and   *)
(* not past their end, and never writes the disc image.                    *)

Asks(op) ==
    /\ call["disc"].pc = "idle" /\ disc.calls < left.calls /\ op \in left.ops
    /\ disc' = [disc EXCEPT !.calls = @ + 1]
IsOpen(h) == disc.at[h].file # ""
Fits(h, n) == IsOpen(h) /\ disc.at[h].pos >= 0 /\ disc.at[h].pos + n <= FileSize(disc.at[h].file)

\* A call of the manager (handle: its entry) or of the game's driver (handle:
\* the card's file descriptor).
Sends(op, h, file, arg, elements, pio) ==
    LET data == [i \in 1 .. elements + pio |-> <<"mine", disc.calls, i>>] IN
    call' = [call EXCEPT !["disc"] =
        IF op \in DOMAIN exp_mmcedrv THEN Mmce(op, 0, h, file, arg, elements, pio, data)
                                     ELSE Mmce(op, h, 0, file, arg, elements, pio, data)]

MmceCall(op) ==
    /\ Asks(op)
    /\ \/ /\ op \in Opens
          /\ \E file \in Files : Sends(op, 0, file, 0, 0, 0)
       \/ /\ op \in {"mmce_fs_read", "mmce_fs_write", "mmcedrv_read", "mmcedrv_write"}
          /\ \E h \in 1 .. MaxFd, size \in Sizes :
                /\ Fits(h, size.elements + size.pio)
                /\ op \in Writes => disc.at[h].file # "iso"
                /\ Sends(op, h, disc.at[h].file, 0, size.elements, size.pio)
       \/ /\ op = "mmcedrv_read_sector"
          /\ \E h \in 1 .. MaxFd, r \in Runs :
                /\ disc.at[h].file = "iso"
                /\ Sends(op, h, "iso", r.sector, r.count * SectorUnits, 0)
       \/ /\ op \in Seeks
          /\ \E h \in 1 .. MaxFd, to \in Positions :
                IsOpen(h) /\ Sends(op, h, disc.at[h].file, to, 0, 0)
       \/ /\ op \in Closes \union {"mmce_fs_dread", "mmcedrv_get_size"}
          /\ \E h \in 1 .. MaxFd : IsOpen(h) /\ Sends(op, h, disc.at[h].file, 0, 0, 0)
       \/ /\ op \in DOMAIN mmce_fs_devctl \union
                    {"mmce_fs_remove", "mmce_fs_mkdir", "mmce_fs_rmdir", "mmce_fs_getstat"}
          /\ Sends(op, 0, "", 0, 0, 0)
    /\ UNCHANGED <<sio2Vars, pad, left, mmceVars, driveVars, mc, shadow>>

\* The loader opens one game and one partition.
HdlCall ==
    /\ \/ \E name \in {"iso", "none"} :
            ~IsOpen(HdlHandle) /\ Asks("hdl_open") /\ hdl_open("disc", name)
       \/ \E to \in {<<p, "SET">> : p \in Positions} \union {<<1, "CUR">>, <<-2, "END">>} :
            IsOpen(HdlHandle) /\ Asks("hdl_lseek64")
            /\ hdl_lseek64("disc", to[1], to[2]) /\ UNCHANGED left
       \/ \E size \in Sizes :
            Fits(HdlHandle, size.elements) /\ Asks("hdl_read") /\ hdl_read("disc", size.elements)
    /\ UNCHANGED <<sio2Vars, pad, mmceVars, bdfs, fhi, g_bd, bdm_io_sema, mc, shadow>>

BdfsCall ==
    /\ \/ \E found \in BOOLEAN :
            ~IsOpen(BdfsHandle) /\ Asks("bdfs_open") /\ bdfs_open("disc", found) /\ UNCHANGED left
       \/ \E to \in {<<p, "SET">> : p \in Positions} \union {<<1, "CUR">>, <<-2, "END">>} :
            IsOpen(BdfsHandle) /\ Asks("bdfs_lseek64")
            /\ bdfs_lseek64("disc", to[1], to[2]) /\ UNCHANGED left
       \/ \E size \in Sizes :
            Fits(BdfsHandle, size.elements) /\ Asks("bdfs_read") /\ bdfs_read("disc", size.elements)
    /\ UNCHANGED <<sio2Vars, pad, mmceVars, hdl, fhi, g_bd, bdm_io_sema, mc, shadow>>

\* The game reads sectors of the disc.
FhiCall ==
    /\ Asks("fhi_read")
    /\ \E r \in Runs :
          call' = [call EXCEPT !["disc"] = Fhi("fhi_read", "iso", r.sector, r.count, <<>>)]
    /\ UNCHANGED <<sio2Vars, pad, left, mmceVars, driveVars, mc, shadow>>

HandleOf(c) ==
    CASE c.op \in {"hdl_open", "hdl_lseek64", "hdl_read"} -> HdlHandle
      [] c.op \in {"bdfs_open", "bdfs_lseek64", "bdfs_read"} -> BdfsHandle
      [] c.op \in DOMAIN exp_mmcedrv -> c.fd
      [] OTHER -> c.slot
FileOf(c) ==
    CASE HandleOf(c) = HdlHandle -> "iso" [] HandleOf(c) = BdfsHandle -> "vmc" [] OTHER -> c.file
Transfers == {"hdl_read", "bdfs_read", "fhi_read"} \union Reads \union Writes
From(c) == IF c.op \in {"mmcedrv_read_sector", "fhi_read"} THEN c.arg * SectorUnits
           ELSE disc.at[HandleOf(c)].pos

\* After a call the caller is where it was told to be; after an error it does
\* not know, and a file that could not be opened, or was closed, is gone.
Believed(c, at) ==
    CASE c.op \in Opens \union {"hdl_open", "bdfs_open"} ->
            IF c.res < 0 THEN Closed ELSE Opened(FileOf(c))
      [] c.op \in Closes -> Closed
      [] c.op \in Seeks \union {"mmcedrv_get_size", "hdl_lseek64", "bdfs_lseek64"} ->
            [at EXCEPT !.pos = c.res]
      [] c.op \in Transfers -> [at EXCEPT !.pos = IF c.res < 0 THEN -1 ELSE From(c) + c.res]
      [] OTHER -> at

DiscReturns ==
    /\ call["disc"].pc = "done"
    /\ LET c == call["disc"] IN
       disc' = [disc EXCEPT !.at = [h \in Handles |->
                    IF h = HandleOf(c) THEN Believed(c, @[h]) ELSE @[h]]]
    /\ call' = [call EXCEPT !["disc"] = NoCall]
    /\ UNCHANGED <<sio2Vars, pad, left, mmceVars, driveVars, mc, shadow>>

-----------------------------------------------------------------------------

PadStep ==
    /\ PadTransferInit \/ PadTransfer \/ PadTransferDone \/ PadTransferReset
    /\ UNCHANGED <<mmceVars, driveVars, mc, shadow, disc>>
PortStep ==
    /\ mmce_sio2_intr_handler \/ Sio2manInterrupt \/ mmce_sio2_timeout_handler
    /\ UNCHANGED <<mmceVars, driveVars, mc, shadow, disc>>
CallStep ==
    /\ \E t \in Callers : (MmceStep(t) /\ UNCHANGED driveVars) \/ FhiStep(t)
    /\ UNCHANGED <<mc, shadow, disc>>
DriveStep ==
    /\ bdm_connect_bd \/ bdm_disconnect_bd
    /\ UNCHANGED <<mc, shadow, disc>>

Next ==
    \/ PadStep \/ PortStep \/ CallStep \/ DriveStep
    \/ CardStep /\ UNCHANGED disc
    \/ \E op \in left.ops : MmceCall(op)
    \/ HdlCall \/ BdfsCall \/ FhiCall \/ DiscReturns

\* Everything that is asked for is finite; the system goes on while it can,
\* and a drive that was unplugged is plugged in again.
Spec == Init /\ [][Next]_vars /\ WF_vars(Next)

-----------------------------------------------------------------------------

\* A transfer ends at the one who started it: while the pads have the port
\* sio2man's handler is in, while the MMCE drivers have it theirs is; no bit
\* and no alarm of a transfer is left when the next one starts; and a drive is
\* not taken away from under a read.
TransferIsOwn ==
    /\ port.by = "mmce" => handler = "mmce"
    /\ port.by = "pad" => handler = "sio2man"
    /\ (\A t \in Callers : call[t].pc \notin {"started", "waiting"}) => bits = {} /\ ~alarm
    /\ \A t \in Callers : call[t].pc = "defrag" => g_bd

\* What a read or a write says it has moved is what the file holds from where
\* the caller is, whatever was lost before; nobody ever changes the disc image.
CallsDoWhatTheySay ==
    /\ LET c == call["disc"]
           n == IF c.op = "fhi_read" THEN SectorUnits * c.res ELSE c.res
       IN c.pc = "done" /\ c.op \in Transfers /\ c.res >= 0 =>
            SubSeq(c.buf, 1, n) = Units(FileOf(c), From(c), n)
    /\ \A s \in IsoSectors : disk[s] = Original[s]

\* A page of the virtual card that is read without an error is the page that
\* was written or erased last without one, with its own error correction code.
CardKeepsPages ==
    mc.pc = "answered" /\ mc.request.kind = "read" /\ mc.result > 0 =>
        LET page == shadow[mc.request.page]
        IN page # <<>> => mc.answer = page \o <<ECC(page)>>

\* Whoever asks for something is answered, with an error if need be: nobody
\* waits for the port, a flag or the drive for ever.
Busy == pad # "idle" \/ mc.pc # "idle" \/ \E t \in Callers : call[t].pc # "idle"
CallsReturn == Busy ~> ~Busy
====

---- MODULE MmceFiles ----
(***************************************************************************)
(* The files of a memory card emulator (MMCE) over SIO2: the calls of the  *)
(* manager (mmce_fs.c, mmce_cmds.c) and of the driver used in a game       *)
(* (mmcedrv.c).  A call is a list of packets, each one transfer of Sio2,   *)
(* but file data, which is many: up to 16 DMA elements at a time, and what *)
(* is left over by PIO.  One unit is an element of 256 bytes; the left     *)
(* over is one shorter unit.  The card is not in the repository: it        *)
(* answers, is silent, answers nonsense, refuses or stops half way.        *)
(***************************************************************************)
EXTENDS Sio2, SequencesExt

CONSTANTS
    RoundMax,    \* the elements of a transfer (16)
    MaxFd,       \* MMCE_FS_MAX_FD
    SectorUnits, \* the units of a sector
    Layout       \* the sectors of each file on the drive, in order

ASSUME MmceAssumption ==
    RoundMax \in Nat \ {0} /\ MaxFd \in Nat \ {0} /\ SectorUnits \in Nat \ {0}

VARIABLES
    slots,  \* mmce_fs_fds
    card,   \* the card's own file descriptors and its part of a call
    reply,  \* how it replied to the last packet
    disk    \* what is on the drive: the units of each sector

mmceVars == <<slots, card, reply, disk>>

Files == DOMAIN Layout
Garbage == <<"garbage">>
Garbled(n) == [i \in 1 .. n |-> Garbage]

FileSize(file) == SectorUnits * Len(Layout[file])
\* The units of a file from a position on.
Units(file, from, n) ==
    [i \in 1 .. n |->
        LET k == from + i - 1 IN
        IF k < FileSize(file)
        THEN disk[Layout[file][k \div SectorUnits + 1]][(k % SectorUnits) + 1]
        ELSE Garbage]

\* The drive after data is written to a file at a position.
Overwritten(file, from, data) ==
    [s \in DOMAIN disk |->
        LET nth == SelectInSeq(Layout[file], LAMBDA x : x = s) IN
        [j \in 1 .. SectorUnits |->
            LET k == (nth - 1) * SectorUnits + j - from IN
            IF nth > 0 /\ k \in DOMAIN data THEN data[k] ELSE disk[s][j]]]

NoCall == [op |-> "none", pc |-> "idle", at |-> 1, file |-> "", slot |-> 0, fd |-> 0,
           arg |-> 0, size |-> 0, todo |-> 0, pio |-> 0, done |-> 0,
           stage |-> "ready", buf |-> <<>>, res |-> 0]

MmceInit ==
    /\ slots = [i \in 1 .. MaxFd |->
                    IF left.via = "manager" /\ i \in DOMAIN left.open THEN i ELSE -1]
    /\ card = [fds |-> [fd \in 0 .. MaxFd |->
                         [file |-> IF fd \in DOMAIN left.open THEN left.open[fd] ELSE "",
                          pos |-> 0]],
               out |-> <<>>, good |-> 0, ended |-> FALSE, silent |-> FALSE]
    /\ reply = "ok"

-----------------------------------------------------------------------------
(* The packets of each call.  The reply to a "command" is checked for the  *)
(* constant 0xaa; "answered" also for the card's return value, and so are  *)
(* the packets that follow a name.  The return value of a sector read is   *)
(* not where the driver looks for it.                                      *)

mmce_fs_open == <<"command", "name", "newfd">>
mmce_fs_dopen == <<"command", "name", "newfd">>
mmce_fs_close == <<"answered">>
mmce_fs_dclose == <<"answered">>
mmce_fs_read == <<"answered", "receive", "count">>
mmce_fs_write == <<"answered", "transmit", "count">>
mmce_fs_lseek == <<"command">>
mmce_fs_lseek64 == <<"command">>
mmce_fs_remove == <<"command", "name", "value">>
mmce_fs_mkdir == <<"command", "name", "value">>
mmce_fs_rmdir == <<"command", "name", "value">>
mmce_fs_dread == <<"answered", "body", "body", "body">>
mmce_fs_getstat == <<"command", "name", "value">>
mmce_cmd_ping == <<"command">>
mmce_cmd_get_status == <<"command">>
mmce_cmd_get_card == <<"command">>
mmce_cmd_set_card == <<"command">>
mmce_cmd_get_channel == <<"command">>
mmce_cmd_set_channel == <<"command">>
mmce_cmd_get_gameid == <<"command">>
mmce_cmd_set_gameid == <<"command">>
mmce_cmd_reset == <<"command">>
mmcedrv_get_size == <<"command">>
mmcedrv_lseek == <<"command">>
mmcedrv_read == <<"answered", "receive", "count">>
mmcedrv_write == <<"answered", "transmit", "count">>
mmcedrv_read_sector == <<"sector", "sectors", "count">>

mmce_fs_devctl ==
    [mmce_cmd_ping |-> mmce_cmd_ping, mmce_cmd_get_status |-> mmce_cmd_get_status,
     mmce_cmd_get_card |-> mmce_cmd_get_card, mmce_cmd_set_card |-> mmce_cmd_set_card,
     mmce_cmd_get_channel |-> mmce_cmd_get_channel,
     mmce_cmd_set_channel |-> mmce_cmd_set_channel,
     mmce_cmd_get_gameid |-> mmce_cmd_get_gameid,
     mmce_cmd_set_gameid |-> mmce_cmd_set_gameid, mmce_cmd_reset |-> mmce_cmd_reset]

mmce_fio_ops ==
    [mmce_fs_open |-> mmce_fs_open, mmce_fs_dopen |-> mmce_fs_dopen,
     mmce_fs_close |-> mmce_fs_close, mmce_fs_dclose |-> mmce_fs_dclose,
     mmce_fs_read |-> mmce_fs_read, mmce_fs_write |-> mmce_fs_write,
     mmce_fs_lseek |-> mmce_fs_lseek, mmce_fs_lseek64 |-> mmce_fs_lseek64,
     mmce_fs_remove |-> mmce_fs_remove, mmce_fs_mkdir |-> mmce_fs_mkdir,
     mmce_fs_rmdir |-> mmce_fs_rmdir, mmce_fs_dread |-> mmce_fs_dread,
     mmce_fs_getstat |-> mmce_fs_getstat]

exp_mmcedrv ==
    [mmcedrv_get_size |-> mmcedrv_get_size, mmcedrv_lseek |-> mmcedrv_lseek,
     mmcedrv_read |-> mmcedrv_read, mmcedrv_write |-> mmcedrv_write,
     mmcedrv_read_sector |-> mmcedrv_read_sector]

Packets == mmce_fio_ops @@ mmce_fs_devctl @@ exp_mmcedrv

Opens == {"mmce_fs_open", "mmce_fs_dopen"}
Closes == {"mmce_fs_close", "mmce_fs_dclose"}
Seeks == {"mmce_fs_lseek", "mmce_fs_lseek64", "mmcedrv_lseek"}
OnSlot == Closes \union {"mmce_fs_read", "mmce_fs_write", "mmce_fs_lseek",
                         "mmce_fs_lseek64", "mmce_fs_dread"}
Reads == {"mmce_fs_read", "mmcedrv_read", "mmcedrv_read_sector"}
Writes == {"mmce_fs_write", "mmcedrv_write"}

Packet(t) == Packets[call[t].op][call[t].at]

-----------------------------------------------------------------------------
(* File data.                                                              *)

Lesser(a, b) == IF a < b THEN a ELSE b

\* What one transfer carries.
\* A mutant: the left over in every transfer.
mmce_sio2_rx_mixed_pio_always(c) == [dma |-> Lesser(c.todo, RoundMax), pio |-> c.pio]
mmce_sio2_rx_mixed(c) ==
    [dma |-> Lesser(c.todo, RoundMax), pio |-> IF c.todo < RoundMax THEN c.pio ELSE 0]
mmce_sio2_rx_dma(c) == [dma |-> Lesser(c.todo, RoundMax), pio |-> 0]
mmce_sio2_tx_mixed(c) ==
    IF c.stage = "ready" THEN [dma |-> 0, pio |-> 0]
    ELSE [dma |-> Lesser(c.todo, RoundMax), pio |-> IF c.todo > 0 THEN 0 ELSE c.pio]

Part(t) ==
    CASE Packet(t) = "receive" -> mmce_sio2_rx_mixed(call[t])
      [] Packet(t) = "sectors" -> mmce_sio2_rx_dma(call[t])
      [] Packet(t) = "transmit" -> mmce_sio2_tx_mixed(call[t])
      [] OTHER -> [dma |-> 0, pio |-> 0]
PartUnits(t) == Part(t).dma + Part(t).pio

\* The call when the transfer is over: what came is in the buffer behind what
\* came before; what went is off, and the card is asked whether it is ready
\* again, but not between the last elements and the left over.
Advanced(t) ==
    LET c == call[t]
        part == Part(t)
        moved == [c EXCEPT !.todo = @ - part.dma, !.done = @ + part.dma + part.pio]
    IN IF Packet(t) # "transmit"
       THEN [moved EXCEPT !.buf = [i \in DOMAIN @ |->
                IF i - c.done \in 1 .. PartUnits(t) THEN card.out[i - c.done] ELSE @[i]]]
       ELSE [moved EXCEPT
                !.pio = @ - part.pio,
                !.stage = IF @ = "ready" \/ (c.pio > part.pio /\ part.dma < RoundMax)
                          THEN "data" ELSE "ready"]
DataOver(t) ==
    IF Packet(t) = "transmit"
    THEN call[t].stage = "ready" /\ call[t].done >= call[t].size
    ELSE Advanced(t).done >= call[t].size

-----------------------------------------------------------------------------
(* The card.                                                               *)

Commands == {"command", "answered", "sector"}
FreeFd == {fd \in 1 .. MaxFd : card.fds[fd].file = ""}

BadReplies(packet) ==
    (IF packet \in Commands THEN {"nonsense"} ELSE {}) \union
    (IF packet \in {"answered", "sector", "newfd", "value"} THEN {"refused"} ELSE {})

\* What the card does for a packet it accepts, n units of data moved.  After
\* it stopped half way it moves nothing until the next command.
CardActs(t, n) ==
    LET c == call[t]
        packet == Packet(t)
        f == card.fds[c.fd]
        new == CHOOSE fd \in FreeFd : TRUE
        to == CASE c.op \in Seeks -> c.arg
                [] c.op = "mmcedrv_get_size" -> FileSize(f.file)
                [] c.op = "mmcedrv_read_sector" -> c.arg * SectorUnits
                [] OTHER -> f.pos
        moved == IF card.ended THEN 0 ELSE n
        run == [card EXCEPT !.fds[c.fd].pos = @ + moved, !.good = @ + moved,
                            !.ended = @ \/ n < PartUnits(t)]
    IN /\ card' =
            CASE packet = "newfd" ->
                    [card EXCEPT !.fds[new] = [file |-> c.file, pos |-> 0], !.out = <<<<"fd", new>>>>]
              [] packet \in Commands ->
                    [card EXCEPT !.fds[c.fd] =
                        [file |-> IF c.op \in Closes THEN "" ELSE @.file, pos |-> to],
                        !.good = 0, !.ended = FALSE, !.silent = FALSE]
              [] packet \in {"receive", "sectors"} ->
                    [run EXCEPT !.out = Units(f.file, f.pos, moved)
                                        \o Garbled(PartUnits(t) - moved)]
              [] packet = "transmit" -> run
              [] OTHER -> card
       /\ disk' = IF packet = "transmit"
                  THEN Overwritten(f.file, f.pos, SubSeq(c.buf, c.done + 1, c.done + moved))
                  ELSE disk

Idles == UNCHANGED <<card, disk>>

-----------------------------------------------------------------------------
(* The steps of a call.                                                    *)

\* mmce_fs_fds: the first free entry, 0 when there is none.
mmce_fs_find_free_handle == SelectInSeq(slots, LAMBDA fd : fd < 0)

\* A call begins: an open without a free entry fails before anything is sent.
Mmce(op, slot, fd, file, arg, elements, pio, data) ==
    LET handle == IF op \in Opens THEN mmce_fs_find_free_handle ELSE slot
        full == op \in Opens /\ handle = 0
    IN [NoCall EXCEPT
            !.op = op, !.pc = IF full THEN "done" ELSE "lock",
            !.slot = handle, !.fd = IF op \in OnSlot THEN slots[slot] ELSE fd,
            !.file = file, !.arg = arg, !.size = elements + pio, !.todo = elements,
            !.pio = pio, !.buf = IF op \in Writes THEN data ELSE Garbled(elements + pio),
            !.res = IF full THEN -1 ELSE 0]

CardCanHear(t) == ~card.silent \/ Packet(t) \in Commands

\* A transfer is started.  The card does its part; or stops half way, answers
\* nonsense or refuses, and is then silent until the next command; or is
\* silent now, having done its part or not.
Transfer(t) ==
    /\ call[t].pc = "send"
    /\ \/ /\ CardCanHear(t) /\ (Packet(t) = "newfd" => FreeFd # {})
          /\ CardActs(t, PartUnits(t)) /\ reply' = "ok"
          /\ Started(FALSE, Packet(t) \in {"receive", "sectors"})
          /\ UNCHANGED left
       \/ /\ CardCanHear(t) /\ Packet(t) = "newfd" /\ FreeFd = {}
          /\ Idles /\ reply' = "refused"
          /\ Started(FALSE, FALSE)
          /\ UNCHANGED left
       \/ /\ CardCanHear(t)
          /\ \E n \in 0 .. PartUnits(t) - 1 : CardActs(t, n)
          /\ reply' = "ok"
          /\ Started(FALSE, Packet(t) \in {"receive", "sectors"})
          /\ Fault
       \/ /\ CardCanHear(t) /\ reply' \in BadReplies(Packet(t))
          /\ card' = [card EXCEPT !.silent = TRUE] /\ UNCHANGED disk
          /\ Started(FALSE, FALSE)
          /\ Fault
       \/ /\ IF CardCanHear(t) THEN Fault /\ (Idles \/ CardActs(t, PartUnits(t)))
                               ELSE Idles /\ UNCHANGED left
          /\ reply' = "ok"
          /\ Started(TRUE, Packet(t) \in {"receive", "sectors"})
    /\ At(t, "started")
    /\ UNCHANGED slots

\* The answer that a call gives when all its packets went well; an open's is
\* the card's descriptor, for the entry, where the caller only sees a 0.
Answer(t) ==
    LET c == call[t] IN
    CASE c.op \in Reads \union Writes -> Lesser(card.good, c.size)
      [] c.op \in Seeks \union {"mmcedrv_get_size"} -> card.fds[c.fd].pos
      [] c.op \in Opens -> card.out[1][2]
      [] OTHER -> 0

Refused(t) == reply = "nonsense" \/ (reply = "refused" /\ Packet(t) # "sector")

Failed(c) == [c EXCEPT !.pc = "unlock", !.res = -1]

TransferTimedOut(t) ==
    /\ Late(t) /\ TimedOut
    /\ call' = [call EXCEPT ![t] = Failed(@)]
    /\ UNCHANGED <<mmceVars, left>>

\* A card that does not close a file is quoted to the caller of close.
TransferCompleted(t) ==
    /\ Done(t) /\ Completed
    /\ LET c == call[t]
           data == Packet(t) \in {"receive", "sectors", "transmit"}
           next == IF data THEN Advanced(t) ELSE c
       IN call' = [call EXCEPT ![t] =
            IF Refused(t)
            THEN [Failed(c) EXCEPT
                    !.res = IF c.op = "mmce_fs_close" /\ reply = "refused" THEN 1 ELSE -1]
            ELSE IF data /\ ~DataOver(t) THEN [next EXCEPT !.pc = "send"]
            ELSE IF c.at < Len(Packets[c.op])
            THEN [next EXCEPT !.pc = "send", !.at = @ + 1]
            ELSE [next EXCEPT !.pc = "unlock", !.res = Answer(t)]]
    /\ UNCHANGED <<mmceVars, left>>

\* The port is given back; an open file takes its entry, a closed one frees it.
Unlock(t) ==
    /\ call[t].pc = "unlock"
    /\ Unlocked
    /\ At(t, "done")
    /\ slots' = CASE call[t].op \in Opens /\ call[t].res >= 0 ->
                        [slots EXCEPT ![call[t].slot] = call[t].res]
                  [] call[t].op \in Closes /\ call[t].res = 0 ->
                        [slots EXCEPT ![call[t].slot] = -1]
                  [] OTHER -> slots
    /\ UNCHANGED <<card, disk, reply, left>>

MmceStep(t) ==
    /\ \/ (Lock(t) \/ Lock2(t) \/ WaitFlag(t)) /\ UNCHANGED <<mmceVars, left>>
       \/ Transfer(t)
       \/ TransferTimedOut(t)
       \/ TransferCompleted(t)
       \/ Unlock(t)
    /\ UNCHANGED pad
====

---- MODULE Fragments ----
(***************************************************************************)
(* Files as runs of sectors of a drive: the two read-only file systems     *)
(* from which the loader takes a file's fragments (hdlfs.c: the parts of   *)
(* an HDLoader game; bdfs.c: a whole partition), the fragment lists it     *)
(* gives the game's file handle interface (fhi_config.c), and that         *)
(* interface (fhi_bd), whose one semaphore is also what tells readers      *)
(* whether the drive is there.                                             *)
(***************************************************************************)
EXTENDS MmceFiles

CONSTANTS
    LsnSectors, \* the sectors of a disc sector (4)
    Games,      \* the HDLoader games on the drive: name, checksum and parts
    Partition,  \* the partition that bdfs opens: its first sector and length
    Unplugged   \* the drives that are unplugged: "ours", "other"

ASSUME FragmentsAssumption ==
    /\ LsnSectors \in Nat \ {0}
    /\ Unplugged \subseteq {"ours", "other"}

VARIABLES
    hdl,         \* file_hdl, file_offset and file_size of hdlfs
    bdfs,        \* bd, file_offset and file_size of bdfs
    fhi,         \* the fragment lists of the files of the game
    g_bd,        \* whether the drive is connected
    bdm_io_sema

driveVars == <<hdl, bdfs, fhi, g_bd, bdm_io_sema>>

-----------------------------------------------------------------------------
(* hdlfs.                                                                  *)

\* The part a sector of the file is in; the first when it is in none.
get_part(sector) ==
    LET lsn == sector \div LsnSectors
        holding == {i \in DOMAIN hdl.parts :
                      LET p == hdl.parts[i] IN
                      /\ lsn >= p.part_offset
                      /\ lsn < p.part_offset + p.part_size \div (LsnSectors * SectorUnits)}
    IN IF holding = {} THEN 1 ELSE Min(holding)

HdlSector(sector) ==
    LET p == hdl.parts[get_part(sector)]
    IN p.data_start + sector - p.part_offset * LsnSectors
BdfsSector(sector) == Partition.sector + sector

\* The sectors of the file that a read touches.
SectorsOf(offset, size) == offset \div SectorUnits .. (offset + size) \div SectorUnits

\* size units from a position on, sector by sector; where[s] is the sector of
\* the drive that holds sector s of the file.
ReadBySector(where, offset, size) ==
    [i \in 1 .. size |->
        LET k == offset + i - 1
            at == where[k \div SectorUnits]
        IN IF at \in DOMAIN disk THEN disk[at][(k % SectorUnits) + 1] ELSE Garbage]

\* A read of a sector fails after n units: what was read is passed over.
StopsAt(offset, size) == {n \in 0 .. size - 1 : n = 0 \/ (offset + n) % SectorUnits = 0}

Returned(op, res, buf) ==
    [NoCall EXCEPT !.op = op, !.pc = "done", !.res = res, !.buf = buf, !.size = Len(buf)]

\* The headers are read one after the other into file_hdl until the game is
\* found: also when it is not, or when a header cannot be read.
hdl_open(t, name) ==
    LET nth == SelectInSeq(Games, LAMBDA g : g.name = name /\ g.valid)
        last == IF nth = 0 THEN Len(Games) ELSE nth
        size == FoldLeft(LAMBDA n, p : n + p.part_size, 0, Games[last].parts)
    IN \/ /\ nth > 0
          /\ hdl' = [parts |-> Games[nth].parts, offset |-> 0, size |-> size]
          /\ call' = [call EXCEPT ![t] = Returned("hdl_open", 1, <<>>)]
          /\ UNCHANGED left
       \/ /\ nth = 0
          /\ hdl' = [hdl EXCEPT !.parts = Games[last].parts]
          /\ call' = [call EXCEPT ![t] = Returned("hdl_open", -1, <<>>)]
          /\ UNCHANGED left
       \/ /\ \E n \in 0 .. last - 1 :
                hdl' = [hdl EXCEPT !.parts = IF n = 0 THEN @ ELSE Games[n].parts]
          /\ call' = [call EXCEPT ![t] = Returned("hdl_open", -1, <<>>)]
          /\ Fault

hdl_lseek64(t, offset, whence) ==
    LET to == CASE whence = "SET" -> offset
                [] whence = "CUR" -> hdl.offset + offset
                [] whence = "END" -> hdl.size + offset
    IN /\ hdl' = [hdl EXCEPT !.offset = to]
       /\ call' = [call EXCEPT ![t] = Returned("hdl_lseek64", to, <<>>)]

hdl_read(t, size) ==
    \/ /\ hdl' = [hdl EXCEPT !.offset = @ + size]
       /\ call' = [call EXCEPT ![t] =
             Returned("hdl_read", size,
                      ReadBySector([s \in SectorsOf(hdl.offset, size) |-> HdlSector(s)],
                                   hdl.offset, size))]
       /\ UNCHANGED left
    \/ /\ \E n \in StopsAt(hdl.offset, size) : hdl' = [hdl EXCEPT !.offset = @ + n]
       /\ call' = [call EXCEPT ![t] = Returned("hdl_read", -1, Garbled(size))]
       /\ Fault

HdlFragments(parts) ==
    [i \in DOMAIN parts |-> [sector |-> parts[i].data_start,
                             count |-> parts[i].part_size \div SectorUnits]]

-----------------------------------------------------------------------------
(* bdfs.                                                                   *)

bdfs_open(t, found) ==
    /\ bdfs' = [open |-> found, offset |-> 0,
                size |-> IF found THEN Partition.count * SectorUnits ELSE 0]
    /\ call' = [call EXCEPT ![t] = Returned("bdfs_open", IF found THEN 1 ELSE -1, <<>>)]

bdfs_lseek64(t, offset, whence) ==
    LET to == CASE whence = "SET" -> offset
                [] whence = "CUR" -> bdfs.offset + offset
                [] whence = "END" -> bdfs.size + offset
    IN /\ bdfs' = [bdfs EXCEPT !.offset = to]
       /\ call' = [call EXCEPT ![t] = Returned("bdfs_lseek64", to, <<>>)]

bdfs_read(t, size) ==
    \/ /\ bdfs' = [bdfs EXCEPT !.offset = @ + size]
       /\ call' = [call EXCEPT ![t] =
             Returned("bdfs_read", size,
                      ReadBySector([s \in SectorsOf(bdfs.offset, size) |-> BdfsSector(s)],
                                   bdfs.offset, size))]
       /\ UNCHANGED left
    \/ /\ \E n \in StopsAt(bdfs.offset, size) : bdfs' = [bdfs EXCEPT !.offset = @ + n]
       /\ call' = [call EXCEPT ![t] = Returned("bdfs_read", -1, Garbled(size))]
       /\ Fault

BdfsFragments == <<Partition>>

-----------------------------------------------------------------------------
(* The loader: the fragments of a file go behind those of all the others.  *)

Fragmented(lists, file, fragments) ==
    LET start == MapThenSumSet(LAMBDA f : lists.file[f].count, DOMAIN lists.file)
    IN [file |-> [lists.file EXCEPT ![file] = [start |-> start, count |-> Len(fragments)]],
        frags |-> [i \in 1 .. start + Len(fragments) |->
                     IF i > start THEN fragments[i - start] ELSE lists.frags[i]]]

NoLists == [file |-> [f \in {"iso", "vmc"} |-> [start |-> 0, count |-> 0]], frags |-> <<>>]

DriveInit ==
    /\ hdl = [parts |-> Games[1].parts, offset |-> 0, size |-> 0]
    /\ bdfs = [open |-> FALSE, offset |-> 0, size |-> 0]
    /\ g_bd = FALSE /\ bdm_io_sema = 0
    /\ LET game == CHOOSE i \in DOMAIN Games : Games[i].name = "iso" /\ Games[i].valid
           parts == HdlFragments(Games[game].parts)
       IN fhi \in {Fragmented(Fragmented(NoLists, "iso", parts), "vmc", BdfsFragments),
                   Fragmented(Fragmented(NoLists, "vmc", BdfsFragments), "iso", parts)}

-----------------------------------------------------------------------------
(* fhi_bd.                                                                 *)

\* A read or a write of count sectors of a file of the game.
Fhi(op, file, sector, count, data) ==
    [NoCall EXCEPT !.op = op, !.pc = "bdm", !.file = file, !.arg = sector,
        !.size = count, !.todo = count,
        !.buf = IF op = "fhi_write" THEN data ELSE Garbled(count * SectorUnits)]

FhiLock(t) ==
    /\ call[t].pc = "bdm" /\ bdm_io_sema > 0
    /\ bdm_io_sema' = 0
    /\ At(t, "defrag")
    /\ UNCHANGED <<g_bd, disk, left>>

\* The fragment of a file that holds a sector, and how many sectors of the
\* file are before it.
HoldingFragment(file, sector) ==
    LET of == SubSeq(fhi.frags, fhi.file[file].start + 1,
                     fhi.file[file].start + fhi.file[file].count)
        before == [i \in DOMAIN of |-> FoldLeft(LAMBDA n, f : n + f.count, 0, SubSeq(of, 1, i - 1))]
        i == CHOOSE i \in DOMAIN of : before[i] <= sector /\ sector < before[i] + of[i].count
    IN [sector |-> of[i].sector, count |-> of[i].count, before |-> before[i]]

\* One run of sectors of bd_defrag_read and bd_defrag_write.
Defragmented(t) ==
    LET c == call[t]
        s == c.arg + c.done
        f == HoldingFragment(c.file, s)
        n == Lesser(c.todo, f.before + f.count - s)
        at == f.sector + s - f.before
        Nth(i, j) == (c.done + i) * SectorUnits + j
    IN /\ call[t].pc = "defrag" /\ c.todo > 0
       /\ \/ /\ call' = [call EXCEPT ![t] =
                   [c EXCEPT !.todo = @ - n, !.done = @ + n, !.res = c.done + n,
                             !.buf = IF c.op = "fhi_write" THEN @
                                     ELSE [u \in DOMAIN @ |->
                                        LET k == u - 1 - c.done * SectorUnits IN
                                        IF k \in 0 .. n * SectorUnits - 1
                                        THEN disk[at + k \div SectorUnits][(k % SectorUnits) + 1]
                                        ELSE @[u]]]]
             /\ disk' = IF c.op = "fhi_read" THEN disk
                        ELSE [d \in DOMAIN disk |->
                                IF d - at \in 0 .. n - 1
                                THEN [j \in 1 .. SectorUnits |-> c.buf[Nth(d - at, j)]]
                                ELSE disk[d]]
             /\ UNCHANGED left
          \/ /\ call' = [call EXCEPT ![t] = [c EXCEPT !.todo = 0, !.res = -1]]
             /\ UNCHANGED disk
             /\ Fault
       /\ UNCHANGED <<g_bd, bdm_io_sema>>

FhiUnlock(t) ==
    /\ call[t].pc = "defrag" /\ call[t].todo = 0
    /\ bdm_io_sema' = 1
    /\ At(t, "done")
    /\ UNCHANGED <<g_bd, disk, left>>

FhiStep(t) ==
    /\ FhiLock(t) \/ Defragmented(t) \/ FhiUnlock(t)
    /\ UNCHANGED <<hdl, bdfs, fhi, slots, card, reply, sio2Vars, pad>>

bdm_connect_bd ==
    /\ left.via = "bd" /\ ~g_bd
    /\ g_bd' = TRUE /\ bdm_io_sema' = 1
    /\ UNCHANGED <<hdl, bdfs, fhi, mmceVars, sio2Vars, pad, call, left>>

\* The semaphore is taken, whichever drive was unplugged, and kept.
bdm_disconnect_bd ==
    /\ g_bd /\ bdm_io_sema > 0 /\ left.unplugs > 0
    /\ Spent("unplugs")
    /\ bdm_io_sema' = 0
    /\ \E drive \in Unplugged : g_bd' = (drive # "ours")
    /\ UNCHANGED <<hdl, bdfs, fhi, mmceVars, sio2Vars, pad, call>>
====

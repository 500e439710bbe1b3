---- MODULE CdvdFiles ----
(***************************************************************************)
(* The files of the emulated disc, over the drive of CdvdRead: the search  *)
(* of searchfile.c, which walks the directories of the disc through one    *)
(* sector of memory under a semaphore of its own, and the device "cdrom"   *)
(* of ioops.c, whose calls share cdrom_sema and cdvdman_fs_buf with the    *)
(* N commands of cdvdfsv.                                                  *)
(***************************************************************************)
EXTENDS CdvdRead, SequencesExt

CONSTANTS
    SectorUnits,  \* units of data in a sector
    FsSectors,    \* cdvdman_settings.fs_sectors
    MaxFd,        \* MAX_FDHANDLES
    PvdLsn,       \* where the volume descriptor of a layer is
    Layer1Start,  \* cdvdman_settings.layer1_start: 0 when there is one layer
    DvdDl,        \* CDVDMAN_COMPAT_DVD_DL
    Volumes,      \* the root directories in the volume descriptors, by lsn
    Toc           \* the entries in the sectors of directories, by lsn

ASSUME FilesAssumption ==
    /\ SectorUnits \in Nat \ {0} /\ FsSectors \in Nat \ {0}
    /\ Bufmax > FsSectors + 1
    /\ Layer1Start \in Nat /\ DvdDl \in BOOLEAN

VARIABLES
    sema,      \* who holds cdrom_sema and cdvdman_searchfilesema
    volumes,   \* layer_info, and initialized
    search,    \* the searches of each caller
    fds,       \* cdvdman_fdhandles
    io,        \* the thread that calls the device
    left       \* what may still be asked for

fileVars == <<sema, volumes, search, fds, io>>

\* The buffers: cdvdman_fs_buf, cdvdman_buf, and the one a caller reads into.
TocSlot == FsSectors
CallerSlot == FsSectors + 1

Searchers == {"io", "fsv"}
NotFound == [found |-> FALSE, lsn |-> 0, size |-> 0]
NoSearch == [pc |-> "none", reading |-> FALSE, layer |-> 0, path |-> <<>>,
             lsn |-> 0, size |-> 0, res |-> NotFound]
Closed == [f |-> FALSE, lsn |-> 0, filesize |-> 0, position |-> 0]
NoPart == [slot |-> 0, skip |-> 0, n |-> 0]
NoCall == [op |-> "none", fd |-> 0, path |-> <<>>, layer |-> 0, n |-> 0]
IoIdle == [pc |-> "idle", call |-> NoCall, size |-> 0, part |-> NoPart,
           from |-> Closed, out |-> <<>>, res |-> 0]

\* layer_info is kept from an earlier search, or not.
FilesInit(ready) ==
    /\ sema = [cdrom |-> "free", search |-> "free"]
    /\ volumes = [ready |-> ready,
                  root |-> [l \in 0 .. 1 |->
                     IF ready /\ (l = 0 \/ Layer1Start > 0)
                       THEN [Volumes[PvdLsn + l * Layer1Start]
                              EXCEPT !.lsn = @ + l * Layer1Start]
                       ELSE [lsn |-> 0, size |-> 0]]]
    /\ search = [t \in Searchers |-> NoSearch]
    /\ fds = [fd \in 1 .. MaxFd |-> Closed]
    /\ io = IoIdle

ENOENT == 2
EIO == 5
EMFILE == 24

\* A mutant: the calls do not wait for each other.
TakeAnyway(s, t) == sema' = [sema EXCEPT ![s] = t]
Take(s, t) == sema[s] = "free" /\ sema' = [sema EXCEPT ![s] = t]
\* A mutant: a search that is over keeps its semaphore.
GiveCdromOnly(s) == sema' = [sema EXCEPT !.cdrom = IF s = "cdrom" THEN "free" ELSE @]
Give(s) == sema' = [sema EXCEPT ![s] = "free"]

\* sceCdRead_internal, tried again until it is not refused.
Start(slot, lsn, n) ==
    /\ ~drv.locked
    /\ drv' = Submit(drv, [to |-> "buffer", slot |-> slot, lsn |-> lsn, n |-> n])

\* sceCdSync(0), and the wait of sceCdDiskReady(0).
AtRest == ~drv.locked

DriveKept == UNCHANGED <<rt, cur, reason, cbAlarm, slots, faults>>

-----------------------------------------------------------------------------
(* sceCdSearchFile and sceCdLayerSearchFile                                *)

Layer(l) == IF DvdDl \/ l = 0 THEN 0 ELSE 1
TwoLayers == ~DvdDl /\ Layer1Start > 0

Searching(t, layer, path) ==
    search' = [search EXCEPT ![t] =
        [NoSearch EXCEPT !.pc = IF volumes.ready THEN "sema" ELSE "pvd",
                         !.lsn = PvdLsn, !.layer = Layer(layer), !.path = path]]

SearchEnds(t, res) ==
    search' = [search EXCEPT ![t] = [NoSearch EXCEPT !.pc = "done", !.res = res]]

\* A sector of the volume, of a descriptor or of a directory, is asked for.
SearchRead(t) ==
    /\ search[t].pc \in {"pvd", "dir"} /\ ~search[t].reading
    /\ Start(TocSlot, search[t].lsn, 1)
    /\ search' = [search EXCEPT ![t].reading = TRUE]
    /\ UNCHANGED <<err, sema, volumes>>

\* cdvdman_searchfile_init: the roots of the layers are read once.
SearchInit(t) ==
    /\ search[t].pc = "pvd" /\ search[t].reading /\ AtRest
    /\ LET l == IF search[t].lsn = PvdLsn THEN 0 ELSE 1
           held == slots[TocSlot]
           root == IF held \in DOMAIN Volumes THEN Volumes[held]
                   ELSE [lsn |-> 0, size |-> 0]
           more == l = 0 /\ TwoLayers
       IN  /\ volumes' =
                 [ready |-> ~more,
                  root |-> [volumes.root EXCEPT ![l] =
                              [root EXCEPT !.lsn = @ + l * Layer1Start]]]
           /\ search' = [search EXCEPT ![t] =
                 [@ EXCEPT !.reading = FALSE,
                           !.pc = IF more THEN "pvd" ELSE "sema",
                           !.lsn = IF more THEN Layer1Start + PvdLsn ELSE @]]
    /\ UNCHANGED <<drv, err, sema>>

\* cdvdman_findfile: from the root of the layer on.
SearchFrom(t) ==
    /\ search[t].pc = "sema"
    /\ LET root == volumes.root[search[t].layer]
       IN  IF root.lsn = 0 \/ root.size = 0
             THEN /\ sema.search = "free" /\ SearchEnds(t, NotFound)
                  /\ UNCHANGED sema
             ELSE /\ Take("search", t)
                  /\ search' = [search EXCEPT ![t] =
                       [@ EXCEPT !.pc = "dir", !.lsn = root.lsn,
                                 !.size = root.size]]
    /\ UNCHANGED <<drv, err, volumes>>

Entries == IF slots[TocSlot] \in DOMAIN Toc THEN Toc[slots[TocSlot]] ELSE <<>>

\* The entries the walk stops at: the file itself, or a directory on the way.
Hits(path) ==
    {i \in DOMAIN Entries : /\ Entries[i].name = Head(path)
                            /\ Tail(path) = <<>> \/ Entries[i].dir}
Found(e, layer) ==
    [found |-> TRUE, lsn |-> e.lsn + layer * Layer1Start, size |-> e.size]

\* cdvdman_locatefile, when a sector of a directory is there.
SearchSector(t) ==
    /\ search[t].pc = "dir" /\ search[t].reading /\ AtRest
    /\ LET s == search[t]
           e == Entries[Min(Hits(s.path))]
           next == [s EXCEPT !.reading = FALSE, !.lsn = @ + 1,
                             !.size = @ - SectorUnits]
           under == [s EXCEPT !.reading = FALSE, !.path = Tail(@),
                              !.lsn = e.lsn + s.layer * Layer1Start,
                              !.size = e.size]
           go == IF Hits(s.path) = {} THEN next ELSE under
       IN  IF Hits(s.path) # {} /\ Tail(s.path) = <<>>
             THEN SearchEnds(t, Found(e, s.layer)) /\ Give("search")
           ELSE IF go.size <= 0
             THEN SearchEnds(t, NotFound) /\ Give("search")
             ELSE search' = [search EXCEPT ![t] = go] /\ UNCHANGED sema
    /\ UNCHANGED <<drv, err, volumes>>

SearchStep(t) ==
    /\ \/ SearchRead(t) \/ SearchInit(t) \/ SearchFrom(t) \/ SearchSector(t)
    /\ UNCHANGED <<fds, io, left>> /\ DriveKept

-----------------------------------------------------------------------------
(* The device "cdrom"                                                      *)

Io(pc) == io' = [io EXCEPT !.pc = pc]
IoResult(res) == io' = [io EXCEPT !.pc = "reply", !.res = res]
IoIs(pc, ops) == io.pc = pc /\ io.call.op \in ops
Fh == fds[io.call.fd]
SearchOps == {"open", "dopen", "getstat"}

IoCall ==
    /\ io.pc = "idle" /\ left.io > 0
    /\ \E c \in left.iocalls :
         /\ c.fd # 0 => fds[c.fd].f
         /\ io' = [IoIdle EXCEPT !.pc = "sema", !.call = c]
    /\ left' = [left EXCEPT !.io = @ - 1]
    /\ UNCHANGED <<drv, err, sema, volumes, search, fds>>

\* cdrom_open, cdrom_dopen and cdrom_getstat: sceCdDiskReady comes first, but
\* there are only two units.
IoSearch ==
    /\ IoIs("sema", SearchOps) /\ Take("cdrom", "io")
    /\ IF io.call.layer < 2 \/ io.call.op = "getstat"
         THEN err' = "NO" /\ Io("ready") ELSE IoResult(-ENOENT) /\ UNCHANGED err
    /\ UNCHANGED <<drv, volumes, search, fds, left>>

FreeFds == {fd \in 1 .. MaxFd : ~fds[fd].f}

\* cdrom_purifyPath: the version is added to the name of a file.
Purified(path) ==
    IF io.call.op = "dopen" THEN path
    ELSE [path EXCEPT ![Len(path)].version = TRUE]

IoReady ==
    /\ IoIs("ready", SearchOps) /\ AtRest
    /\ IF io.call.op # "getstat" /\ FreeFds = {}
         THEN IoResult(-EMFILE) /\ UNCHANGED search
         ELSE Io("search") /\ Searching("io", io.call.layer, Purified(io.call.path))
    /\ UNCHANGED <<drv, err, sema, volumes, fds, left>>

IoFound ==
    /\ io.pc = "search" /\ search["io"].pc = "done"
    /\ LET r == search["io"].res
           fd == Min(FreeFds)
       IN  IF io.call.op = "getstat"
             THEN IoResult(IF r.found THEN 0 ELSE -1) /\ UNCHANGED fds
           ELSE IF r.found
             THEN /\ fds' = [fds EXCEPT ![fd] =
                       [f |-> TRUE, lsn |-> r.lsn, filesize |-> r.size,
                        position |-> 0]]
                  /\ IoResult(fd)
             ELSE IoResult(-ENOENT) /\ UNCHANGED fds
    /\ search' = [search EXCEPT !["io"] = NoSearch]
    /\ UNCHANGED <<drv, err, sema, volumes, left>>

cdrom_close ==
    /\ IoIs("sema", {"close"}) /\ Take("cdrom", "io")
    /\ fds' = [fds EXCEPT ![io.call.fd] = Closed] /\ IoResult(0)
    /\ UNCHANGED <<drv, err, volumes, search, left>>

\* An offset before the start wraps, and both ends of the file stop it.
cdrom_lseek ==
    /\ IoIs("sema", {"SEEK_SET", "SEEK_CUR", "SEEK_END"}) /\ Take("cdrom", "io")
    /\ LET to == CASE io.call.op = "SEEK_SET" -> io.call.n
                   [] io.call.op = "SEEK_CUR" -> Fh.position + io.call.n
                   [] io.call.op = "SEEK_END" -> Fh.filesize - io.call.n
           p == IF to \in 0 .. Fh.filesize THEN to ELSE Fh.filesize
       IN  fds' = [fds EXCEPT ![io.call.fd].position = p] /\ IoResult(p)
    /\ UNCHANGED <<drv, err, volumes, search, left>>

\* cdrom_read takes no more than the file has left.
cdrom_read ==
    /\ IoIs("sema", {"read"}) /\ Take("cdrom", "io")
    /\ io' = [io EXCEPT !.pc = "disc", !.from = Fh,
                        !.size = Min({io.call.n, Fh.filesize - Fh.position})]
    /\ err' = "NO"
    /\ UNCHANGED <<drv, volumes, search, fds, left>>

\* cdrom_dread reads the first sector of the directory each time.
cdrom_dread ==
    /\ IoIs("sema", {"dread"}) /\ Take("cdrom", "io")
    /\ io' = [io EXCEPT !.pc = "disc", !.from = Fh]
    /\ err' = "NO"
    /\ UNCHANGED <<drv, volumes, search, fds, left>>

\* The three phases of a read: up to the end of a sector, whole sectors
\* straight to the caller, the rest.
Part(fh, size) ==
    LET skip == fh.position % SectorUnits
        whole == size \div SectorUnits
    IN  IF skip # 0
          THEN [slot |-> 0, skip |-> skip, n |-> Min({SectorUnits - skip, size})]
        ELSE IF whole > 0
          THEN [slot |-> CallerSlot, skip |-> 0, n |-> whole * SectorUnits]
          ELSE [slot |-> 0, skip |-> 0, n |-> size]

\* A part of the read is asked for; the position moves at once.
IoRead ==
    /\ IoIs("disc", {"read"}) /\ AtRest
    /\ IF io.size <= 0
         THEN IoResult(Len(io.out)) /\ UNCHANGED <<drv, fds>>
         ELSE LET part == Part(Fh, io.size)
              IN  /\ Start(part.slot, Fh.lsn + (Fh.position \div SectorUnits),
                           IF part.slot = 0 THEN 1 ELSE part.n \div SectorUnits)
                  /\ io' = [io EXCEPT !.pc = "part", !.part = part,
                                      !.size = @ - part.n]
                  /\ fds' = [fds EXCEPT ![io.call.fd].position = @ + part.n]
    /\ UNCHANGED <<err, sema, volumes, search, left>>

\* What a buffer that starts at slot holds at a unit of it.
Unit(slot, u) ==
    LET held == slots[slot + (u \div SectorUnits)]
    IN  IF held < 0 THEN -1 ELSE held * SectorUnits + (u % SectorUnits)

IoReadPart ==
    /\ IoIs("part", {"read"}) /\ AtRest
    /\ io' = [io EXCEPT !.pc = "disc",
                !.out = @ \o [u \in 1 .. io.part.n |->
                                 Unit(io.part.slot, io.part.skip + u - 1)]]
    /\ UNCHANGED <<drv, err, sema, volumes, search, fds, left>>

IoReadDir ==
    /\ IoIs("disc", {"dread"}) /\ Start(0, Fh.lsn, 1) /\ Io("part")
    /\ UNCHANGED <<err, sema, volumes, search, fds, left>>

\* Entries whose name has one character are passed over: they are meant to be
\* the directory itself and the one above.
DirEntry(entries, p) == {i \in p + 1 .. Len(entries) : ~entries[i].short}

IoDirEntry ==
    /\ IoIs("part", {"dread"}) /\ AtRest
    /\ LET entries == IF slots[0] \in DOMAIN Toc THEN Toc[slots[0]] ELSE <<>>
           rest == DirEntry(entries, Fh.position)
           i == IF rest = {} THEN Max({Fh.position, Len(entries)}) ELSE Min(rest)
       IN  /\ fds' = [fds EXCEPT ![io.call.fd].position = i]
           /\ io' = [io EXCEPT !.pc = "reply", !.res = IF rest = {} THEN 0 ELSE 1,
                               !.out = IF rest = {} THEN <<>> ELSE <<entries[i]>>]
    /\ UNCHANGED <<drv, err, sema, volumes, search, left>>

\* cdrom_devctl: commands of the drive raise no event here; the device waits.
Breaks == {"CDIOC_BREAK"}
Commands == {"CDIOC_STOP", "CDIOC_PAUSE", "CDIOC_GETTOC", "CDIOC_STANDBY"}
cdrom_devctl ==
    /\ IoIs("sema", Breaks \cup Commands \cup {"CDIOC_DISKRDY"})
    /\ Take("cdrom", "io")
    /\ LET refused == drv.locked /\ io.call.op \in (Breaks \cup Commands) \ {"CDIOC_STANDBY"}
       IN  /\ err' = IF refused THEN err
                     ELSE IF io.call.op \in Breaks THEN "ABRT" ELSE "NO"
           /\ io' = [io EXCEPT !.pc = "sync", !.res = IF refused THEN -EIO ELSE 1]
    /\ UNCHANGED <<drv, volumes, search, fds, left>>

IoSync ==
    /\ io.pc = "sync" /\ AtRest /\ Io("reply")
    /\ UNCHANGED <<drv, err, sema, volumes, search, fds, left>>

IoReply ==
    /\ io.pc = "reply" /\ Give("cdrom")
    /\ io' = IoIdle
    /\ UNCHANGED <<drv, err, volumes, search, fds, left>>

IoStep ==
    /\ \/ IoCall \/ IoSearch \/ IoReady \/ IoFound
       \/ cdrom_close \/ cdrom_lseek \/ cdrom_read \/ cdrom_dread
       \/ IoRead \/ IoReadPart \/ IoReadDir \/ IoDirEntry
       \/ cdrom_devctl \/ IoSync \/ IoReply
    /\ DriveKept
====

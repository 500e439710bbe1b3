---- MODULE Udpfs ----
(***************************************************************************)
(* The console's end of UDPFS (neutrino/iop/udpfs): the calls on files of  *)
(* udpfs_ioman.c while the menu and the loader run, the disc images of a   *)
(* game by the handles the loader left open (udpfs_fhi.c), or the server's *)
(* block device (udpfs_bd.c), over the messages of udpfs_core.c.           *)
(*                                                                         *)
(* One message and what the server makes of it is one step.  The transport *)
(* handles it once or not at all; a call may be told so or not (link), and *)
(* a broken connection is not mended until the IOP is reset.  At a reset   *)
(* the console forgets its handles, the server does not.                   *)
(***************************************************************************)
EXTENDS LocalFiles

CONSTANTS
    MaxFd,          \* UDPFS_MAX_HANDLES
    ChunkUnits,     \* the units of a WRITE_DATA packet
    MaxRead,        \* UDPFS_MAX_READ, in units
    MaxSectorRead,  \* UDPFS_MAX_SECTOR_READ
    Inputs,         \* the calls that are made
    Histories       \* what is started one after the other, and its faults

VARIABLES
    link,    \* the socket: "up", "gap" (a number was used up), "down"
    g_fds,   \* the server's handle of each slot, -1 when it is free
    fhi,     \* fhi.file[].id, filled in by the loader
    bd,      \* the sectors of the block device, 0 when it is not connected
    g_sema,
    at,      \* of each thread: "idle", "lock", "send" or "wait"
    call,    \* and the call it makes
    done,    \* of the call in the core: units, chunks or sectors so far
    got,     \* and what was put in its buffer
    ret,     \* the last call that returned: what, and what it returned
    left     \* the calls and faults to come, what is started next, the first
             \* handle of this stage, whether the server was started anew

clientVars == <<link, g_fds, fhi, bd, g_sema, at, call, done, got, ret>>
vars == <<serverVars, clientVars, left, due>>

Threads == {1, 2}
Fds == 1 .. MaxFd
Idle == [op |-> "none"]
Unwritten == 99

\* Where a call is made from: the menu and the loader, the game, or the
\* driver of the block device.
Opens == {"udpfs_open", "udpfs_dopen"}
Closes == {"udpfs_close", "udpfs_dclose"}
OnNames == {"udpfs_getstat", "udpfs_mkdir", "udpfs_remove", "udpfs_rmdir"}
OnFiles == {"udpfs_read", "udpfs_write", "udpfs_lseek64", "udpfs_dread"}
udpfs_device_ops == Opens \union Closes \union OnNames \union OnFiles
FhiCalls == {"fhi_read", "fhi_write"}
BdCalls == {"udpfs_bd_read", "udpfs_bd_write"}
Reads == {"fhi_read", "udpfs_bd_read"}
Writes == {"udpfs_write", "fhi_write", "udpfs_bd_write"}

Flags == {"RD", "WR", "CREAT", "TRUNC", "APPEND"}
Calls ==
    [op : {"udpfs_open"}, path : Names, flags : SUBSET Flags]
    \union [op : OnNames \union {"udpfs_dopen"}, path : Names]
    \union [op : Closes \union {"udpfs_dread"}, fd : Fds]
    \union [op : {"udpfs_read"}, fd : Fds, size : Nat]
    \union [op : {"udpfs_write"}, fd : Fds, size : Nat, data : Seq(Int)]
    \union [op : {"udpfs_lseek64"}, fd : Fds, offset : Int, whence : {"SET", "CUR", "END"}]
    \union [op : FhiCalls \union BdCalls, fd : Fds, sector : Nat, count : Nat \ {0},
            data : Seq(Int)]

\* What is written has the length the call says; a file is made, emptied or
\* appended to with the flags of fopen's modes, as all callers do.
WellMade(c) ==
    /\ c.op = "udpfs_write" => c.size = Len(c.data)
    /\ c.op \in FhiCalls \union BdCalls => Len(c.data) = c.count * SectorUnits
    /\ c.op = "udpfs_open" /\ c.flags \intersect {"CREAT", "TRUNC", "APPEND"} # {} =>
         /\ "WR" \in c.flags /\ ~({"TRUNC", "APPEND"} \subseteq c.flags)
         /\ "RD" \in c.flags => "CREAT" \in c.flags

\* What is started, the calls it makes and how many.
Operations == udpfs_device_ops \union FhiCalls \union BdCalls
Stages == [as : {"ioman", "fhi", "bd"}, ops : SUBSET Operations, calls : Nat]

ASSUME InputsAssumption ==
    /\ \A c \in Inputs : c \in Calls /\ WellMade(c)
    /\ MaxFd \in Nat /\ ChunkUnits \in Nat \ {0}
    /\ MaxRead \in Nat \ {0} /\ MaxSectorRead \in Nat \ {0}
    /\ \A history \in Histories : history.plan \in Seq(Stages)

udpfs_core_is_connected == link # "down"

FreeFds == {fd \in Fds : g_fds[fd] < 0}
_alloc_fd == CHOOSE fd \in FreeFds : \A k \in FreeFds : fd <= k

ClientInit ==
    /\ link = "down" /\ g_fds = [fd \in Fds |-> -1] /\ fhi = [fd \in Fds |-> -1]
    /\ bd = 0 /\ g_sema = 1
    /\ at = [t \in Threads |-> "idle"] /\ call = [t \in Threads |-> Idle]
    /\ done = 0 /\ got = NoBuffer /\ ret = [op |-> "none", res |-> 0, got |-> NoBuffer]
    /\ \E history \in Histories :
         /\ read_only = history.read_only
         /\ left = [plan |-> history.plan, as |-> "off", ops |-> {}, calls |-> 0,
                    faults |-> history.faults, since |-> 1, pc |-> FALSE]
    /\ due = [res |-> 0, got |-> NoBuffer, tree |-> tree, data |-> data,
              files |-> [fd \in Fds |-> Closed], old |-> [fd \in Fds |-> Closed]]

\* What the call would come to on local files, of which files are open.
Due(files, c) ==
    CASE c.op = "udpfs_open" -> LocalOpen(files, _alloc_fd, c)
      [] c.op = "udpfs_dopen" -> LocalDopen(files, _alloc_fd, c)
      [] c.op \in Closes -> [Result(files, 0, NoBuffer) EXCEPT !.files[c.fd] = Closed]
      [] c.op = "udpfs_read" -> LocalRead(files, c)
      [] c.op = "udpfs_write" -> LocalWrite(files, c)
      [] c.op = "udpfs_lseek64" -> LocalSeek(files, c)
      [] c.op = "udpfs_dread" -> LocalDread(files, c)
      [] c.op = "udpfs_getstat" -> LocalStat(files, c)
      [] c.op \in OnNames \ {"udpfs_getstat"} -> LocalName(files, c)
      [] c.op \in FhiCalls -> Sectors(files, files[c.fd].ino, Bytes(files[c.fd]), c, c.count)
      [] c.op \in BdCalls -> Sectors(files, BlockDevice, data[BlockDevice], c, c.count)
      [] c.op = "udpfs_bd_init" -> Result(files, DeviceSectors, NoBuffer)

-----------------------------------------------------------------------------
(* The messages of a call.                                                 *)

Handle(c) ==
    CASE c.op \in udpfs_device_ops -> g_fds[c.fd]
      [] c.op \in FhiCalls -> fhi[c.fd]
      [] c.op \in BdCalls -> 0

udpfs_core_open(c) ==
    [op |-> "open", path |-> c.path, is_dir |-> c.op = "udpfs_dopen",
     flags |-> IF c.op = "udpfs_dopen" THEN {} ELSE c.flags]
udpfs_core_close(c) == [op |-> "close", handle |-> Handle(c)]
udpfs_core_read(c) ==
    [op |-> "read", handle |-> Handle(c), size |-> Smaller(c.size - done, MaxRead)]
udpfs_core_lseek(c) ==
    [op |-> "lseek", handle |-> Handle(c), offset |-> c.offset, whence |-> c.whence]
udpfs_core_dread(c) == [op |-> "dread", handle |-> Handle(c)]
udpfs_core_getstat(c) == [op |-> "getstat", path |-> c.path]
udpfs_core_mkdir(c) == [op |-> "mkdir", path |-> c.path]
udpfs_core_remove(c) == [op |-> "remove", path |-> c.path]
udpfs_core_rmdir(c) == [op |-> "rmdir", path |-> c.path]
udpfs_core_get_sector_count == [op |-> "getstat", path |-> ""]
\* A mutant: every part is read from the first sector.
bread_from_the_start(c) ==
    [op |-> "bread", handle |-> Handle(c), sector |-> c.sector,
     count |-> Smaller(c.count - done, MaxSectorRead)]
udpfs_core_bread(c) ==
    [op |-> "bread", handle |-> Handle(c), sector |-> c.sector + done,
     count |-> Smaller(c.count - done, MaxSectorRead)]

\* _write_with_combined_header: the request goes with the first chunk.
Chunk(c, k) == SubSeq(c.data, k * ChunkUnits + 1, Smaller((k + 1) * ChunkUnits, Len(c.data)))
total_chunks(c) == (Len(c.data) + ChunkUnits - 1) \div ChunkUnits
WriteMessage(c) ==
    [op |-> IF done > 0 THEN "write_data" ELSE IF c.op = "udpfs_write" THEN "write" ELSE "bwrite",
     handle |-> Handle(c), chunk_nr |-> done,
     sector |-> IF c.op = "udpfs_write" THEN 0 ELSE c.sector,
     count |-> IF c.op = "udpfs_write" THEN 0 ELSE c.count,
     total_chunks |-> total_chunks(c), data |-> Chunk(c, done)]

Message(c) ==
    CASE c.op \in Opens -> udpfs_core_open(c)
      [] c.op \in Closes -> udpfs_core_close(c)
      [] c.op = "udpfs_read" -> udpfs_core_read(c)
      [] c.op \in Writes -> WriteMessage(c)
      [] c.op = "udpfs_lseek64" -> udpfs_core_lseek(c)
      [] c.op = "udpfs_dread" -> udpfs_core_dread(c)
      [] c.op = "udpfs_getstat" -> udpfs_core_getstat(c)
      [] c.op = "udpfs_mkdir" -> udpfs_core_mkdir(c)
      [] c.op = "udpfs_remove" -> udpfs_core_remove(c)
      [] c.op = "udpfs_rmdir" -> udpfs_core_rmdir(c)
      [] c.op \in Reads -> udpfs_core_bread(c)
      [] c.op = "udpfs_bd_init" -> udpfs_core_get_sector_count

MoreChunks(c) == c.op \in Writes /\ done + 1 < total_chunks(c)
-----------------------------------------------------------------------------
(* The course of a call.                                                   *)

Starts(t, c) ==
    /\ at' = [at EXCEPT ![t] = "send"] /\ call' = [call EXCEPT ![t] = c]
    /\ done' = 0 /\ got' = NoBuffer /\ reply' = NoReply /\ due' = Due(due.files, c)

\* A call ends; what it took is given back.
\* A mutant: a block call that fails keeps the semaphore.
GivesBackOnSuccess(c, res) ==
    g_sema' = IF c.op \in FhiCalls /\ res > 0 THEN 1 ELSE g_sema
GivesBack(c, res) == g_sema' = IF c.op \in FhiCalls THEN 1 ELSE g_sema

Returns(t, res) ==
    /\ at' = [at EXCEPT ![t] = "idle"] /\ call' = [call EXCEPT ![t] = Idle]
    /\ ret' = [op |-> call[t].op, res |-> res, got |-> got']
    /\ due' = IF res < 0 THEN [due EXCEPT !.files = due.old] ELSE due
    /\ GivesBack(call[t], res)
    /\ reply' = NoReply /\ done' = 0

\* A call that returns before it sends anything.
ReturnsAtOnce(c, res) ==
    /\ ret' = [op |-> c.op, res |-> res, got |-> NoBuffer]
    /\ UNCHANGED <<at, call, done, got, reply, due, g_sema>>

UnchangedServer == UNCHANGED <<tree, data, handles, next_handle, write, serving, read_only>>

Spends == left' = [left EXCEPT !.calls = @ - 1]
MayCall(t, c) == at[t] = "idle" /\ left.calls > 0 /\ c.op \in left.ops

\* iomanX lets through what the file was opened for.
IomanAllows(c) ==
    /\ c.op = "udpfs_read" => "RD" \in due.files[c.fd].can
    /\ c.op = "udpfs_write" => "WR" \in due.files[c.fd].can
    /\ c.op \in {"udpfs_dread", "udpfs_dclose"} => "DIR" \in due.files[c.fd].can
    /\ c.op \in {"udpfs_lseek64", "udpfs_close"} => due.files[c.fd].can \ {"DIR"} # {}

\* What a call on files comes to without a message.
_validate_fd(c) ==
    IF ~udpfs_core_is_connected THEN EIO ELSE IF g_fds[c.fd] < 0 THEN EBADF ELSE 0
Refusal(c) ==
    IF c.op \in Opens /\ FreeFds = {} THEN EMFILE
    ELSE IF c.op \in OnFiles THEN _validate_fd(c)
    ELSE IF ~udpfs_core_is_connected THEN EIO ELSE 0

\* A bound: as many files are made as there are inodes for.
RoomFor(c) == c.op = "udpfs_open" /\ Shows(c.path) = "none" => FreshInodes # {}

CallFile(c) ==
    /\ left.as = "ioman" /\ c.op \in udpfs_device_ops
    /\ MayCall(1, c) /\ IomanAllows(c) /\ RoomFor(c)
    /\ IF c.op \in Closes /\ (g_fds[c.fd] < 0 \/ ~udpfs_core_is_connected)
       THEN \* the slot is freed all the same
            /\ ReturnsAtOnce(c, IF g_fds[c.fd] < 0 THEN EBADF ELSE 0)
            /\ g_fds' = [g_fds EXCEPT ![c.fd] = -1]
       ELSE /\ IF Refusal(c) < 0 THEN ReturnsAtOnce(c, Refusal(c))
               ELSE IF c.op = "udpfs_read" /\ c.size = 0 THEN ReturnsAtOnce(c, 0)
               ELSE Starts(1, c) /\ UNCHANGED <<ret, g_sema>>
            /\ UNCHANGED g_fds
    /\ Spends /\ UnchangedServer /\ UNCHANGED <<link, fhi, bd>>

\* fhi_read and fhi_write: the connection is looked at before the semaphore
\* is taken, and again after.
CallFhi(t, c) ==
    /\ left.as = "fhi" /\ c.op \in FhiCalls /\ MayCall(t, c)
    /\ IF ~udpfs_core_is_connected \/ fhi[c.fd] < 0 THEN ReturnsAtOnce(c, 0)
       ELSE /\ at' = [at EXCEPT ![t] = "lock"] /\ call' = [call EXCEPT ![t] = c]
            /\ UNCHANGED <<done, got, reply, due, g_sema, ret>>
    /\ Spends /\ UnchangedServer /\ UNCHANGED <<link, g_fds, fhi, bd>>

FhiLock(t) ==
    /\ at[t] = "lock" /\ g_sema = 1
    /\ IF ~udpfs_core_is_connected THEN got' = NoBuffer /\ Returns(t, 0)
       ELSE Starts(t, call[t]) /\ g_sema' = 0 /\ UNCHANGED ret
    /\ UnchangedServer /\ UNCHANGED <<link, g_fds, fhi, bd, left>>

\* udpfs_bd_read and udpfs_bd_write: cut off at the end of the device.
Clamped(c) ==
    [c EXCEPT !.count = Smaller(@, bd - c.sector),
              !.data = SubSeq(@, 1, SectorUnits * Smaller(c.count, bd - c.sector))]
CallBd(c) ==
    /\ left.as = "bd" /\ c.op \in BdCalls /\ bd > 0 /\ MayCall(1, c)
    /\ IF ~udpfs_core_is_connected THEN ReturnsAtOnce(c, EIO)
       ELSE IF c.sector >= bd THEN ReturnsAtOnce(c, EINVAL)
       ELSE Starts(1, Clamped(c)) /\ UNCHANGED <<ret, g_sema>>
    /\ Spends /\ UnchangedServer /\ UNCHANGED <<link, g_fds, fhi, bd>>

-----------------------------------------------------------------------------
(* A message and its reply.                                                *)

Sent(t) ==
    /\ at' = [at EXCEPT ![t] = IF MoreChunks(call[t]) THEN "send" ELSE "wait"]
    /\ done' = IF call[t].op \in Writes THEN done + 1 ELSE done
    /\ UNCHANGED <<g_fds, fhi, bd, g_sema, call, got, ret, left, due>>

Exchange(t) ==
    /\ at[t] = "send" /\ link = "up" /\ serving
    /\ Serve(Message(call[t])) /\ Sent(t)
    /\ UNCHANGED link

\* A write that was refused at its first chunk: while the server waits for
\* the ACK of its WRITE_DONE it drops the next one, whose number is used up.
Dropped(t) ==
    /\ at[t] = "send" /\ link = "up" /\ serving /\ reply # NoReply
    /\ link' = "gap" /\ Sent(t) /\ UNCHANGED serverVars

\* The call fails: udprdma gave up and the connection is broken.
Failure(t) ==
    CASE call[t].op \in Closes \union FhiCalls -> 0
      [] call[t].op = "udpfs_read" /\ done > 0 -> done
      [] OTHER -> EIO
Fails(t) ==
    /\ link' = "down"
    /\ got' = got /\ Returns(t, Failure(t))
    /\ g_fds' = IF call[t].op \in Closes THEN [g_fds EXCEPT ![call[t].fd] = -1] ELSE g_fds
    /\ bd' = IF call[t].op = "udpfs_bd_read" THEN 0 ELSE bd
    /\ UnchangedServer /\ UNCHANGED fhi

\* The server does not answer.
NoAnswer(t) ==
    /\ \/ at[t] = "send" /\ (link # "up" \/ ~serving)
       \/ at[t] = "wait" /\ reply = NoReply
    /\ Fails(t) /\ UNCHANGED left

\* A message, or the reply to it, is lost as often as it is sent.
Lost(t) ==
    /\ left.faults > 0 /\ link # "down"
    /\ at[t] = "send" \/ (at[t] = "wait" /\ reply # NoReply)
    /\ Fails(t) /\ left' = [left EXCEPT !.faults = @ - 1]

Took(t) == at[t] = "wait" /\ reply # NoReply /\ UnchangedServer /\ UNCHANGED <<link, fhi, left>>

TakeOpen(t) ==
    /\ Took(t) /\ call[t].op \in Opens
    /\ got' = NoBuffer /\ Returns(t, Smaller(reply.result, 0))
    /\ g_fds' = IF reply.result < 0 THEN g_fds ELSE [g_fds EXCEPT ![_alloc_fd] = reply.result]
    /\ UNCHANGED bd

TakeClose(t) ==
    /\ Took(t) /\ call[t].op \in Closes
    /\ got' = NoBuffer /\ Returns(t, 0)
    /\ g_fds' = [g_fds EXCEPT ![call[t].fd] = -1]
    /\ UNCHANGED bd

\* udpfs_lseek, udpfs_dread, udpfs_getstat, _path_op: the reply is the result.
TakeValue(t) ==
    /\ Took(t) /\ call[t].op \in OnNames \union {"udpfs_lseek64", "udpfs_dread"}
    /\ got' = IF reply.result >= 0 THEN reply.data ELSE NoBuffer
    /\ Returns(t, reply.result)
    /\ UNCHANGED <<g_fds, bd>>

NextMessage(t) ==
    /\ at' = [at EXCEPT ![t] = "send"] /\ reply' = NoReply
    /\ UNCHANGED <<call, g_sema, ret, due>>

\* A read goes on until it has all, or the file ends: a part shorter than
\* asked for is the last.
ReadEnds(c) ==
    \/ reply.result < Smaller(c.size - done, MaxRead)
    \/ done + reply.result = c.size

TakeRead(t) ==
    /\ Took(t) /\ call[t].op = "udpfs_read"
    /\ IF reply.result < 0
       THEN got' = got /\ Returns(t, IF done > 0 THEN done ELSE EIO)
       ELSE /\ got' = got \o reply.data
            /\ IF ReadEnds(call[t]) THEN Returns(t, done + reply.result)
               ELSE NextMessage(t) /\ done' = done + reply.result
    /\ UNCHANGED <<g_fds, bd>>

\* A part of a block read is taken for whole, however short it is.
Whole(n) == [i \in 1 .. n |-> IF i <= Len(reply.data) THEN reply.data[i] ELSE Unwritten]
TakeSectors(t) ==
    /\ Took(t) /\ call[t].op \in Reads
    /\ \E n \in {Smaller(call[t].count - done, MaxSectorRead)} :
         IF reply.result < 0
         THEN /\ got' = got /\ Returns(t, IF call[t].op = "fhi_read" THEN 0 ELSE EIO)
              /\ bd' = IF call[t].op = "fhi_read" THEN bd ELSE 0
         ELSE /\ got' = got \o Whole(n * SectorUnits)
              /\ IF done + n = call[t].count THEN Returns(t, call[t].count)
                 ELSE NextMessage(t) /\ done' = done + n
              /\ UNCHANGED bd
    /\ UNCHANGED g_fds

\* WRITE_DONE: the bytes of a file, or 0 for sectors.
TakeWritten(t) ==
    /\ Took(t) /\ call[t].op \in Writes
    /\ got' = got
    /\ Returns(t, CASE call[t].op = "udpfs_write" -> reply.result
                     [] call[t].op = "fhi_write" -> IF reply.result < 0 THEN 0 ELSE call[t].count
                     [] call[t].op = "udpfs_bd_write" ->
                          IF reply.result < 0 THEN EIO ELSE call[t].count)
    /\ UNCHANGED <<g_fds, bd>>

\* udpfs_bd_init connects the device, or udpfs_core_exit ends it.
TakeCapacity(t) ==
    /\ at[t] = "wait" /\ reply # NoReply /\ call[t].op = "udpfs_bd_init"
    /\ got' = NoBuffer
    /\ IF reply.result < 0 THEN Returns(t, -1) /\ bd' = 0 /\ link' = "down"
       ELSE /\ Returns(t, reply.data[2] \div SectorUnits)
            /\ bd' = reply.data[2] \div SectorUnits /\ UNCHANGED link
    /\ UnchangedServer /\ UNCHANGED <<g_fds, fhi, left>>

-----------------------------------------------------------------------------
(* An IOP is reset and the modules for the next stage are started.         *)

\* The loader leaves the files open, and their handles in fhi_fileid
\* (udpfs_ioctl2); a reset in the middle leaves nothing to the next stage.
Orderly == \A t \in Threads : at[t] = "idle"
HandedOver(next) == next = "fhi" /\ Orderly /\ left.as = "ioman"

\* udpfs_ioctl2 is asked of files.
FileId(fd) == IF due.files[fd].kind = "dir" THEN -1 ELSE g_fds[fd]

\* udpfs_core_init finds the server, if it runs.
Boot ==
    /\ left.plan # <<>>
    /\ Orderly \/ (left.faults > 0 /\ Head(left.plan).as # "fhi")
    /\ left' = [plan |-> Tail(left.plan), as |-> Head(left.plan).as, ops |-> Head(left.plan).ops,
                calls |-> Head(left.plan).calls,
                faults |-> IF Orderly THEN left.faults ELSE left.faults - 1,
                since |-> next_handle, pc |-> left.pc /\ HandedOver(Head(left.plan).as)]
    /\ link' = IF serving THEN "up" ELSE "down"
    /\ g_fds' = [fd \in Fds |-> -1]
    /\ fhi' = [fd \in Fds |-> IF HandedOver(Head(left.plan).as) THEN FileId(fd) ELSE -1]
    /\ bd' = 0 /\ g_sema' = 1 /\ done' = 0 /\ got' = NoBuffer /\ reply' = NoReply
    /\ \E c \in {IF Head(left.plan).as = "bd" /\ serving THEN [op |-> "udpfs_bd_init"] ELSE Idle} :
         /\ call' = [t \in Threads |-> IF t = 1 THEN c ELSE Idle]
         /\ at' = [t \in Threads |-> IF t = 1 /\ c # Idle THEN "send" ELSE "idle"]
    /\ due' = [due EXCEPT !.res = DeviceSectors, !.got = NoBuffer, !.tree = tree, !.data = data,
                          !.files = IF HandedOver(Head(left.plan).as) THEN @
                                    ELSE [fd \in Fds |-> Closed],
                          !.old = [fd \in Fds |-> Closed]]
    /\ UnchangedServer /\ UNCHANGED ret

\* The server is stopped and started: it expects packet 0 and knows no handle.
PcRestarts ==
    /\ left.faults > 0 /\ left' = [left EXCEPT !.faults = @ - 1, !.since = 1, !.pc = TRUE]
    /\ ServerRestart
    /\ link' = IF link = "up" THEN "gap" ELSE link
    /\ UNCHANGED <<g_fds, fhi, bd, g_sema, at, call, done, got, ret, due>>

-----------------------------------------------------------------------------
(* The console and the server together.                                   *)

Init == ServerInit /\ ClientInit

Next ==
    \/ \E c \in Inputs : CallFile(c) \/ CallBd(c)
    \/ \E t \in Threads :
         \/ \E c \in Inputs : CallFhi(t, c)
         \/ FhiLock(t) \/ Exchange(t) \/ Dropped(t) \/ NoAnswer(t) \/ Lost(t)
         \/ TakeOpen(t) \/ TakeClose(t) \/ TakeValue(t) \/ TakeRead(t)
         \/ TakeSectors(t) \/ TakeWritten(t) \/ TakeCapacity(t)
    \/ Boot \/ PcRestarts

Spec == Init /\ [][Next]_vars /\ WF_vars(Next)

-----------------------------------------------------------------------------

\* A call with a message returns in this step.
Returned(t) ==
    at[t] \in {"send", "wait"} /\ at'[t] = "idle" /\ left'.plan = left.plan
Worked == IF ret'.op \in FhiCalls THEN ret'.res > 0 ELSE ret'.res >= 0

\* A call that reports success did what it would have done to local files:
\* the result, the bytes in the buffer, the files. A read may have less when
\* the connection broke meanwhile. A call that fails over a connection that
\* is up would have failed there, or the server has no handle left, or was
\* started anew and has forgotten those the game was handed.
CallsDoAsOnLocalFiles ==
    [][\A t \in Threads : Returned(t) =>
         /\ Worked =>
              /\ <<tree, data>> = <<due.tree, due.data>>
              /\ IF ret'.op = "udpfs_read" /\ link' = "down"
                 THEN ret'.got = SubSeq(due.got, 1, ret'.res)
                 ELSE ret'.res = due.res /\ SubSeq(ret'.got, 1, Len(due.got)) = due.got
         /\ ~Worked /\ link' # "down" => due.res < 0 \/ TableFull \/ left.pc]_vars

\* A file on the server changes in one step, from what it was to what the
\* call under way makes of it: no part of a write, of another write, or of
\* one cut short by a reset.
OnlyWholeWrites ==
    [][<<tree, data>>' # <<tree, data>> =>
         /\ \E t \in Threads : at[t] = "send"
         /\ <<tree, data>>' = <<due.tree, due.data>>]_vars

SameFile(handle, f) ==
    /\ handle \in DOMAIN handles
    /\ handles[handle].kind = f.kind
    /\ f.kind # "dir" => handles[handle].ino = f.ino
\* And what comes next from it is the same.
SamePlace(handle, f) ==
    IF f.kind = "dir" THEN handles[handle].entries = f.names ELSE handles[handle].pos = f.pos

\* Between two calls the console's handles are open on the server for the
\* file they were opened for, and at the caller's position; those that a game
\* was handed over still are. The server has no others of this stage.
HandlesMatch ==
    Orderly /\ link = "up" /\ ~left.pc =>
      /\ left.as = "ioman" =>
           /\ \A fd \in Fds :
                IF g_fds[fd] < 0 THEN due.files[fd] = Closed
                ELSE SameFile(g_fds[fd], due.files[fd]) /\ SamePlace(g_fds[fd], due.files[fd])
           /\ \A h \in DOMAIN handles : h >= left.since => \E fd \in Fds : g_fds[fd] = h
      /\ left.as = "fhi" =>
           \A fd \in Fds : fhi[fd] >= 0 => SameFile(fhi[fd], due.files[fd])

\* Every call returns, and lets the next caller in.
CallsReturn == \A t \in Threads : at[t] # "idle" ~> at[t] = "idle"
====

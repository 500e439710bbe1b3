---- MODULE UdpfsHandlers ----
(***************************************************************************)
(* The messages of UDPFS as the server handles them: the handlers of       *)
(* neutrino/pc/udpfs_server.py.  A handler runs to its end before the next *)
(* packet is looked at, so it is one step: it changes the files, the table *)
(* of handles or the write under way, and sends a reply, or only an ACK.   *)
(* How the packets get there is the subject of Udprdma; here a message is  *)
(* handled once, and its reply waits in reply for the client to take it.   *)
(*                                                                         *)
(* A file is a sequence of units, SectorUnits to a sector.                 *)
(***************************************************************************)
EXTENDS Integers, Sequences, FiniteSets, SequencesExt, TLC

CONSTANTS
    Paths,        \* the names there may be, without the root
    Parent,       \* of each its directory, "" for the root
    Backing,      \* of each name <file>.iso of a compressed file: the file
    Unpacked,     \* of each inode, what it decompresses to
    RootDir,      \* whether the server was given a directory
    BlockDevice,  \* the inode of its block device, 0 for none
    MaxHandles,   \* MAX_HANDLES
    SectorUnits,
    Tree0, Data0  \* the files at the start

Names == Paths \union {""}
Inodes == DOMAIN Data0

\* There are files, directories in the root, and files in those.
ASSUME NamesAssumption ==
    /\ IsFiniteSet(Paths) /\ "" \notin Paths
    /\ Parent \in [Paths -> Names]
    /\ \A p \in Paths : Parent[p] # "" => Parent[Parent[p]] = ""
    /\ DOMAIN Backing \subseteq Paths /\ Backing \in [DOMAIN Backing -> Paths]

Entries == [kind : {"file"}, ino : Inodes] \union [kind : {"dir", "none"}, ino : {0}]

\* What is there at the start: a file is in a directory that is there.
ASSUME FilesAssumption ==
    /\ Inodes \subseteq Nat \ {0} /\ Data0 \in [Inodes -> Seq(Int)]
    /\ Unpacked \in [Inodes -> Seq(Int)]
    /\ Tree0 \in [Paths -> Entries]
    /\ \A p \in Paths : Tree0[p].kind # "none" =>
         Parent[p] = "" \/ Tree0[Parent[p]].kind = "dir"
    /\ BlockDevice \in Inodes \union {0}
    /\ MaxHandles \in Nat /\ SectorUnits \in Nat \ {0}

VARIABLES
    tree,        \* what each name is: a file, a directory or nothing
    data,        \* the contents of the inodes
    handles,     \* self.handles
    next_handle,
    write,       \* the write_... fields: a write of which chunks came
    reply,       \* the last reply sent and not yet taken
    serving,     \* the server runs
    read_only    \* --read-only

serverVars == <<tree, data, handles, next_handle, write, reply, serving, read_only>>

ENOENT == -2
EIO == -5
EBADF == -9
EACCES == -13
EEXIST == -17
ENOTDIR == -20
EISDIR == -21
EINVAL == -22
EMFILE == -24
ENOTEMPTY == -39

\* What os.path tells of a name; the root is a directory that is there.
Kind(path) == IF path = "" THEN "dir" ELSE tree[path].kind
Exists(path) == Kind(path) # "none"
Nothing == [kind |-> "none", ino |-> 0]
Children(dir) == {p \in Paths : Parent[p] = dir /\ Exists(p)}

InUse == {tree[p].ino : p \in Paths} \union {handles[h].ino : h \in DOMAIN handles}
FreshInodes == (DOMAIN data) \ (InUse \union {0})
NewInode == CHOOSE i \in FreshInodes : TRUE

NoWrite == [handle |-> -1, is_block |-> FALSE, sector_nr |-> 0, sector_count |-> 0,
            data |-> <<>>, received_chunks |-> 0]

\* bd_sector_count.
DeviceSectors == IF BlockDevice = 0 THEN 0 ELSE Len(Data0[BlockDevice]) \div SectorUnits

FileHandle(kind, ino, pos, mode, entries) ==
    [kind |-> kind, ino |-> ino, pos |-> pos, mode |-> mode, entries |-> entries]

BlockDeviceHandle ==
    [h \in IF BlockDevice = 0 THEN {} ELSE {0} |->
        FileHandle("file", BlockDevice, 0, IF read_only THEN "rb" ELSE "r+b", <<>>)]

NoReply == [type |-> "none", result |-> 0, data |-> <<>>]

ServerInit ==
    /\ read_only \in BOOLEAN
    /\ tree = Tree0 /\ data = Data0
    /\ handles = BlockDeviceHandle /\ next_handle = 1
    /\ write = NoWrite /\ reply = NoReply /\ serving = TRUE

\* The program on the PC is stopped and started again.
ServerRestart ==
    /\ handles' = BlockDeviceHandle /\ next_handle' = 1
    /\ write' = NoWrite /\ reply' = NoReply /\ serving' = TRUE
    /\ UNCHANGED <<tree, data, read_only>>

-----------------------------------------------------------------------------
(* What the handlers send, and the tables they share.                      *)

\* Only the ACK that every packet gets.
Acked == UNCHANGED reply
Reply(type, result, content) ==
    reply' = [type |-> type, result |-> result, data |-> content]

_send_open_reply(handle) == Reply("OPEN_REPLY", handle, <<>>)
_send_close_reply(result) == Reply("CLOSE_REPLY", result, <<>>)
_send_read_result(result, content) == Reply("RESULT_REPLY", result, content)
_send_result_reply(result) == Reply("RESULT_REPLY", result, <<>>)
_send_write_done(result) == Reply("WRITE_DONE", result, <<>>)
_send_lseek_reply(position) == Reply("LSEEK_REPLY", position, <<>>)
_send_dread_reply(result, entry) == Reply("DREAD_REPLY", result, entry)
_send_getstat_reply(result, stat) == Reply("GETSTAT_REPLY", result, stat)

\* An exception that no handler expects ends the program: an error of the
\* file object without a number.
Ends == serving' = FALSE /\ UNCHANGED <<tree, data, handles, next_handle, write, reply>>

ServesOn == serving' = TRUE

Content(h) == IF h.kind = "alias" THEN Unpacked[h.ino] ELSE data[h.ino]
Readable(h) == h.kind = "alias" \/ h.mode \in {"rb", "r+b", "w+b", "a+b"}
Writable(h) == h.kind = "file" /\ h.mode # "rb"

IsFile(handle) == handle \in DOMAIN handles /\ handles[handle].kind # "dir"
IsDir(handle) == handle \in DOMAIN handles /\ handles[handle].kind = "dir"

Smaller(a, b) == IF a < b THEN a ELSE b
Larger(a, b) == IF a > b THEN a ELSE b

\* What read(size) of a file object at pos returns.
ReadAt(content, pos, size) == SubSeq(content, pos + 1, Smaller(pos + size, Len(content)))

\* The file after write() at pos: a hole reads as zero.
WrittenAt(content, pos, new) ==
    [i \in 1 .. Larger(Len(content), pos + Len(new)) |->
        IF i > pos /\ i <= pos + Len(new) THEN new[i - pos]
        ELSE IF i <= Len(content) THEN content[i] ELSE 0]

\* A wrapper of a compressed file stays inside it.
SeekTo(h, target) ==
    IF h.kind = "alias" THEN Larger(0, Smaller(target, Len(Content(h)))) ELSE target

\* _alloc_handle; the number of a handle is not used again.
NewHandle == next_handle

TableFull == Cardinality(DOMAIN handles) >= MaxHandles

_alloc_handle(h) ==
    /\ handles' = [k \in DOMAIN handles \union {NewHandle} |->
                      IF k = NewHandle THEN h ELSE handles[k]]
    /\ next_handle' = next_handle + 1

\* The block device stays open.
\* A mutant: the handle is closed and kept.
_free_handle_kept(handle) == UNCHANGED handles
_free_handle(handle) ==
    handles' = IF handle = 0 THEN handles
               ELSE [h \in DOMAIN handles \ {handle} |-> handles[h]]

-----------------------------------------------------------------------------
(* Names.                                                                  *)

\* The file that a name <file>.iso stands for, when there is no such file.
_find_compressed_version(path) ==
    IF ~Exists(path) /\ path \in DOMAIN Backing /\ Exists(Backing[path])
    THEN Backing[path] ELSE ""

Actual(path) ==
    IF _find_compressed_version(path) # "" THEN _find_compressed_version(path) ELSE path

\* A stat: what it is and its size.
_stat_to_bytes(path) ==
    IF Kind(path) = "dir" THEN <<"dir", 0>> ELSE <<"file", Len(data[tree[path].ino])>>

\* get_compressed_info fails on what it cannot open as a compressed file.
Unpacks(path) == Kind(path) = "file" /\ Unpacked[tree[path].ino] # <<>>
_get_compressed_stat(path) == <<"file", Len(Unpacked[tree[path].ino])>>

AliasOf(path) == CHOOSE a \in DOMAIN Backing : Backing[a] = path
IsCompressed(path) == \E a \in DOMAIN Backing : Backing[a] = path

_transform_compressed_name(path) == IF IsCompressed(path) THEN AliasOf(path) ELSE path

\* The Python mode for the flags of an open.
_flags_to_mode(flags, exists) ==
    CASE flags \intersect {"RD", "WR"} = {"RD"} -> "rb"
      [] flags \intersect {"RD", "WR"} = {"WR"} ->
            CASE "APPEND" \in flags -> "ab"
              [] "APPEND" \notin flags /\ "TRUNC" \in flags -> "wb"
              [] "CREAT" \in flags /\ ~exists /\ flags \intersect {"APPEND", "TRUNC"} = {} -> "wb"
              [] OTHER -> "r+b"
      [] flags \intersect {"RD", "WR"} = {"RD", "WR"} /\ "CREAT" \in flags ->
            CASE "TRUNC" \in flags -> "w+b"
              [] "TRUNC" \notin flags /\ "APPEND" \in flags -> "a+b"
              [] OTHER -> IF exists THEN "r+b" ELSE "w+b"
      [] OTHER -> IF {"RD", "WR"} \subseteq flags THEN "r+b" ELSE "rb"

\* open() of Python: the file is made or emptied, and before that makedirs
\* makes its directory.
Opened(path, ino, mode) ==
    /\ tree' = [p \in Paths |->
                   IF p = path THEN [kind |-> "file", ino |-> ino]
                   ELSE IF p = Parent[path] THEN [kind |-> "dir", ino |-> 0] ELSE tree[p]]
    /\ data' = IF mode \in {"wb", "w+b"} \/ ~Exists(path)
               THEN [data EXCEPT ![ino] = <<>>] ELSE data

\* A file that is opened to append to is at its end.
EndOf(path, ino, mode) ==
    IF mode \in {"ab", "a+b"} /\ Exists(path) THEN Len(data[ino]) ELSE 0

-----------------------------------------------------------------------------
(* The handlers of names.                                                  *)

UnchangedFiles == UNCHANGED <<tree, data>>
UnchangedHandles == UNCHANGED <<handles, next_handle>>

OpenRefused(m, error) == _send_open_reply(error) /\ UnchangedFiles /\ UnchangedHandles

OpenDirectory(m) ==
    IF Kind(m.path) = "none" THEN OpenRefused(m, ENOENT)
    ELSE IF Kind(m.path) = "file" THEN OpenRefused(m, ENOTDIR)
    ELSE IF TableFull THEN OpenRefused(m, EMFILE)
    ELSE /\ _alloc_handle(FileHandle("dir", 0, 0, "rb", SetToSeq(Children(m.path))))
         /\ _send_open_reply(NewHandle)
         /\ UnchangedFiles

\* <file>.iso: the wrapper fails on a file it cannot decompress.
OpenCompressed(m) ==
    IF ~Unpacks(Actual(m.path)) THEN OpenRefused(m, EIO)
    ELSE IF TableFull THEN OpenRefused(m, EMFILE)
    ELSE /\ _alloc_handle(FileHandle("alias", tree[Actual(m.path)].ino, 0, "rb", <<>>))
         /\ _send_open_reply(NewHandle)
         /\ UnchangedFiles

\* The file is opened before there is a handle for it.
OpenFile(m, ino, mode) ==
    /\ Opened(m.path, ino, mode)
    /\ IF TableFull THEN _send_open_reply(EMFILE) /\ UnchangedHandles
       ELSE /\ _alloc_handle(FileHandle("file", ino, EndOf(m.path, ino, mode), mode, <<>>))
            /\ _send_open_reply(NewHandle)

\* A file that is not there is not made to be read only, but its directory is.
OpenMissing(m) ==
    /\ tree' = [tree EXCEPT ![Parent[m.path]] = [kind |-> "dir", ino |-> 0]]
    /\ UNCHANGED data
    /\ _send_open_reply(ENOENT) /\ UnchangedHandles

_handle_open(m) ==
    /\ m.op = "open" /\ ServesOn /\ UNCHANGED write
    /\ IF ~RootDir THEN OpenRefused(m, EACCES)
       ELSE IF m.is_dir THEN OpenDirectory(m)
       ELSE IF read_only /\ "WR" \in m.flags THEN OpenRefused(m, EACCES)
       ELSE IF ~Exists(Actual(m.path)) /\ "CREAT" \notin m.flags THEN OpenRefused(m, ENOENT)
       ELSE IF Actual(m.path) # m.path THEN OpenCompressed(m)
       ELSE IF Kind(m.path) = "dir" THEN OpenRefused(m, EISDIR)
       ELSE IF Kind(Parent[m.path]) = "file" THEN OpenRefused(m, ENOTDIR)
       ELSE IF ~Exists(m.path) /\ _flags_to_mode(m.flags, FALSE) = "rb" THEN OpenMissing(m)
       ELSE \E ino \in IF Exists(m.path) THEN {tree[m.path].ino}
                       ELSE {i \in FreshInodes : i = NewInode} :
              OpenFile(m, ino, _flags_to_mode(m.flags, Exists(m.path)))

\* A file system is asked by an empty path for the size of the block device.
_handle_getstat(m) ==
    /\ m.op = "getstat" /\ ServesOn
    /\ IF m.path = "" /\ 0 \in DOMAIN handles
       THEN _send_getstat_reply(0, <<"none", SectorUnits * DeviceSectors>>)
       ELSE IF ~RootDir THEN _send_getstat_reply(EACCES, <<>>)
       ELSE IF ~Exists(Actual(m.path)) THEN _send_getstat_reply(ENOENT, <<>>)
       ELSE IF Actual(m.path) = m.path THEN _send_getstat_reply(0, _stat_to_bytes(m.path))
       ELSE IF ~Unpacks(Actual(m.path)) THEN _send_getstat_reply(EIO, <<>>)
       ELSE _send_getstat_reply(0, _get_compressed_stat(Actual(m.path)))
    /\ UnchangedFiles /\ UnchangedHandles /\ UNCHANGED write

MayNot == IF read_only \/ ~RootDir THEN EACCES ELSE 0

_handle_mkdir(m) ==
    /\ m.op = "mkdir" /\ ServesOn
    /\ \E error \in {IF MayNot # 0 THEN MayNot
                     ELSE IF Exists(m.path) THEN EEXIST
                     ELSE CASE Kind(Parent[m.path]) = "dir" -> 0
                            [] Kind(Parent[m.path]) = "file" -> ENOTDIR
                            [] Kind(Parent[m.path]) = "none" -> ENOENT} :
         /\ _send_result_reply(error)
         /\ tree' = IF error # 0 THEN tree
                    ELSE [tree EXCEPT ![m.path] = [kind |-> "dir", ino |-> 0]]
    /\ UNCHANGED <<data, write>> /\ UnchangedHandles

_handle_remove(m) ==
    /\ m.op = "remove" /\ ServesOn
    /\ \E error \in {IF MayNot # 0 THEN MayNot
                     ELSE IF ~Exists(m.path) THEN ENOENT
                     ELSE IF Kind(m.path) = "dir" THEN EISDIR ELSE 0} :
         /\ _send_result_reply(error)
         /\ tree' = IF error # 0 THEN tree ELSE [tree EXCEPT ![m.path] = Nothing]
    /\ UNCHANGED <<data, write>> /\ UnchangedHandles

_handle_rmdir(m) ==
    /\ m.op = "rmdir" /\ ServesOn
    /\ \E error \in {IF MayNot # 0 THEN MayNot
                     ELSE IF ~Exists(m.path) THEN ENOENT
                     ELSE IF Kind(m.path) # "dir" THEN ENOTDIR
                     ELSE IF Children(m.path) # {} THEN ENOTEMPTY ELSE 0} :
         /\ _send_result_reply(error)
         /\ tree' = IF error # 0 THEN tree ELSE [tree EXCEPT ![m.path] = Nothing]
    /\ UNCHANGED <<data, write>> /\ UnchangedHandles

-----------------------------------------------------------------------------
(* The handlers of open files.                                             *)

_handle_close(m) ==
    /\ m.op = "close" /\ ServesOn
    /\ _free_handle(m.handle)
    /\ _send_close_reply(IF m.handle = 0 \/ m.handle \in DOMAIN handles THEN 0 ELSE EBADF)
    /\ UnchangedFiles /\ UNCHANGED <<next_handle, write>>

_handle_read(m) ==
    /\ m.op = "read"
    /\ IF ~IsFile(m.handle)
       THEN /\ _send_read_result(EBADF, <<>>) /\ ServesOn
            /\ UnchangedFiles /\ UnchangedHandles /\ UNCHANGED write
       ELSE IF ~Readable(handles[m.handle]) THEN Ends
       ELSE /\ \E h \in {handles[m.handle]} :
                 \E got \in {ReadAt(Content(h), h.pos, m.size)} :
                    /\ handles' = [handles EXCEPT ![m.handle].pos = h.pos + Len(got)]
                    /\ _send_read_result(Len(got), got)
            /\ ServesOn /\ UnchangedFiles /\ UNCHANGED <<next_handle, write>>

_handle_lseek(m) ==
    /\ m.op = "lseek" /\ ServesOn
    /\ IF ~IsFile(m.handle) THEN _send_lseek_reply(EBADF) /\ UNCHANGED handles
       ELSE \E h \in {handles[m.handle]} :
              \E target \in {m.offset + CASE m.whence = "SET" -> 0
                                          [] m.whence = "CUR" -> h.pos
                                          [] m.whence = "END" -> Len(Content(h))} :
                IF h.kind = "file" /\ target < 0
                THEN _send_lseek_reply(EINVAL) /\ UNCHANGED handles
                ELSE /\ handles' = [handles EXCEPT ![m.handle].pos = SeekTo(h, target)]
                     /\ _send_lseek_reply(SeekTo(h, target))
    /\ UnchangedFiles /\ UNCHANGED <<next_handle, write>>

\* An entry that is gone by now ends the list.
_handle_dread(m) ==
    /\ m.op = "dread" /\ ServesOn
    /\ IF ~IsDir(m.handle) THEN _send_dread_reply(EBADF, <<>>) /\ UNCHANGED handles
       ELSE IF handles[m.handle].entries = <<>>
       THEN _send_dread_reply(0, <<>>) /\ UNCHANGED handles
       ELSE \E entry \in {Head(handles[m.handle].entries)} :
              /\ handles' = [handles EXCEPT ![m.handle].entries = Tail(@)]
              /\ IF ~Exists(entry) THEN _send_dread_reply(0, <<>>)
                 ELSE IF IsCompressed(entry) /\ Unpacks(entry)
                 THEN _send_dread_reply(1, <<_transform_compressed_name(entry)>>
                                              \o _get_compressed_stat(entry))
                 ELSE _send_dread_reply(1, <<entry>> \o _stat_to_bytes(entry))
    /\ UnchangedFiles /\ UNCHANGED <<next_handle, write>>

_handle_bread(m) ==
    /\ m.op = "bread"
    /\ IF ~IsFile(m.handle)
       THEN /\ _send_read_result(EBADF, <<>>) /\ ServesOn
            /\ UnchangedFiles /\ UnchangedHandles /\ UNCHANGED write
       ELSE IF ~Readable(handles[m.handle]) THEN Ends
       ELSE /\ \E h \in {handles[m.handle]} :
                 \E from \in {SeekTo(h, m.sector * SectorUnits)} :
                   \E got \in {ReadAt(Content(h), from, m.count * SectorUnits)} :
                     /\ handles' = [handles EXCEPT ![m.handle].pos = from + Len(got)]
                     /\ _send_read_result(Len(got), got)
            /\ ServesOn /\ UnchangedFiles /\ UNCHANGED <<next_handle, write>>

-----------------------------------------------------------------------------
(* Writes: a request with the first chunk, then the chunks; the last one   *)
(* is answered when all are there and written in one go.                   *)

\* Where a write of a file goes, and up to where the chunks count.
WriteAt(w, h) ==
    IF w.is_block THEN SeekTo(h, w.sector_nr * SectorUnits)
    ELSE IF h.mode \in {"ab", "a+b"} THEN Len(data[h.ino]) ELSE h.pos
WriteData(w) ==
    IF w.is_block THEN SubSeq(w.data, 1, Smaller(Len(w.data), w.sector_count * SectorUnits))
    ELSE w.data

\* _complete_write and _complete_bwrite.
Complete(w) ==
    IF ~IsFile(w.handle)
    THEN /\ _send_write_done(EBADF) /\ ServesOn
         /\ write' = w /\ UnchangedFiles /\ UnchangedHandles
    ELSE IF ~Writable(handles[w.handle]) THEN Ends
    ELSE \E h \in {handles[w.handle]} : \E at \in {WriteAt(w, h)} : \E new \in {WriteData(w)} :
           /\ data' = [data EXCEPT ![h.ino] = WrittenAt(@, at, new)]
           /\ handles' = [handles EXCEPT ![w.handle].pos = at + Len(new)]
           /\ _send_write_done(IF w.is_block THEN 0 ELSE Len(new))
           /\ write' = w /\ ServesOn /\ UNCHANGED <<tree, next_handle>>

\* A chunk out of turn is dropped.
InTurn(w, m) == m.chunk_nr = w.received_chunks

TakeChunk(w, m) ==
    IF ~InTurn(w, m)
    THEN /\ Acked /\ ServesOn /\ write' = w /\ UnchangedFiles /\ UnchangedHandles
    ELSE \E v \in {[w EXCEPT !.data = @ \o m.data, !.received_chunks = @ + 1]} :
           IF v.received_chunks >= m.total_chunks THEN Complete(v)
           ELSE Acked /\ ServesOn /\ write' = v /\ UnchangedFiles /\ UnchangedHandles

_handle_write_data(m) == m.op = "write_data" /\ TakeChunk(write, m)

WriteRefused(m) ==
    \/ read_only
    \/ ~IsFile(m.handle)

\* The request starts anew, whatever the last one came to.
\* A mutant: the chunks of an earlier request are kept.
NewWriteKeeps(m) == [write EXCEPT !.handle = m.handle, !.is_block = m.op = "bwrite",
                                  !.sector_nr = m.sector, !.sector_count = m.count]
NewWrite(m) == [handle |-> m.handle, is_block |-> m.op = "bwrite", sector_nr |-> m.sector,
                sector_count |-> m.count, data |-> <<>>, received_chunks |-> 0]

StartWrite(m) ==
    IF WriteRefused(m)
    THEN /\ _send_write_done(IF read_only THEN EACCES ELSE EBADF)
         /\ ServesOn /\ UnchangedFiles /\ UnchangedHandles /\ UNCHANGED write
    ELSE TakeChunk(NewWrite(m), m)

_handle_write_req(m) == m.op = "write" /\ StartWrite(m)
_handle_bwrite_req(m) == m.op = "bwrite" /\ StartWrite(m)

-----------------------------------------------------------------------------

\* _handle_data: a message is dispatched by its type.
Serve(m) ==
  /\ UNCHANGED read_only
  /\ \/ _handle_open(m) \/ _handle_close(m) \/ _handle_read(m)
     \/ _handle_write_req(m) \/ _handle_write_data(m) \/ _handle_lseek(m)
     \/ _handle_dread(m) \/ _handle_getstat(m) \/ _handle_mkdir(m)
     \/ _handle_remove(m) \/ _handle_rmdir(m)
     \/ _handle_bread(m) \/ _handle_bwrite_req(m)
====

---- MODULE LocalFiles ----
(***************************************************************************)
(* What the calls on UDPFS promise: to do what they would do on a local    *)
(* file system.  due is what the call under way would come to there: its   *)
(* result, what it puts in the buffer, the files after it, and the table   *)
(* of open files after it and before (old): of each slot the file, the     *)
(* position and the names still to list.                                   *)
(***************************************************************************)
EXTENDS UdpfsHandlers

VARIABLE due

NoBuffer == <<>>
Closed == [kind |-> "none", ino |-> 0, pos |-> 0, can |-> {}, names |-> <<>>]
\* What leaves the files as they are; files: the table before.
Result(files, res, bytes) ==
    [res |-> res, got |-> bytes, tree |-> tree, data |-> data, files |-> files, old |-> files]

\* A name shows a file, a directory, the unpacked form of a file, one that
\* does not unpack, or nothing.
Shows(path) ==
    IF _find_compressed_version(path) = "" THEN Kind(path)
    ELSE IF Unpacks(_find_compressed_version(path)) THEN "alias" ELSE "broken"
ShownIno(path) == tree[Actual(path)].ino
ShownSize(path) == IF Shows(path) = "alias" THEN Len(Unpacked[ShownIno(path)])
                   ELSE Len(data[ShownIno(path)])
Bytes(f) == IF f.kind = "alias" THEN Unpacked[f.ino] ELSE data[f.ino]

\* An open that is refused, and one that leaves the files as they are.
Refuses(c) ==
    \/ ~RootDir \/ (read_only /\ "WR" \in c.flags)
    \/ (Shows(c.path) = "none" /\ ("CREAT" \notin c.flags \/ Kind(Parent[c.path]) = "file"))
    \/ Shows(c.path) \in {"dir", "broken"}
Keeps(c) == Shows(c.path) = "alias" \/ ("TRUNC" \notin c.flags /\ Exists(c.path))

\* A file that was there; one that was made or emptied; a directory.
KeptFile(c) ==
    [kind |-> Shows(c.path), ino |-> ShownIno(c.path),
     pos |-> IF "APPEND" \in c.flags /\ Shows(c.path) = "file" THEN ShownSize(c.path) ELSE 0,
     can |-> c.flags, names |-> <<>>]
MadeIno(c) == IF Exists(c.path) THEN tree[c.path].ino ELSE NewInode
MadeFile(c) == [kind |-> "file", ino |-> MadeIno(c), pos |-> 0, can |-> c.flags, names |-> <<>>]
ListedDir(path) ==
    [kind |-> "dir", ino |-> 0, pos |-> 0, can |-> {"DIR"}, names |-> SetToSeq(Children(path))]

\* The tree with a file, and its directory.
MadeTree(path, ino) ==
    [p \in Paths |-> IF p = path THEN [kind |-> "file", ino |-> ino]
                     ELSE IF p = Parent[path] THEN [kind |-> "dir", ino |-> 0] ELSE tree[p]]

LocalOpen(files, slot, c) ==
    IF Refuses(c) THEN Result(files, EIO, NoBuffer)
    ELSE IF Keeps(c) THEN [Result(files, 0, NoBuffer) EXCEPT !.files[slot] = KeptFile(c)]
    ELSE [Result(files, 0, NoBuffer) EXCEPT
            !.tree = MadeTree(c.path, MadeIno(c)), !.data[MadeIno(c)] = <<>>,
            !.files[slot] = MadeFile(c)]

LocalDopen(files, slot, c) ==
    IF ~RootDir \/ Kind(c.path) # "dir" THEN Result(files, EIO, NoBuffer)
    ELSE [Result(files, 0, NoBuffer) EXCEPT !.files[slot] = ListedDir(c.path)]

LocalRead(files, c) ==
    LET f == files[c.fd]
        bytes == ReadAt(Bytes(f), f.pos, c.size)
    IN  [Result(files, Len(bytes), bytes) EXCEPT !.files[c.fd].pos = f.pos + Len(bytes)]

\* Where a write goes.
WriteFrom(f) == IF "APPEND" \in f.can THEN Len(data[f.ino]) ELSE f.pos

LocalWrite(files, c) ==
    LET f == files[c.fd]
        from == WriteFrom(f)
    IN  [Result(files, c.size, NoBuffer) EXCEPT
           !.data[f.ino] = WrittenAt(data[f.ino], from, c.data),
           !.files[c.fd].pos = from + c.size]

SeekTarget(f, c) ==
    c.offset + CASE c.whence = "SET" -> 0 [] c.whence = "CUR" -> f.pos
                 [] c.whence = "END" -> Len(Bytes(f))
\* An unpacked file has no place outside it.
SeekPlace(f, c) ==
    IF f.kind = "alias" THEN Larger(0, Smaller(SeekTarget(f, c), Len(Bytes(f))))
    ELSE SeekTarget(f, c)

LocalSeek(files, c) ==
    LET pos == SeekPlace(files[c.fd], c)
    IN  IF pos < 0 THEN Result(files, EINVAL, NoBuffer)
        ELSE [Result(files, pos, NoBuffer) EXCEPT !.files[c.fd].pos = pos]

\* Compressed files are listed as what they unpack to.
LocalDread(files, c) ==
    LET f == files[c.fd]
        name == Head(f.names)
    IN
    IF f.names = <<>> THEN Result(files, 0, NoBuffer)
    ELSE [Result(files, IF Exists(name) THEN 1 ELSE 0,
                 IF ~Exists(name) THEN NoBuffer
                 ELSE IF IsCompressed(name) /\ Unpacks(name)
                 THEN <<AliasOf(name), "file", Len(Unpacked[tree[name].ino])>>
                 ELSE <<name, Kind(name),
                        IF Kind(name) = "dir" THEN 0 ELSE Len(data[tree[name].ino])>>)
          EXCEPT !.files[c.fd].names = Tail(f.names)]

\* The empty name asks for the size of the block device (UDPFS.md:424).
LocalStat(files, c) ==
    IF c.path = "" /\ BlockDevice # 0
    THEN Result(files, 0, <<"none", SectorUnits * DeviceSectors>>)
    ELSE IF ~RootDir THEN Result(files, EACCES, NoBuffer)
    ELSE IF Shows(c.path) = "none" THEN Result(files, ENOENT, NoBuffer)
    ELSE IF Shows(c.path) = "broken" THEN Result(files, EIO, NoBuffer)
    ELSE IF Shows(c.path) = "dir" THEN Result(files, 0, <<"dir", 0>>)
    ELSE Result(files, 0, <<"file", ShownSize(c.path)>>)

LocalName(files, c) ==
    CASE read_only \/ ~RootDir -> Result(files, EACCES, NoBuffer)
      [] ~read_only /\ RootDir /\ c.op = "udpfs_mkdir" ->
           IF Exists(c.path) \/ Kind(Parent[c.path]) # "dir" THEN Result(files, EEXIST, NoBuffer)
           ELSE [Result(files, 0, NoBuffer) EXCEPT !.tree[c.path] = [kind |-> "dir", ino |-> 0]]
      [] ~read_only /\ RootDir /\ c.op = "udpfs_remove" ->
           IF Kind(c.path) # "file" THEN Result(files, ENOENT, NoBuffer)
           ELSE [Result(files, 0, NoBuffer) EXCEPT !.tree[c.path] = Nothing]
      [] ~read_only /\ RootDir /\ c.op = "udpfs_rmdir" ->
           IF Kind(c.path) # "dir" \/ Children(c.path) # {} THEN Result(files, ENOENT, NoBuffer)
           ELSE [Result(files, 0, NoBuffer) EXCEPT !.tree[c.path] = Nothing]

\* Sectors of a file or of the block device.
Sectors(files, ino, content, c, n) ==
    IF read_only /\ c.op \in {"fhi_write", "udpfs_bd_write"} THEN Result(files, EACCES, NoBuffer)
    ELSE IF c.op \in {"fhi_read", "udpfs_bd_read"}
    THEN Result(files, n, ReadAt(content, c.sector * SectorUnits, n * SectorUnits))
    ELSE [Result(files, n, NoBuffer) EXCEPT
            !.data[ino] = WrittenAt(content, c.sector * SectorUnits,
                                    SubSeq(c.data, 1, n * SectorUnits))]
====

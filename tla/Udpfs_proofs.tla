---- MODULE Udpfs_proofs ----
(***************************************************************************)
(* The files and the handles of UDPFS: proofs about Udpfs, for every       *)
(* server, every history of calls, stages and faults, and files of any     *)
(* size.                                                                   *)
(***************************************************************************)
EXTENDS Udpfs, TLAPS, FiniteSetTheorems, SequenceTheorems, WellFoundedInduction

(***************************************************************************)
(* Types.                                                                  *)

Modes == {"rb", "ab", "wb", "r+b", "w+b", "a+b"}
Tables ==
    [kind : {"file", "alias"}, ino : Inodes, pos : Nat, mode : Modes, entries : {<<>>}]
    \union [kind : {"dir"}, ino : {0}, pos : {0}, mode : {"rb"}, entries : Seq(Paths)]
OpenFiles ==
    {Closed}
    \union [kind : {"dir"}, ino : {0}, pos : {0}, can : {{"DIR"}}, names : Seq(Paths)]
    \union [kind : {"file", "alias"}, ino : Inodes, pos : Nat, can : SUBSET Flags, names : {<<>>}]

BdInit == [op |-> "udpfs_bd_init"]
Asked == {c \in Calls : WellMade(c)}

ServerTypes ==
    /\ tree \in [Paths -> Entries]
    /\ data \in [Inodes -> Seq(Int)]
    /\ DOMAIN handles \subseteq Nat /\ handles \in [DOMAIN handles -> Tables]
    /\ next_handle \in Nat \ {0}
    /\ write \in [handle : Int, is_block : BOOLEAN, sector_nr : Nat, sector_count : Nat,
                  data : Seq(Int), received_chunks : Nat]
    /\ reply \in [type : {reply.type}, result : Int, data : {reply.data}]
    /\ serving \in BOOLEAN /\ read_only \in BOOLEAN

\* No file has handle 0; without a block device there are no sectors of it.
Numbers == Int \ {0}
Sizes == {n \in Int : n > 0 => BlockDevice # 0}

ClientTypes ==
    /\ link \in {"up", "gap", "down"}
    /\ g_fds \in [Fds -> Numbers] /\ fhi \in [Fds -> Numbers]
    /\ bd \in Sizes /\ g_sema \in {0, 1} /\ done \in Nat
    /\ at \in [Threads -> {"idle", "lock", "send", "wait"}]
    /\ call \in [Threads -> Asked \union {Idle, BdInit}]
    /\ left \in [plan : {left.plan}, as : {left.as}, ops : {left.ops}, calls : {left.calls},
                 faults : {left.faults}, since : Nat, pc : BOOLEAN]
    /\ due \in [res : {due.res}, got : {due.got}, tree : {due.tree}, data : {due.data},
                files : [Fds -> OpenFiles], old : [Fds -> OpenFiles]]

(***************************************************************************)
(* The server by itself.                                                   *)

\* What is there is in a directory that is there.
TreeInv == \A p \in Paths : tree[p].kind # "none" => Kind(Parent[p]) = "dir"

\* The numbers given out, and handle 0, which is the block device.
TableInv ==
    /\ \A h \in DOMAIN handles : h < next_handle
    /\ 0 \in DOMAIN handles <=> BlockDevice # 0
    /\ BlockDevice # 0 => handles[0].kind = "file" /\ handles[0].ino = BlockDevice

\* Nothing is ever written on a server that may not, nor by the handles of
\* a server that was started anew.
NoWriteInv ==
    /\ read_only => write = NoWrite
    /\ left.pc => /\ write = NoWrite /\ DOMAIN handles \subseteq {0}
                  /\ left.as # "fhi" => link # "up"

(***************************************************************************)
(* The calls under way.                                                    *)

Busy(t) == at[t] \in {"send", "wait"}

BdOps == {op \in BdCalls \union {"udpfs_bd_init"} : op \in BdCalls => BlockDevice # 0}

\* One message at a time, of a call of this stage.
CallsInv ==
    /\ left.as \notin {"ioman", "bd", "fhi"} => \A t \in Threads : at[t] = "idle"
    /\ left.as # "fhi" => at[2] = "idle" /\ at[1] # "lock"
    /\ ~(Busy(1) /\ Busy(2))
    /\ left.as = "fhi" /\ g_sema = 1 => \A t \in Threads : ~Busy(t)
    /\ \A t \in Threads : Busy(t) /\ call[t].op \in Reads => done < call[t].count
    /\ \A t \in Threads : at[t] # "idle" =>
         CASE left.as = "ioman" -> call[t].op \in udpfs_device_ops /\ call[t] # Idle
           [] left.as = "fhi" -> call[t].op \in FhiCalls /\ fhi[call[t].fd] >= 0
           [] left.as = "bd" -> call[t].op \in BdOps
           [] OTHER -> FALSE

\* The size of the block device is a size.
BdReply ==
    \A t \in Threads :
        at[t] # "idle" /\ call[t] = BdInit /\ reply # NoReply /\ reply.result >= 0 =>
            reply.data[2] \in Nat /\ (BlockDevice = 0 => reply.data[2] = 0)

\* While a call sends or reads, it is still to do what it will have done.
Sends(t) == at[t] = "send" \/ (at[t] = "wait" /\ call[t].op \in Reads \union {"udpfs_read"})
DueInv ==
    \A t \in Threads : Sends(t) /\ link = "up" /\ call[t] # BdInit =>
        due = Due(due.old, call[t])

\* The write that the server collects is the one the call sends; of one that
\* it refuses it keeps nothing.
Collected(c) ==
    [handle |-> Handle(c), is_block |-> c.op # "udpfs_write",
     sector_nr |-> IF c.op = "udpfs_write" THEN 0 ELSE c.sector,
     sector_count |-> IF c.op = "udpfs_write" THEN 0 ELSE c.count,
     data |-> SubSeq(c.data, 1, done * ChunkUnits), received_chunks |-> done]
WriteInv ==
    \A t \in Threads :
        at[t] = "send" /\ link = "up" /\ call[t] # BdInit /\ call[t].op \in Writes =>
            /\ done = 0 => reply = NoReply
            /\ done > 0 =>
                 /\ done < total_chunks(call[t])
                 /\ IF reply = NoReply THEN write = Collected(call[t]) ELSE write = NoWrite

(***************************************************************************)
(* The console's handles.                                                  *)

IsOpen(handle, f) ==
    /\ handle \in DOMAIN handles
    /\ handles[handle].kind = f.kind /\ handles[handle].ino = f.ino
    /\ f.kind = "file" => (handles[handle].mode \in {"ab", "a+b"} <=> "APPEND" \in f.can)
AreOpen(table, files) == \A fd \in Fds : table[fd] >= 0 => IsOpen(table[fd], files[fd])

\* A slot that is being closed may be closed already.
Table == IF Busy(1) /\ call[1].op \in Closes THEN [g_fds EXCEPT ![call[1].fd] = -1] ELSE g_fds

\* The files stay open, whatever comes of the calls.
OpenInv ==
    /\ left.as = "ioman" /\ ~left.pc =>
         AreOpen(Table, due.files) /\ (Busy(1) => AreOpen(Table, due.old))
    /\ left.as = "fhi" /\ ~left.pc =>
         AreOpen(fhi, due.files) /\ \A fd \in Fds : fhi[fd] >= 0 => due.files[fd].kind # "dir"
    /\ left.as = "fhi" => due.old = due.files \/ \A t \in Threads : ~Busy(t)
    /\ read_only => \A fd \in Fds : "WR" \notin due.files[fd].can /\ "WR" \notin due.old[fd].can
\* of handles, those from since on are the console's, each of one slot.
Matches(table, files) ==
    /\ \A fd \in Fds :
         IF table[fd] < 0 THEN files[fd] = Closed
         ELSE /\ table[fd] # 0
              /\ IsOpen(table[fd], files[fd]) /\ SamePlace(table[fd], files[fd])
    /\ \A h \in DOMAIN handles : h >= left.since => \E fd \in Fds : table[fd] = h
    /\ \A i, j \in Fds : table[i] >= 0 /\ table[i] = table[j] => i = j

\* The call is one that the file it is on allows.
Allowed(c) ==
    /\ c.op \in OnFiles => g_fds[c.fd] >= 0
    /\ c.op \in Closes => g_fds[c.fd] >= 0
    /\ c.op = "udpfs_read" =>
         /\ "RD" \in due.old[c.fd].can /\ done < c.size
         /\ done > 0 => due.old[c.fd].pos + done <= Len(Bytes(due.old[c.fd]))
    /\ c.op = "udpfs_write" => "WR" \in due.old[c.fd].can
    /\ c.op = "udpfs_lseek64" => due.old[c.fd].kind \in {"file", "alias"}
    /\ c.op \in {"udpfs_dread", "udpfs_dclose"} => due.old[c.fd].kind = "dir"
    /\ c.op \in Opens => FreeFds # {}

Moved(fd, n) == [due.old EXCEPT ![fd].pos = @ + n]

\* What a call that reads has come to.
Come(c) == IF c.op = "udpfs_read" THEN Moved(c.fd, done) ELSE due.old

\* What the reply to a message leaves the console with.
AfterTable(c) ==
    CASE c.op \in Opens /\ reply.result >= 0 -> [g_fds EXCEPT ![_alloc_fd] = reply.result]
      [] c.op \in Closes -> [g_fds EXCEPT ![c.fd] = -1]
      [] OTHER -> g_fds
AfterFiles(c) ==
    CASE c.op = "udpfs_read" -> Moved(c.fd, done + reply.result)
      [] c.op # "udpfs_read" /\ reply.result < 0 -> due.old
      [] OTHER -> due.files
Answered(c) ==
    /\ Matches(AfterTable(c), AfterFiles(c))
    /\ c.op \in Closes => reply.result >= 0
    /\ c.op = "udpfs_read" =>
         /\ reply.result \in Nat /\ reply.result <= c.size - done
         /\ reply.result > 0 =>
              due.old[c.fd].pos + done + reply.result <= Len(Bytes(due.old[c.fd]))
         /\ ReadEnds(c) => AfterFiles(c) = due.files

MatchInv ==
    left.as = "ioman" =>
        /\ Busy(1) => Allowed(call[1])
        /\ at[1] = "send" => reply = NoReply
        /\ link # "up" => reply = NoReply
        /\ link = "up" /\ at[1] = "idle" => Matches(g_fds, due.files)
        /\ link = "up" /\ at[1] = "send" => Matches(g_fds, Come(call[1]))
        /\ link = "up" /\ at[1] = "wait" /\ reply # NoReply => Answered(call[1])

IInv ==
    /\ ServerTypes /\ ClientTypes
    /\ TreeInv /\ TableInv /\ NoWriteInv
    /\ CallsInv /\ BdReply /\ DueInv /\ WriteInv
    /\ OpenInv /\ MatchInv

USE DEF Numbers, Sizes
----------------------------------------------------------------------------
(* Lengths, chunks and lists.                                              *)

LEMMA ChunkCount ==
    ASSUME NEW len \in Nat, NEW k \in Nat, NEW n \in Nat \ {0}
    PROVE  /\ k < (len + n - 1) \div n => k * n < len
           /\ k >= (len + n - 1) \div n => len <= k * n
           /\ k * n \in Nat /\ (k + 1) * n = k * n + n
<1> DEFINE q == (len + n - 1) \div n
           a == len + n - 1
<1>1. a \in Nat
  OBVIOUS
<1>2. q \in Nat /\ q * n <= a /\ a < q * n + n
  BY <1>1, SMTT(30)
<1>3. k * n \in Nat /\ (k + 1) * n = k * n + n
  BY SMTT(30)
<1>4. ASSUME k < q PROVE k * n < len
  <2>1. k + 1 <= q
    BY <1>2, <1>4
  <2>2. (k + 1) * n <= q * n
    BY <2>1, <1>2, SMTT(30)
  <2> QED BY <2>2, <1>2, <1>3
<1>5. ASSUME k >= q PROVE len <= k * n
  <2>1. q * n <= k * n
    BY <1>2, <1>5, SMTT(30)
  <2> QED BY <2>1, <1>2, <1>3
<1> QED BY <1>3, <1>4, <1>5

\* Chunk k of what is written goes behind those before it; the last one
\* makes it whole.
LEMMA ChunksJoin ==
    ASSUME NEW c, c.data \in Seq(Int), NEW k \in Nat, k * ChunkUnits <= Len(c.data)
    PROVE  /\ Chunk(c, k) \in Seq(Int)
           /\ SubSeq(c.data, 1, k * ChunkUnits) \o Chunk(c, k)
                = SubSeq(c.data, 1, Smaller((k + 1) * ChunkUnits, Len(c.data)))
           /\ k + 1 >= total_chunks(c) =>
                SubSeq(c.data, 1, k * ChunkUnits) \o Chunk(c, k) = c.data
           /\ k + 1 < total_chunks(c) =>
                /\ (k + 1) * ChunkUnits <= Len(c.data)
                /\ SubSeq(c.data, 1, k * ChunkUnits) \o Chunk(c, k)
                     = SubSeq(c.data, 1, (k + 1) * ChunkUnits)
<1> DEFINE d == c.data
           a == k * ChunkUnits
           b == Smaller((k + 1) * ChunkUnits, Len(d))
<1>1. Len(d) \in Nat /\ d \in Seq(Int) /\ ChunkUnits \in Nat \ {0} /\ k + 1 \in Nat
  BY LenProperties, InputsAssumption
<1>2. a \in Nat /\ (k + 1) * ChunkUnits = a + ChunkUnits /\ (k + 1) * ChunkUnits \in Nat
  BY <1>1, ChunkCount
<1>3. b \in a .. Len(d) /\ b \in Nat /\ a + 1 \in Nat /\ a <= Len(d)
  BY <1>1, <1>2 DEF Smaller
<1>4. 1 \in 1 .. Len(d) + 1 /\ a \in 1 - 1 .. Len(d)
  BY <1>1, <1>2, <1>3
<1>5. Chunk(c, k) = SubSeq(d, a + 1, b)
  BY DEF Chunk
<1> HIDE DEF a, b, d
<1>6. SubSeq(d, 1, a) \o SubSeq(d, a + 1, b) = SubSeq(d, 1, b)
  BY <1>1, <1>3, <1>4, ConcatAdjacentSubSeq
<1>7. SubSeq(d, a + 1, b) \in Seq(Int)
  <2>1. \A i \in a + 1 .. b : d[i] \in Int
    BY <1>1, <1>2, <1>3, ElementOfSeq
  <2> QED BY <2>1, <1>3, SubSeqProperties
<1>8. /\ k + 1 >= total_chunks(c) => b = Len(d)
      /\ k + 1 < total_chunks(c) => b = (k + 1) * ChunkUnits /\ (k + 1) * ChunkUnits <= Len(d)
  <2>1. total_chunks(c) = (Len(d) + ChunkUnits - 1) \div ChunkUnits
    BY DEF total_chunks, d
  <2>2. /\ k + 1 < total_chunks(c) => (k + 1) * ChunkUnits < Len(d)
        /\ k + 1 >= total_chunks(c) => Len(d) <= (k + 1) * ChunkUnits
    BY <2>1, <1>1, ChunkCount
  <2> QED BY <2>2, <1>1, <1>2 DEF b, Smaller
<1>9. SubSeq(d, 1, Len(d)) = d
  BY <1>1, SubSeqFull
<1> QED BY <1>5, <1>6, <1>7, <1>8, <1>9 DEF a, b, d

\* What a read returns, and how much.
LEMMA ReadLength ==
    ASSUME NEW content \in Seq(Int), NEW pos \in Nat, NEW size \in Nat
    PROVE  /\ ReadAt(content, pos, size) \in Seq(Int)
           /\ Len(ReadAt(content, pos, size))
                = IF pos < Len(content) THEN Smaller(size, Len(content) - pos) ELSE 0
           /\ Len(ReadAt(content, pos, size)) \in 0 .. size
<1> DEFINE n == Smaller(pos + size, Len(content))
<1>1. Len(content) \in Nat
  BY LenProperties
<1>2. n \in Nat /\ n <= Len(content) /\ pos + 1 \in Int /\ n \in Int
  BY <1>1 DEF Smaller
<1>3. \A i \in pos + 1 .. n : content[i] \in Int
  BY <1>1, <1>2, ElementOfSeq
<1>4. n = IF pos + size < Len(content) THEN pos + size ELSE Len(content)
  BY DEF Smaller
<1> HIDE DEF n
<1>5. /\ SubSeq(content, pos + 1, n) \in Seq(Int)
      /\ Len(SubSeq(content, pos + 1, n)) = IF pos + 1 <= n THEN n - (pos + 1) + 1 ELSE 0
  BY <1>2, <1>3, SubSeqProperties
<1>6. ReadAt(content, pos, size) = SubSeq(content, pos + 1, n)
  BY DEF ReadAt, n
<1> QED BY <1>1, <1>2, <1>4, <1>5, <1>6 DEF Smaller

LEMMA WrittenIsFile ==
    ASSUME NEW content \in Seq(Int), NEW pos \in Nat, NEW new \in Seq(Int)
    PROVE  WrittenAt(content, pos, new) \in Seq(Int)
<1> DEFINE n == Larger(Len(content), pos + Len(new))
           e(i) == IF i > pos /\ i <= pos + Len(new) THEN new[i - pos]
                   ELSE IF i <= Len(content) THEN content[i] ELSE 0
<1>1. Len(content) \in Nat /\ Len(new) \in Nat
  BY LenProperties
<1>2. n \in Nat
  BY <1>1 DEF Larger
<1>3. \A i \in 1 .. n : e(i) \in Int
  <2> SUFFICES ASSUME NEW i \in 1 .. n PROVE e(i) \in Int
    OBVIOUS
  <2>1. CASE i > pos /\ i <= pos + Len(new)
    <3>1. i - pos \in 1 .. Len(new)
      BY <2>1, <1>1, <1>2
    <3> QED BY <3>1, <2>1, ElementOfSeq
  <2>2. CASE ~(i > pos /\ i <= pos + Len(new)) /\ i <= Len(content)
    <3>1. i \in 1 .. Len(content)
      BY <2>2, <1>1, <1>2
    <3> QED BY <3>1, <2>2, ElementOfSeq
  <2> QED BY <2>1, <2>2
<1>4. WrittenAt(content, pos, new) = [i \in 1 .. n |-> e(i)]
  BY DEF WrittenAt
<1> HIDE DEF n, e
<1>5. [i \in 1 .. n |-> e(i)] \in Seq(Int)
  BY <1>2, <1>3, IsASeq
<1> QED BY <1>4, <1>5

\* The names of a directory as a list.
LEMMA ListOfNames ==
    ASSUME NEW S \in SUBSET Paths
    PROVE  SetToSeq(S) \in Seq(Paths)
<1>1. IsFiniteSet(S)
  BY NamesAssumption, FS_Subset
<1> DEFINE n == Cardinality(S)
<1>2. n \in Nat
  BY <1>1, FS_CardinalityType
<1>3. ExistsBijection(1 .. n, S)
  BY <1>1, FS_CardinalityType
<1>4. PICK f \in Bijection(1 .. n, S) : TRUE
  BY <1>3 DEF ExistsBijection
<1>5. f \in [1 .. n -> S] /\ IsInjective(f)
  BY <1>4 DEF Bijection, Injection, IsInjective
<1>6. SetToSeq(S) \in [1 .. n -> S]
  BY <1>5 DEF SetToSeq
<1> HIDE DEF n
<1> QED BY <1>2, <1>6

\* udpfs_ioman's _alloc_fd finds the first of the free slots.
LEMMA FreeSlot ==
    ASSUME FreeFds # {}
    PROVE  _alloc_fd \in Fds /\ g_fds[_alloc_fd] < 0 /\ _alloc_fd \in FreeFds
<1> DEFINE R == OpToRel(<, Nat)
<1>1. \A i, j \in Nat : i < j => <<i, j>> \in R
  BY DEF OpToRel
<1>2. IsWellFoundedOn(R, Nat)
  BY NatLessThanWellFounded
<1> HIDE DEF R
<1>3. FreeFds \in SUBSET Nat
  BY InputsAssumption DEF FreeFds, Fds
<1>4. PICK n \in FreeFds : \A y \in FreeFds : <<y, n>> \notin R
  BY <1>2, <1>3, WFMin
<1>5. \A m \in FreeFds : n <= m
  <2>1. \A m \in FreeFds : m \in Nat /\ n \in Nat /\ ~(m < n)
    BY <1>1, <1>3, <1>4
  <2> QED BY <2>1
<1>6. _alloc_fd \in FreeFds
  BY <1>4, <1>5 DEF _alloc_fd
<1> QED BY <1>6 DEF FreeFds

----------------------------------------------------------------------------
(* The calls, and what each is to come to.                                 *)

LEMMA CallFields ==
    ASSUME NEW c \in Asked
    PROVE  /\ c.op \in udpfs_device_ops \cup FhiCalls \cup BdCalls
           /\ c # Idle /\ c # BdInit
           /\ c.op \in Opens \cup OnNames => c.path \in Names
           /\ c.op = "udpfs_open" => c.flags \in SUBSET Flags
           /\ c.op \in Closes \cup OnFiles \cup FhiCalls \cup BdCalls => c.fd \in Fds
           /\ c.op = "udpfs_read" => c.size \in Nat
           /\ c.op \in Writes => c.data \in Seq(Int)
           /\ c.op = "udpfs_write" => c.size = Len(c.data)
           /\ c.op = "udpfs_lseek64" => c.offset \in Int /\ c.whence \in {"SET", "CUR", "END"}
           /\ c.op \in FhiCalls \cup BdCalls =>
                /\ c.sector \in Nat /\ c.count \in Nat \ {0} /\ c.data \in Seq(Int)
                /\ Len(c.data) = c.count * SectorUnits
BY DEF Asked, Calls, WellMade, Idle, BdInit, udpfs_device_ops, Opens, Closes, OnNames, OnFiles,
       FhiCalls, BdCalls, Writes

LEMMA DueOf ==
    ASSUME NEW files, NEW c
    PROVE  /\ c.op = "udpfs_open" => Due(files, c) = LocalOpen(files, _alloc_fd, c)
           /\ c.op = "udpfs_dopen" => Due(files, c) = LocalDopen(files, _alloc_fd, c)
           /\ c.op \in Closes =>
                Due(files, c) = [Result(files, 0, NoBuffer) EXCEPT !.files[c.fd] = Closed]
           /\ c.op = "udpfs_read" => Due(files, c) = LocalRead(files, c)
           /\ c.op = "udpfs_write" => Due(files, c) = LocalWrite(files, c)
           /\ c.op = "udpfs_lseek64" => Due(files, c) = LocalSeek(files, c)
           /\ c.op = "udpfs_dread" => Due(files, c) = LocalDread(files, c)
           /\ c.op = "udpfs_getstat" => Due(files, c) = LocalStat(files, c)
           /\ c.op \in OnNames \ {"udpfs_getstat"} => Due(files, c) = LocalName(files, c)
           /\ c.op \in FhiCalls =>
                Due(files, c) = Sectors(files, files[c.fd].ino, Bytes(files[c.fd]), c, c.count)
           /\ c.op \in BdCalls =>
                Due(files, c) = Sectors(files, BlockDevice, data[BlockDevice], c, c.count)
BY DEF Due, Closes, OnNames, FhiCalls, BdCalls

\* What is due has its parts.
DueFrom(files, d) ==
    d = [res |-> d.res, got |-> d.got, tree |-> d.tree, data |-> d.data,
         files |-> d.files, old |-> files]

LEMMA DueClose ==
    ASSUME NEW files, NEW c, c.op \in Closes
    PROVE  /\ DueFrom(files, Due(files, c))
           /\ Due(files, c).tree = tree /\ Due(files, c).data = data
           /\ Due(files, c).files = [files EXCEPT ![c.fd] = Closed]
<1>1. Due(files, c) = [Result(files, 0, NoBuffer) EXCEPT !.files[c.fd] = Closed]
  BY DueOf
<1>2. Due(files, c) = [res |-> 0, got |-> NoBuffer, tree |-> tree, data |-> data,
                       files |-> [files EXCEPT ![c.fd] = Closed], old |-> files]
  BY <1>1 DEF Result
<1> QED BY <1>2 DEF DueFrom

LEMMA DueRead ==
    ASSUME NEW files, NEW c, c.op = "udpfs_read"
    PROVE  /\ DueFrom(files, Due(files, c))
           /\ Due(files, c).tree = tree /\ Due(files, c).data = data
           /\ Due(files, c).files =
                [files EXCEPT ![c.fd].pos = files[c.fd].pos
                    + Len(ReadAt(Bytes(files[c.fd]), files[c.fd].pos, c.size))]
<1> DEFINE got0 == ReadAt(Bytes(files[c.fd]), files[c.fd].pos, c.size)
           F == [files EXCEPT ![c.fd].pos = files[c.fd].pos + Len(got0)]
<1>1. Due(files, c) = [Result(files, Len(got0), got0) EXCEPT
                         !.files[c.fd].pos = files[c.fd].pos + Len(got0)]
  BY DueOf DEF LocalRead
<1>2. Due(files, c) = [res |-> Len(got0), got |-> got0, tree |-> tree, data |-> data,
                       files |-> F, old |-> files]
  BY <1>1 DEF Result
<1> QED BY <1>2, SMTT(30) DEF DueFrom

LEMMA DueWrite ==
    ASSUME NEW files, NEW c, c.op = "udpfs_write"
    PROVE  /\ DueFrom(files, Due(files, c))
           /\ Due(files, c).tree = tree
           /\ Due(files, c).data = [data EXCEPT ![files[c.fd].ino] =
                                      WrittenAt(data[files[c.fd].ino], WriteFrom(files[c.fd]), c.data)]
           /\ Due(files, c).files = [files EXCEPT ![c.fd].pos = WriteFrom(files[c.fd]) + c.size]
<1> DEFINE ino == files[c.fd].ino
           from == WriteFrom(files[c.fd])
           D == [data EXCEPT ![ino] = WrittenAt(data[ino], from, c.data)]
           F == [files EXCEPT ![c.fd].pos = from + c.size]
<1>1. Due(files, c) = [Result(files, c.size, NoBuffer) EXCEPT
                         !.data[ino] = WrittenAt(data[ino], from, c.data),
                         !.files[c.fd].pos = from + c.size]
  BY DueOf DEF LocalWrite
<1> HIDE DEF ino, from
<1>2. Due(files, c) = [res |-> c.size, got |-> NoBuffer, tree |-> tree, data |-> D,
                       files |-> F, old |-> files]
  BY <1>1 DEF Result
<1> QED BY <1>2 DEF DueFrom, ino, from

LEMMA DueSeek ==
    ASSUME NEW files, NEW c, c.op = "udpfs_lseek64"
    PROVE  /\ DueFrom(files, Due(files, c))
           /\ Due(files, c).tree = tree /\ Due(files, c).data = data
           /\ Due(files, c).files =
                IF SeekPlace(files[c.fd], c) < 0 THEN files
                ELSE [files EXCEPT ![c.fd].pos = SeekPlace(files[c.fd], c)]
<1> DEFINE pos == SeekPlace(files[c.fd], c)
<1>1. Due(files, c) = IF pos < 0 THEN Result(files, EINVAL, NoBuffer)
                      ELSE [Result(files, pos, NoBuffer) EXCEPT !.files[c.fd].pos = pos]
  BY DueOf DEF LocalSeek
<1> HIDE DEF pos
<1>2. CASE pos < 0
  BY <1>1, <1>2 DEF DueFrom, Result, pos
<1>3. CASE ~(pos < 0)
  <2>1. Due(files, c) = [res |-> pos, got |-> NoBuffer, tree |-> tree, data |-> data,
                         files |-> [files EXCEPT ![c.fd].pos = pos], old |-> files]
    BY <1>1, <1>3 DEF Result
  <2> QED BY <2>1, <1>3 DEF DueFrom, pos
<1> QED BY <1>2, <1>3

LEMMA DueDread ==
    ASSUME NEW files, NEW c, c.op = "udpfs_dread"
    PROVE  /\ DueFrom(files, Due(files, c))
           /\ Due(files, c).tree = tree /\ Due(files, c).data = data
           /\ Due(files, c).files =
                IF files[c.fd].names = <<>> THEN files
                ELSE [files EXCEPT ![c.fd].names = Tail(files[c.fd].names)]
<1> DEFINE f == files[c.fd]
<1>1. CASE f.names = <<>>
  <2>1. Due(files, c) = Result(files, 0, NoBuffer)
    BY <1>1, DueOf, ZenonT(60) DEF LocalDread
  <2> QED BY <2>1, <1>1, SMTT(30) DEF DueFrom, Result
<1>2. CASE f.names # <<>>
  <2> DEFINE name == Head(f.names)
             r == IF Exists(name) THEN 1 ELSE 0
             g == IF ~Exists(name) THEN NoBuffer
                  ELSE IF IsCompressed(name) /\ Unpacks(name)
                  THEN <<AliasOf(name), "file", Len(Unpacked[tree[name].ino])>>
                  ELSE <<name, Kind(name),
                         IF Kind(name) = "dir" THEN 0 ELSE Len(data[tree[name].ino])>>
  <2>1. Due(files, c) = [Result(files, r, g) EXCEPT !.files[c.fd].names = Tail(f.names)]
    BY <1>2, DueOf DEF LocalDread
  <2> HIDE DEF r, g
  <2>2. Due(files, c) = [res |-> r, got |-> g, tree |-> tree, data |-> data,
                         files |-> [files EXCEPT ![c.fd].names = Tail(f.names)], old |-> files]
    BY <2>1 DEF Result
  <2> QED BY <2>2, <1>2 DEF DueFrom
<1> QED BY <1>1, <1>2

\* A server that may change its files, and has any.
MayChange == ~read_only /\ RootDir

LEMMA DueNames ==
    ASSUME NEW files, NEW c, c.op \in OnNames
    PROVE  /\ DueFrom(files, Due(files, c))
           /\ Due(files, c).files = files /\ Due(files, c).data = data
<1> USE DEF OnNames
<1>1. CASE c.op = "udpfs_getstat"
  <2>1. Due(files, c) = LocalStat(files, c)
    BY <1>1, DueOf
  <2>2. \/ LocalStat(files, c) = Result(files, 0, <<"none", SectorUnits * DeviceSectors>>)
        \/ LocalStat(files, c) = Result(files, EACCES, NoBuffer)
        \/ LocalStat(files, c) = Result(files, ENOENT, NoBuffer)
        \/ LocalStat(files, c) = Result(files, EIO, NoBuffer)
        \/ LocalStat(files, c) = Result(files, 0, <<"dir", 0>>)
        \/ LocalStat(files, c) = Result(files, 0, <<"file", ShownSize(c.path)>>)
    BY DEF LocalStat
  <2> QED BY <2>1, <2>2, <1>1 DEF DueFrom, Result
<1>2. CASE c.op \in OnNames \ {"udpfs_getstat"} /\ ~MayChange
  <2>1. Due(files, c) = Result(files, EACCES, NoBuffer)
    BY <1>2, DueOf DEF LocalName, MayChange
  <2> QED BY <2>1, <1>2 DEF DueFrom, Result
<1> DEFINE R(T) == [res |-> 0, got |-> NoBuffer, tree |-> T, data |-> data,
                    files |-> files, old |-> files]
<1>3. CASE c.op = "udpfs_mkdir" /\ MayChange
  <2>1. Due(files, c) = IF Exists(c.path) \/ Kind(Parent[c.path]) # "dir"
                        THEN Result(files, EEXIST, NoBuffer)
                        ELSE [Result(files, 0, NoBuffer) EXCEPT
                                !.tree[c.path] = [kind |-> "dir", ino |-> 0]]
    BY <1>3, DueOf DEF LocalName, MayChange
  <2>2. Due(files, c) = IF Exists(c.path) \/ Kind(Parent[c.path]) # "dir"
                        THEN Result(files, EEXIST, NoBuffer)
                        ELSE R([tree EXCEPT ![c.path] = [kind |-> "dir", ino |-> 0]])
    BY <2>1 DEF Result
  <2> QED BY <2>2, <1>3 DEF DueFrom, Result
<1>4. CASE c.op = "udpfs_remove" /\ MayChange
  <2>1. Due(files, c) = IF Kind(c.path) # "file" THEN Result(files, ENOENT, NoBuffer)
                        ELSE [Result(files, 0, NoBuffer) EXCEPT !.tree[c.path] = Nothing]
    BY <1>4, DueOf DEF LocalName, MayChange
  <2>2. Due(files, c) = IF Kind(c.path) # "file" THEN Result(files, ENOENT, NoBuffer)
                        ELSE R([tree EXCEPT ![c.path] = Nothing])
    BY <2>1 DEF Result
  <2> QED BY <2>2, <1>4 DEF DueFrom, Result
<1>5. CASE c.op = "udpfs_rmdir" /\ MayChange
  <2>1. Due(files, c) = IF Kind(c.path) # "dir" \/ Children(c.path) # {}
                        THEN Result(files, ENOENT, NoBuffer)
                        ELSE [Result(files, 0, NoBuffer) EXCEPT !.tree[c.path] = Nothing]
    BY <1>5, DueOf DEF LocalName, MayChange
  <2>2. Due(files, c) = IF Kind(c.path) # "dir" \/ Children(c.path) # {}
                        THEN Result(files, ENOENT, NoBuffer)
                        ELSE R([tree EXCEPT ![c.path] = Nothing])
    BY <2>1 DEF Result
  <2> QED BY <2>2, <1>5 DEF DueFrom, Result
<1> QED BY <1>1, <1>2, <1>3, <1>4, <1>5

LEMMA DueSectors ==
    ASSUME NEW files, NEW c, c.op \in FhiCalls \cup BdCalls,
           NEW ino, ino = IF c.op \in FhiCalls THEN files[c.fd].ino ELSE BlockDevice,
           NEW content, content = IF c.op \in FhiCalls THEN Bytes(files[c.fd]) ELSE data[BlockDevice]
    PROVE  /\ DueFrom(files, Due(files, c))
           /\ Due(files, c).tree = tree /\ Due(files, c).files = files
           /\ c.op \in Reads \/ read_only => Due(files, c).data = data
           /\ c.op \notin Reads /\ ~read_only =>
                Due(files, c).data =
                    [data EXCEPT ![ino] = WrittenAt(content, c.sector * SectorUnits,
                                             SubSeq(c.data, 1, c.count * SectorUnits))]
<1>1. Due(files, c) = Sectors(files, ino, content, c, c.count)
  BY DueOf DEF FhiCalls, BdCalls
<1>2. CASE c.op \in Reads \/ read_only
  <2>1. PICK r, g : Due(files, c) = Result(files, r, g)
    BY <1>1, <1>2 DEF Sectors, Reads, FhiCalls, BdCalls
  <2> QED BY <2>1, <1>2 DEF DueFrom, Result
<1>3. CASE c.op \notin Reads /\ ~read_only
  <2> DEFINE W == WrittenAt(content, c.sector * SectorUnits,
                            SubSeq(c.data, 1, c.count * SectorUnits))
  <2>1. Due(files, c) = [Result(files, c.count, NoBuffer) EXCEPT !.data[ino] = W]
    BY <1>1, <1>3 DEF Sectors, Reads
  <2> HIDE DEF W
  <2>2. Due(files, c) = [res |-> c.count, got |-> NoBuffer, tree |-> tree,
                         data |-> [data EXCEPT ![ino] = W], files |-> files, old |-> files]
    BY <2>1 DEF Result
  <2> QED BY <2>2, <1>3 DEF DueFrom, W
<1> QED BY <1>2, <1>3

\* What an open of a file and of a directory comes to.
LEMMA DueOpen ==
    ASSUME NEW files, NEW c, c.op = "udpfs_open"
    PROVE  /\ DueFrom(files, Due(files, c))
           /\ Refuses(c) => /\ Due(files, c).tree = tree /\ Due(files, c).data = data
                            /\ Due(files, c).files = files
           /\ ~Refuses(c) /\ Keeps(c) =>
                /\ Due(files, c).tree = tree /\ Due(files, c).data = data
                /\ Due(files, c).files = [files EXCEPT ![_alloc_fd] = KeptFile(c)]
           /\ ~Refuses(c) /\ ~Keeps(c) =>
                /\ Due(files, c).tree = MadeTree(c.path, MadeIno(c))
                /\ Due(files, c).data = [data EXCEPT ![MadeIno(c)] = <<>>]
                /\ Due(files, c).files = [files EXCEPT ![_alloc_fd] = MadeFile(c)]
<1>1. Due(files, c) = LocalOpen(files, _alloc_fd, c)
  BY DueOf
<1>2. CASE Refuses(c)
  <2>1. LocalOpen(files, _alloc_fd, c) = Result(files, EIO, NoBuffer)
    BY <1>2 DEF LocalOpen, Refuses
  <2> QED BY <2>1, <1>1, <1>2 DEF DueFrom, Result
<1>3. CASE ~Refuses(c) /\ Keeps(c)
  <2> DEFINE f == KeptFile(c)
  <2>1. LocalOpen(files, _alloc_fd, c) = [Result(files, 0, NoBuffer) EXCEPT !.files[_alloc_fd] = f]
    BY <1>3 DEF LocalOpen
  <2> HIDE DEF f
  <2>3. Due(files, c) = [res |-> 0, got |-> NoBuffer, tree |-> tree, data |-> data,
                         files |-> [files EXCEPT ![_alloc_fd] = f], old |-> files]
    BY <2>1, <1>1 DEF Result
  <2> QED BY <2>3, <1>3 DEF DueFrom, f
<1>4. CASE ~Refuses(c) /\ ~Keeps(c)
  <2> DEFINE ino == MadeIno(c)
             f == MadeFile(c)
             T == MadeTree(c.path, ino)
  <2>1. LocalOpen(files, _alloc_fd, c) =
          [Result(files, 0, NoBuffer) EXCEPT !.tree = T, !.data[ino] = <<>>,
                                             !.files[_alloc_fd] = f]
    BY <1>4 DEF LocalOpen
  <2> HIDE DEF f, T, ino
  <2>3. Due(files, c) = [res |-> 0, got |-> NoBuffer, tree |-> T,
                         data |-> [data EXCEPT ![ino] = <<>>],
                         files |-> [files EXCEPT ![_alloc_fd] = f], old |-> files]
    BY <2>1, <1>1 DEF Result
  <2> QED BY <2>3, <1>4 DEF DueFrom, T, ino, f
<1> QED BY <1>2, <1>3, <1>4

LEMMA DueDopen ==
    ASSUME NEW files, NEW c, c.op = "udpfs_dopen"
    PROVE  /\ DueFrom(files, Due(files, c))
           /\ Due(files, c).tree = tree /\ Due(files, c).data = data
           /\ Due(files, c).files =
                IF ~RootDir \/ Kind(c.path) # "dir" THEN files
                ELSE [files EXCEPT ![_alloc_fd] = ListedDir(c.path)]
<1>1. Due(files, c) = LocalDopen(files, _alloc_fd, c)
  BY DueOf
<1>2. CASE ~RootDir \/ Kind(c.path) # "dir"
  <2>1. LocalDopen(files, _alloc_fd, c) = Result(files, EIO, NoBuffer)
    BY <1>2 DEF LocalDopen
  <2> QED BY <2>1, <1>1, <1>2 DEF DueFrom, Result
<1>3. CASE ~(~RootDir \/ Kind(c.path) # "dir")
  <2> DEFINE f == ListedDir(c.path)
  <2>1. LocalDopen(files, _alloc_fd, c) = [Result(files, 0, NoBuffer) EXCEPT !.files[_alloc_fd] = f]
    BY <1>3 DEF LocalDopen
  <2> HIDE DEF f
  <2>3. Due(files, c) = [res |-> 0, got |-> NoBuffer, tree |-> tree, data |-> data,
                         files |-> [files EXCEPT ![_alloc_fd] = f], old |-> files]
    BY <2>1, <1>1 DEF Result
  <2> QED BY <2>3, <1>3 DEF DueFrom, f
<1> QED BY <1>2, <1>3

----------------------------------------------------------------------------
(* Types.                                                                  *)

LEMMA OpenFileParts ==
    ASSUME NEW f \in OpenFiles
    PROVE  /\ f.kind \in {"none", "dir", "file", "alias"}
           /\ f.kind = "none" => f = Closed
           /\ f.kind = "dir" => f.can = {"DIR"} /\ f.names \in Seq(Paths)
           /\ f.kind \in {"file", "alias"} =>
                /\ f.ino \in Inodes /\ f.pos \in Nat /\ f.can \in SUBSET Flags
           /\ "RD" \in f.can \/ "WR" \in f.can \/ f.can \ {"DIR"} # {} =>
                f.kind \in {"file", "alias"}
           /\ "DIR" \in f.can => f.kind = "dir"
BY DEF OpenFiles, Closed, Flags

LEMMA FileMoved ==
    ASSUME NEW f \in OpenFiles, f.kind \in {"file", "alias"}, NEW p \in Nat
    PROVE  [f EXCEPT !.pos = p] \in OpenFiles
<1> DEFINE R == [kind : {"file", "alias"}, ino : Inodes, pos : Nat, can : SUBSET Flags,
                 names : {<<>>}]
<1>1. f \in R
  BY DEF OpenFiles, Closed
<1>2. [f EXCEPT !.pos = p] \in R
  BY <1>1
<1> QED BY <1>2 DEF OpenFiles

LEMMA FilesMoved ==
    ASSUME NEW files \in [Fds -> OpenFiles], NEW fd \in Fds,
           files[fd].kind \in {"file", "alias"}, NEW p \in Nat
    PROVE  [files EXCEPT ![fd].pos = p] \in [Fds -> OpenFiles]
<1> DEFINE f == [files[fd] EXCEPT !.pos = p]
<1>1. f \in OpenFiles
  BY FileMoved
<1>2. [files EXCEPT ![fd].pos = p] = [files EXCEPT ![fd] = f]
  OBVIOUS
<1> HIDE DEF f
<1> QED BY <1>1, <1>2

LEMMA DirListed ==
    ASSUME NEW files \in [Fds -> OpenFiles], NEW fd \in Fds,
           files[fd].kind = "dir", NEW l \in Seq(Paths)
    PROVE  [files EXCEPT ![fd].names = l] \in [Fds -> OpenFiles]
<1> DEFINE f == [files[fd] EXCEPT !.names = l]
           R == [kind : {"dir"}, ino : {0}, pos : {0}, can : {{"DIR"}}, names : Seq(Paths)]
<1>0. files[fd] \in R
  BY DEF OpenFiles, Closed
<1>1. f \in OpenFiles
  <2>1. f \in R
    BY <1>0
  <2> QED BY <2>1 DEF OpenFiles
<1>2. [files EXCEPT ![fd].names = l] = [files EXCEPT ![fd] = f]
  OBVIOUS
<1> HIDE DEF f
<1> QED BY <1>1, <1>2

\* What the files hold.
LEMMA BytesType ==
    ASSUME ServerTypes, NEW f \in OpenFiles, f.kind \in {"file", "alias"}
    PROVE  Bytes(f) \in Seq(Int) /\ Len(Bytes(f)) \in Nat
<1>1. f.ino \in Inodes
  BY OpenFileParts
<1>2. Bytes(f) \in Seq(Int)
  BY <1>1, FilesAssumption DEF ServerTypes, Bytes
<1> QED BY <1>2, LenProperties

\* What a name stands for.
LEMMA NameParts ==
    ASSUME ServerTypes, NEW path \in Names
    PROVE  /\ Kind(path) \in {"none", "dir", "file"}
           /\ Shows(path) \in {"none", "dir", "file", "alias", "broken"}
           /\ Shows(path) \in {"alias", "broken"} <=> Actual(path) # path
           /\ Shows(path) \in {"alias", "broken"} =>
                /\ path \in Paths /\ Kind(path) = "none"
                /\ Actual(path) \in Paths /\ Exists(Actual(path))
           /\ Shows(path) = "alias" <=> Actual(path) # path /\ Unpacks(Actual(path))
           /\ Shows(path) = "alias" => ShownIno(path) \in Inodes
           /\ Actual(path) = path => Shows(path) = Kind(path)
           /\ Kind(path) = "file" => path \in Paths /\ tree[path].ino \in Inodes
           /\ path # "" => path \in Paths
<1> DEFINE b == _find_compressed_version(path)
<1>1. \A p \in Paths : tree[p] \in Entries /\ p # ""
  BY NamesAssumption DEF ServerTypes
<1>2. \A p \in Paths : Kind(p) \in {"none", "dir", "file"} /\ (Kind(p) = "file" => tree[p].ino \in Inodes)
  BY <1>1 DEF Kind, Entries
<1>3. b # "" => /\ b \in Paths /\ Exists(b) /\ ~Exists(path) /\ path \in Paths
  BY NamesAssumption DEF _find_compressed_version
<1>4. Kind("") = "dir"
  BY DEF Kind
<1>5. path # "" => path \in Paths
  BY DEF Names
<1>6. Actual(path) = IF b # "" THEN b ELSE path
  BY DEF Actual
<1>7. Shows(path) = IF b = "" THEN Kind(path) ELSE IF Unpacks(b) THEN "alias" ELSE "broken"
  BY DEF Shows
<1>8. ~Exists(path) <=> Kind(path) = "none"
  BY DEF Exists
<1>9. Unpacks(b) => Kind(b) = "file"
  BY DEF Unpacks
<1>10. ShownIno(path) = tree[Actual(path)].ino
  BY DEF ShownIno
<1> HIDE DEF b
<1> QED BY <1>2, <1>3, <1>4, <1>5, <1>6, <1>7, <1>8, <1>9, <1>10

\* The inode of a new file.
LEMMA NewInodeIsFresh ==
    ASSUME ServerTypes, FreshInodes # {}
    PROVE  /\ NewInode \in FreshInodes /\ NewInode \in Inodes
           /\ \A p \in Paths : tree[p].ino # NewInode
           /\ \A h \in DOMAIN handles : handles[h].ino # NewInode
<1>1. NewInode \in FreshInodes
  BY DEF NewInode
<1>2. NewInode \in DOMAIN data /\ NewInode \notin InUse
  BY <1>1 DEF FreshInodes
<1>3. \A p \in Paths : tree[p].ino \in InUse
  BY DEF InUse
<1>4. \A h \in DOMAIN handles : handles[h].ino \in InUse
  BY DEF InUse
<1> QED BY <1>1, <1>2, <1>3, <1>4 DEF ServerTypes

\* A call fits the files it is on, as iomanX and _alloc_fd see to.
Fits(files, c) ==
    /\ c.op = "udpfs_read" => "RD" \in files[c.fd].can
    /\ c.op = "udpfs_write" => "WR" \in files[c.fd].can
    /\ c.op \in {"udpfs_dread", "udpfs_dclose"} => "DIR" \in files[c.fd].can
    /\ c.op \in {"udpfs_lseek64", "udpfs_close"} => files[c.fd].can \ {"DIR"} # {}
    /\ c.op \in Opens => FreeFds # {}
    /\ RoomFor(c)

LEMMA SlotSet ==
    ASSUME NEW files \in [Fds -> OpenFiles], NEW fd \in Fds, NEW f \in OpenFiles
    PROVE  [files EXCEPT ![fd] = f] \in [Fds -> OpenFiles]
OBVIOUS

LEMMA SeekType ==
    ASSUME ServerTypes, NEW c \in Asked, c.op = "udpfs_lseek64",
           NEW f \in OpenFiles, f.kind \in {"file", "alias"}
    PROVE  SeekTarget(f, c) \in Int /\ SeekPlace(f, c) \in Int
<1>1. c.offset \in Int /\ c.whence \in {"SET", "CUR", "END"}
  BY CallFields
<1>2. f.pos \in Nat /\ Len(Bytes(f)) \in Nat
  BY OpenFileParts, BytesType
<1> QED BY <1>1, <1>2 DEF SeekTarget, SeekPlace, Smaller, Larger

LEMMA DueType ==
    ASSUME ServerTypes, NEW c \in Asked, NEW files \in [Fds -> OpenFiles], Fits(files, c)
    PROVE  DueFrom(files, Due(files, c)) /\ Due(files, c).files \in [Fds -> OpenFiles]
<1> DEFINE d == Due(files, c)
<1>0. c.op \in udpfs_device_ops \cup FhiCalls \cup BdCalls
  BY CallFields
<1>1. CASE c.op \in Opens
  <2>0. _alloc_fd \in Fds
    BY <1>1, FreeSlot DEF Fits
  <2>1. c.path \in Names
    BY <1>1, CallFields
  <2>2. CASE c.op = "udpfs_open"
    <3>1. c.flags \in SUBSET Flags
      BY <2>2, CallFields
    <3>2. CASE Refuses(c)
      BY <3>2, <2>2, DueOpen
    <3>3. CASE ~Refuses(c) /\ Keeps(c)
      <4>1. Shows(c.path) \in {"file", "alias"} /\ ShownIno(c.path) \in Inodes
        <5>1. Shows(c.path) \notin {"dir", "broken", "none"}
          BY <3>3, <2>1, NameParts DEF Refuses, Keeps, Exists
        <5>2. Shows(c.path) = "file" => Actual(c.path) = c.path
          BY <2>1, NameParts
        <5> QED BY <5>1, <5>2, <2>1, NameParts DEF ShownIno
      <4>2. ShownSize(c.path) \in Nat
        <5>1. Shows(c.path) = "alias" => Unpacked[ShownIno(c.path)] \in Seq(Int)
          BY <4>1, FilesAssumption
        <5>2. Shows(c.path) # "alias" => data[ShownIno(c.path)] \in Seq(Int)
          BY <4>1 DEF ServerTypes
        <5> QED BY <5>1, <5>2, LenProperties DEF ShownSize
      <4>3. KeptFile(c) \in OpenFiles
        BY <4>1, <4>2, <3>1 DEF KeptFile, OpenFiles
      <4>7. DueFrom(files, Due(files, c)) /\ Due(files, c).files = [files EXCEPT ![_alloc_fd] = KeptFile(c)]
        BY <3>3, <2>2, DueOpen
      <4>8. [files EXCEPT ![_alloc_fd] = KeptFile(c)] \in [Fds -> OpenFiles]
        BY <4>3, <2>0, SlotSet
      <4> QED BY <4>7, <4>8
    <3>4. CASE ~Refuses(c) /\ ~Keeps(c)
      <4>1. Kind(c.path) = "none" => Shows(c.path) = "none"
        <5>1. Kind(c.path) = "none" => Shows(c.path) \in {"none", "alias", "broken"}
          BY <2>1, NameParts
        <5> QED BY <5>1, <3>4 DEF Refuses, Keeps
      <4>2. MadeIno(c) \in Inodes
        <5>1. CASE Exists(c.path)
          <6>1. Kind(c.path) = "file"
            <7>1. Shows(c.path) # "dir"
              BY <3>4 DEF Refuses
            <7>2. Kind(c.path) # "none"
              BY <5>1 DEF Exists
            <7> QED BY <7>1, <7>2, <2>1, NameParts
          <6> QED BY <6>1, <5>1, <2>1, NameParts DEF MadeIno
        <5>2. CASE ~Exists(c.path)
          <6>1. FreshInodes # {}
            BY <5>2, <4>1, <2>2 DEF Exists, Fits, RoomFor
          <6> QED BY <6>1, <5>2, NewInodeIsFresh DEF MadeIno
        <5> QED BY <5>1, <5>2
      <4>3. MadeFile(c) \in OpenFiles
        BY <4>2, <3>1 DEF MadeFile, OpenFiles
      <4>7. DueFrom(files, Due(files, c)) /\ Due(files, c).files = [files EXCEPT ![_alloc_fd] = MadeFile(c)]
        BY <3>4, <2>2, DueOpen
      <4>8. [files EXCEPT ![_alloc_fd] = MadeFile(c)] \in [Fds -> OpenFiles]
        BY <4>3, <2>0, SlotSet
      <4> QED BY <4>7, <4>8
    <3> QED BY <3>2, <3>3, <3>4
  <2>3. CASE c.op = "udpfs_dopen"
    <3>1. SetToSeq(Children(c.path)) \in Seq(Paths)
      BY ListOfNames DEF Children
    <3>2. ListedDir(c.path) \in OpenFiles
      BY <3>1 DEF ListedDir, OpenFiles
    <3>3. [files EXCEPT ![_alloc_fd] = ListedDir(c.path)] \in [Fds -> OpenFiles]
      BY <3>2, <2>0, SlotSet
    <3> QED BY <2>3, <3>3, DueDopen
  <2> QED BY <1>1, <2>2, <2>3 DEF Opens
<1>2. CASE c.op \in Closes
  <2>1. Closed \in OpenFiles /\ c.fd \in Fds
    BY <1>2, CallFields DEF OpenFiles
  <2>7. DueFrom(files, Due(files, c)) /\ Due(files, c).files = [files EXCEPT ![c.fd] = Closed]
    BY <1>2, DueClose
  <2>8. [files EXCEPT ![c.fd] = Closed] \in [Fds -> OpenFiles]
    BY <2>1, SlotSet
  <2> QED BY <2>7, <2>8
<1>3. CASE c.op \in OnFiles
  <2>1. c.fd \in Fds /\ files[c.fd] \in OpenFiles
    BY <1>3, CallFields
  <2>2. CASE c.op = "udpfs_read"
    <3>1. files[c.fd].kind \in {"file", "alias"} /\ c.size \in Nat
      BY <2>1, <2>2, OpenFileParts, CallFields DEF Fits
    <3> DEFINE n == Len(ReadAt(Bytes(files[c.fd]), files[c.fd].pos, c.size))
               p == files[c.fd].pos + n
    <3>2. Bytes(files[c.fd]) \in Seq(Int) /\ files[c.fd].pos \in Nat
      BY <2>1, <3>1, BytesType, OpenFileParts
    <3>3. n \in Nat
      BY <3>1, <3>2, ReadLength
    <3>4. p \in Nat
      BY <3>2, <3>3
    <3>5. DueFrom(files, Due(files, c)) /\ Due(files, c).files = [files EXCEPT ![c.fd].pos = p]
      BY <2>2, DueRead
    <3> HIDE DEF p, n
    <3> QED BY <3>1, <3>4, <3>5, <2>1, FilesMoved
  <2>3. CASE c.op = "udpfs_write"
    <3>1. files[c.fd].kind \in {"file", "alias"} /\ c.size \in Nat
      BY <2>1, <2>3, OpenFileParts, CallFields, LenProperties DEF Fits, Writes
    <3> DEFINE p == WriteFrom(files[c.fd]) + c.size
    <3>2. files[c.fd].ino \in Inodes /\ files[c.fd].pos \in Nat
      BY <2>1, <3>1, OpenFileParts
    <3>3. Len(data[files[c.fd].ino]) \in Nat
      BY <3>2, LenProperties DEF ServerTypes
    <3>4. p \in Nat
      BY <3>1, <3>2, <3>3 DEF WriteFrom
    <3>5. DueFrom(files, Due(files, c)) /\ Due(files, c).files = [files EXCEPT ![c.fd].pos = p]
      BY <2>3, DueWrite
    <3> HIDE DEF p
    <3> QED BY <3>1, <3>4, <3>5, <2>1, FilesMoved
  <2>4. CASE c.op = "udpfs_lseek64"
    <3>1. files[c.fd].kind \in {"file", "alias"}
      BY <2>1, <2>4, OpenFileParts DEF Fits
    <3> DEFINE pos == SeekPlace(files[c.fd], c)
    <3>2. pos \in Int
      BY <2>1, <2>4, <3>1, SeekType
    <3>3. /\ DueFrom(files, Due(files, c))
          /\ Due(files, c).files = IF pos < 0 THEN files ELSE [files EXCEPT ![c.fd].pos = pos]
      BY <2>4, DueSeek
    <3> HIDE DEF pos
    <3>4. pos < 0 \/ pos \in Nat
      BY <3>2
    <3> QED BY <3>1, <3>3, <3>4, <2>1, FilesMoved
  <2>5. CASE c.op = "udpfs_dread"
    <3>1. files[c.fd].kind = "dir" /\ files[c.fd].names \in Seq(Paths)
      BY <2>1, <2>5, OpenFileParts DEF Fits
    <3>2. files[c.fd].names # <<>> => Tail(files[c.fd].names) \in Seq(Paths)
      BY <3>1
    <3>3. files[c.fd].names # <<>> =>
            [files EXCEPT ![c.fd].names = Tail(files[c.fd].names)] \in [Fds -> OpenFiles]
      BY <3>1, <3>2, <2>1, DirListed
    <3> QED BY <3>3, <2>5, DueDread
  <2> QED BY <1>3, <2>2, <2>3, <2>4, <2>5 DEF OnFiles
<1>4. CASE c.op \in OnNames
  BY <1>4, DueNames
<1>5. CASE c.op \in FhiCalls \cup BdCalls
  <2>1. PICK ino : ino = IF c.op \in FhiCalls THEN files[c.fd].ino ELSE BlockDevice
    OBVIOUS
  <2>2. PICK content : content = IF c.op \in FhiCalls THEN Bytes(files[c.fd]) ELSE data[BlockDevice]
    OBVIOUS
  <2> QED BY <2>1, <2>2, <1>5, DueSectors
<1> QED BY <1>0, <1>1, <1>2, <1>3, <1>4, <1>5 DEF udpfs_device_ops

----------------------------------------------------------------------------
(* What a call is to come to stays while the files stay.                   *)

SameTrees == UNCHANGED <<tree, data, handles, read_only, g_fds>>

LEMMA NamesSame ==
    ASSUME UNCHANGED tree, NEW path
    PROVE  /\ Kind(path)' = Kind(path) /\ Exists(path)' = Exists(path)
           /\ Actual(path)' = Actual(path) /\ Unpacks(path)' = Unpacks(path)
           /\ Shows(path)' = Shows(path) /\ ShownIno(path)' = ShownIno(path)
           /\ Children(path)' = Children(path)
<1>1. \A p : Kind(p)' = Kind(p) /\ Exists(p)' = Exists(p) /\ Unpacks(p)' = Unpacks(p)
  BY DEF Kind, Exists, Unpacks
<1>2. _find_compressed_version(path)' = _find_compressed_version(path)
  BY <1>1 DEF _find_compressed_version
<1>3. Actual(path)' = Actual(path)
  BY <1>2 DEF Actual
<1>4. Shows(path)' = Shows(path)
  BY <1>1, <1>2 DEF Shows
<1>5. ShownIno(path)' = ShownIno(path)
  BY <1>3 DEF ShownIno
<1>6. Children(path)' = Children(path)
  BY <1>1 DEF Children
<1> QED BY <1>1, <1>3, <1>4, <1>5, <1>6

LEMMA NewInodeSame ==
    ASSUME UNCHANGED <<tree, data, handles>>
    PROVE  NewInode' = NewInode
<1>1. FreshInodes' = FreshInodes
  BY DEF FreshInodes, InUse
<1> QED BY <1>1 DEF NewInode

LEMMA AllocSame ==
    ASSUME UNCHANGED g_fds
    PROVE  _alloc_fd' = _alloc_fd
<1>1. FreeFds' = FreeFds
  BY DEF FreeFds
<1> QED BY <1>1 DEF _alloc_fd

LEMMA DueSame ==
    ASSUME SameTrees, NEW files, NEW c
    PROVE  Due(files, c)' = Due(files, c)
<1> USE DEF SameTrees
<1>1. \A r, g : Result(files, r, g)' = Result(files, r, g)
  BY DEF Result
<1>2. \A p : /\ Kind(p)' = Kind(p) /\ Exists(p)' = Exists(p)
             /\ Actual(p)' = Actual(p) /\ Unpacks(p)' = Unpacks(p)
             /\ Shows(p)' = Shows(p) /\ ShownIno(p)' = ShownIno(p)
             /\ Children(p)' = Children(p)
  BY NamesSame
<1>3. \A f : Bytes(f)' = Bytes(f) /\ WriteFrom(f)' = WriteFrom(f)
  BY DEF Bytes, WriteFrom
<1>4. \A slot : LocalOpen(files, slot, c)' = LocalOpen(files, slot, c)
  <2>1. ShownSize(c.path)' = ShownSize(c.path)
    BY <1>2 DEF ShownSize
  <2>2. Refuses(c)' = Refuses(c) /\ Keeps(c)' = Keeps(c)
    BY <1>2 DEF Refuses, Keeps
  <2>3. KeptFile(c)' = KeptFile(c)
    BY <1>2, <2>1 DEF KeptFile
  <2>4. MadeIno(c)' = MadeIno(c)
    BY <1>2, NewInodeSame DEF MadeIno
  <2>5. MadeFile(c)' = MadeFile(c)
    BY <2>4 DEF MadeFile
  <2>6. MadeTree(c.path, MadeIno(c))' = MadeTree(c.path, MadeIno(c))
    BY <2>4 DEF MadeTree
  <2>7. Result(files, 0, NoBuffer)' = Result(files, 0, NoBuffer) /\ Result(files, EIO, NoBuffer)' = Result(files, EIO, NoBuffer)
    BY <1>1
  <2> QED BY <2>2, <2>3, <2>4, <2>5, <2>6, <2>7 DEF LocalOpen
<1>5. \A slot : LocalDopen(files, slot, c)' = LocalDopen(files, slot, c)
  <2>1. ListedDir(c.path)' = ListedDir(c.path)
    BY <1>2, SMTT(30) DEF ListedDir
  <2> QED BY <2>1, <1>1, <1>2 DEF LocalDopen
<1>6. LocalRead(files, c)' = LocalRead(files, c)
  BY <1>1, <1>3 DEF LocalRead
<1>7. LocalWrite(files, c)' = LocalWrite(files, c)
  BY <1>1, <1>3 DEF LocalWrite
<1>8. LocalSeek(files, c)' = LocalSeek(files, c)
  <2>1. ASSUME NEW f PROVE SeekPlace(f, c)' = SeekPlace(f, c)
    <3>1. Bytes(f)' = Bytes(f)
      BY <1>3
    <3>2. SeekTarget(f, c)' = SeekTarget(f, c)
      BY <3>1, SMTT(30) DEF SeekTarget
    <3> QED BY <3>1, <3>2 DEF SeekPlace
  <2> QED BY <2>1, <1>1 DEF LocalSeek
<1>9. LocalDread(files, c)' = LocalDread(files, c)
  BY <1>1, <1>2 DEF LocalDread
<1>10. LocalStat(files, c)' = LocalStat(files, c)
  <2>1. ShownSize(c.path)' = ShownSize(c.path)
    BY <1>2 DEF ShownSize
  <2> QED BY <2>1, <1>1, <1>2 DEF LocalStat
<1>11. LocalName(files, c)' = LocalName(files, c)
  BY <1>1, <1>2 DEF LocalName
<1>12. \A ino, content, n : Sectors(files, ino, content, c, n)' = Sectors(files, ino, content, c, n)
  BY <1>1 DEF Sectors
<1>13. _alloc_fd' = _alloc_fd
  BY AllocSame
<1> QED BY <1>1, <1>3, <1>4, <1>5, <1>6, <1>7, <1>8, <1>9, <1>10, <1>11, <1>12, <1>13 DEF Due

\* A call leaves the files of other slots, and nothing but a place of its own.
SameAs(f, g) == f.kind = g.kind /\ f.ino = g.ino /\ f.can = g.can

LEMMA PlaceOnly ==
    ASSUME NEW files \in [Fds -> OpenFiles], NEW fd \in Fds, NEW k \in Fds
    PROVE  /\ \A p : SameAs([files EXCEPT ![k].pos = p][fd], files[fd])
           /\ \A l : SameAs([files EXCEPT ![k].names = l][fd], files[fd])
<1>1. files[fd] \in OpenFiles
  OBVIOUS
<1>2. \A p : SameAs([files[fd] EXCEPT !.pos = p], files[fd])
  BY <1>1 DEF OpenFiles, SameAs, Closed
<1>3. \A p : SameAs([files[fd] EXCEPT !.names = p], files[fd])
  BY <1>1 DEF OpenFiles, SameAs, Closed
<1>4. SameAs(files[fd], files[fd])
  BY DEF SameAs
<1>5. \A p : [files EXCEPT ![k].pos = p][fd] = IF fd = k THEN [files[fd] EXCEPT !.pos = p] ELSE files[fd]
  OBVIOUS
<1>6. \A l : [files EXCEPT ![k].names = l][fd] = IF fd = k THEN [files[fd] EXCEPT !.names = l] ELSE files[fd]
  OBVIOUS
<1> QED BY <1>2, <1>3, <1>4, <1>5, <1>6

LEMMA DueKeeps ==
    ASSUME ServerTypes, g_fds \in [Fds -> Int],
           NEW c \in Asked, NEW files \in [Fds -> OpenFiles], Fits(files, c),
           NEW fd \in Fds
    PROVE  /\ g_fds[fd] >= 0 /\ ~(c.op \in Closes /\ fd = c.fd) =>
                SameAs(Due(files, c).files[fd], files[fd])
           /\ read_only /\ "WR" \notin files[fd].can => "WR" \notin Due(files, c).files[fd].can
<1>0. c.op \in udpfs_device_ops \cup FhiCalls \cup BdCalls
  BY CallFields
<1>00. SameAs(files[fd], files[fd])
  BY DEF SameAs
<1>01. c.op \in Closes \cup OnFiles => c.fd \in Fds
  BY CallFields
<1> DEFINE F == Due(files, c).files
<1>1. CASE c.op \in Opens
  <2>0. _alloc_fd \in Fds /\ (g_fds[fd] >= 0 => fd # _alloc_fd)
    BY <1>1, FreeSlot DEF Fits
  <2>1. \/ F = files
        \/ \E f : F = [files EXCEPT ![_alloc_fd] = f] /\ (read_only => "WR" \notin f.can)
    <3>1. CASE c.op = "udpfs_open"
      <4>1. CASE Refuses(c)
        BY <4>1, <3>1, DueOpen
      <4>2. CASE ~Refuses(c) /\ Keeps(c)
        <5>1. F = [files EXCEPT ![_alloc_fd] = KeptFile(c)]
          BY <4>2, <3>1, DueOpen
        <5>2. read_only => "WR" \notin KeptFile(c).can
          BY <4>2 DEF Refuses, KeptFile
        <5> QED BY <5>1, <5>2
      <4>3. CASE ~Refuses(c) /\ ~Keeps(c)
        <5>1. F = [files EXCEPT ![_alloc_fd] = MadeFile(c)]
          BY <4>3, <3>1, DueOpen
        <5>2. read_only => "WR" \notin MadeFile(c).can
          BY <4>3 DEF Refuses, MadeFile
        <5> QED BY <5>1, <5>2
      <4> QED BY <4>1, <4>2, <4>3
    <3>2. CASE c.op = "udpfs_dopen"
      <4>1. F = files \/ F = [files EXCEPT ![_alloc_fd] = ListedDir(c.path)]
        BY <3>2, DueDopen
      <4>2. "WR" \notin ListedDir(c.path).can
        BY DEF ListedDir
      <4> QED BY <4>1, <4>2
    <3> QED BY <1>1, <3>1, <3>2 DEF Opens
  <2>2. c.op \notin Closes
    BY <1>1 DEF Opens, Closes
  <2> HIDE DEF F
  <2>3. CASE F = files
    BY <2>3, <1>00 DEF F
  <2>4. CASE \E f : F = [files EXCEPT ![_alloc_fd] = f] /\ (read_only => "WR" \notin f.can)
    <3>1. PICK f : F = [files EXCEPT ![_alloc_fd] = f] /\ (read_only => "WR" \notin f.can)
      BY <2>4
    <3>2. F[fd] = IF fd = _alloc_fd THEN f ELSE files[fd]
      BY <3>1, <2>0
    <3> QED BY <3>1, <3>2, <2>0, <1>00 DEF F
  <2> QED BY <2>1, <2>3, <2>4
<1>2. CASE c.op \in Closes
  <2>1. F = [files EXCEPT ![c.fd] = Closed]
    BY <1>2, DueClose
  <2>2. F[fd] = IF fd = c.fd THEN Closed ELSE files[fd]
    BY <2>1, <1>01, <1>2
  <2>3. "WR" \notin Closed.can
    BY DEF Closed
  <2> QED BY <2>2, <2>3, <1>00, <1>2
<1>3. CASE c.op \in OnFiles
  <2>1. c.fd \in Fds
    BY <1>3, CallFields
  <2>2. \/ F = files \/ \E p : F = [files EXCEPT ![c.fd].pos = p]
        \/ \E l : F = [files EXCEPT ![c.fd].names = l]
    <3>1. CASE c.op = "udpfs_read"
      <4>1. F = [files EXCEPT ![c.fd].pos = files[c.fd].pos
                    + Len(ReadAt(Bytes(files[c.fd]), files[c.fd].pos, c.size))]
        BY <3>1, DueRead
      <4> QED BY <4>1
    <3>2. CASE c.op = "udpfs_write"
      <4>1. F = [files EXCEPT ![c.fd].pos = WriteFrom(files[c.fd]) + c.size]
        BY <3>2, DueWrite
      <4> QED BY <4>1
    <3>3. CASE c.op = "udpfs_lseek64"
      <4>1. \/ F = files
            \/ F = [files EXCEPT ![c.fd].pos = SeekPlace(files[c.fd], c)]
        BY <3>3, DueSeek
      <4> QED BY <4>1
    <3>4. CASE c.op = "udpfs_dread"
      <4>1. \/ F = files
            \/ F = [files EXCEPT ![c.fd].names = Tail(files[c.fd].names)]
        BY <3>4, DueDread
      <4> QED BY <4>1
    <3> QED BY <1>3, <3>1, <3>2, <3>3, <3>4 DEF OnFiles
  <2>3. SameAs(F[fd], files[fd])
    <3> HIDE DEF F
    <3> QED BY <2>1, <2>2, <1>00, PlaceOnly
  <2> QED BY <2>3 DEF SameAs
<1>4. CASE c.op \in OnNames
  BY <1>4, DueNames, <1>00
<1>5. CASE c.op \in FhiCalls \cup BdCalls
  <2>1. PICK ino : ino = IF c.op \in FhiCalls THEN files[c.fd].ino ELSE BlockDevice
    OBVIOUS
  <2>2. PICK content : content = IF c.op \in FhiCalls THEN Bytes(files[c.fd]) ELSE data[BlockDevice]
    OBVIOUS
  <2>3. F = files
    BY <2>1, <2>2, <1>5, DueSectors
  <2> QED BY <2>3, <1>00
<1> QED BY <1>0, <1>1, <1>2, <1>3, <1>4, <1>5 DEF udpfs_device_ops

----------------------------------------------------------------------------
(* The course of a call: the server is as it was.                          *)

LEMMA ServerStays ==
    ASSUME IInv, UnchangedServer, reply' = NoReply \/ reply' = reply
    PROVE  ServerTypes' /\ TreeInv' /\ TableInv'
<1>1. ServerTypes'
  BY DEF IInv, ServerTypes, UnchangedServer, NoReply
<1>2. TreeInv'
  <2>1. \A p : Kind(p)' = Kind(p)
    BY DEF UnchangedServer, Kind
  <2> QED BY <2>1 DEF IInv, TreeInv, UnchangedServer
<1>3. TableInv'
  BY DEF IInv, TableInv, UnchangedServer
<1> QED BY <1>1, <1>2, <1>3

\* What is open for a file is open for it when it was read or written.
LEMMA OpenForSame ==
    ASSUME NEW h, NEW f, NEW g, SameAs(g, f), handles' = handles, IsOpen(h, f)
    PROVE  IsOpen(h, g) /\ IsOpen(h, f)' /\ IsOpen(h, g)'
BY DEF IsOpen, SameAs

LEMMA MatchesStay ==
    ASSUME NEW table, NEW files, handles' = handles, left'.since = left.since,
           Matches(table, files)
    PROVE  Matches(table, files)'
BY DEF Matches, IsOpen, SamePlace

LEMMA MovedNowhere ==
    ASSUME NEW files \in [Fds -> OpenFiles], NEW fd \in Fds,
           files[fd].kind \in {"file", "alias"}
    PROVE  [files EXCEPT ![fd].pos = @ + 0] = files
<1>1. files[fd] \in [kind : {"file", "alias"}, ino : Inodes, pos : Nat, can : SUBSET Flags,
                     names : {<<>>}]
  BY DEF OpenFiles, Closed
<1>2. [files[fd] EXCEPT !.pos = files[fd].pos + 0] = files[fd]
  BY <1>1
<1>3. [files EXCEPT ![fd].pos = @ + 0] = [files EXCEPT ![fd] = [files[fd] EXCEPT !.pos = files[fd].pos + 0]]
  OBVIOUS
<1> QED BY <1>2, <1>3

\* A call in its stage, on files that are open.
InStage(t, c) ==
    \/ left.as = "ioman" /\ t = 1 /\ c.op \in udpfs_device_ops
    \/ left.as = "fhi" /\ c.op \in FhiCalls /\ fhi[c.fd] >= 0
    \/ left.as = "bd" /\ t = 1 /\ c.op \in BdCalls /\ bd > 0

LEMMA StartKeeps ==
    ASSUME IInv, NEW t \in Threads, NEW c \in Asked, Starts(t, c), Fits(due.files, c),
           \A u \in Threads : ~Busy(u), InStage(t, c),
           UnchangedServer, UNCHANGED <<link, g_fds, fhi, bd>>,
           left' = left \/ Spends,
           g_sema' \in {0, 1}, left.as = "fhi" => g_sema' = 0,
           left.as # "fhi" => at[1] = "idle",
           left.as = "ioman" /\ c.op \in OnFiles \cup Closes => g_fds[c.fd] >= 0,
           c.op = "udpfs_read" => c.size > 0
    PROVE  IInv'
<1> USE DEF IInv, Threads
<1>1. due' = Due(due.files, c) /\ due.files \in [Fds -> OpenFiles]
  BY DEF Starts, ClientTypes
<1>2. DueFrom(due.files, due') /\ due'.files \in [Fds -> OpenFiles]
  BY <1>1, DueType
<1>3. due' = [res |-> due'.res, got |-> due'.got, tree |-> due'.tree, data |-> due'.data,
              files |-> due'.files, old |-> due.files]
  BY <1>2 DEF DueFrom
<1>4. due'.old = due.files
  BY <1>3
<1>5. /\ left' \in [plan : {left'.plan}, as : {left'.as}, ops : {left'.ops},
                    calls : {left'.calls}, faults : {left'.faults}, since : Nat, pc : BOOLEAN]
      /\ left'.as = left.as /\ left'.since = left.since /\ left'.pc = left.pc
  BY DEF Spends, ClientTypes
<1>6. ServerTypes' /\ TreeInv' /\ TableInv'
  BY ServerStays DEF Starts
<1>7. /\ at' = [at EXCEPT ![t] = "send"] /\ call' = [call EXCEPT ![t] = c]
      /\ done' = 0 /\ got' = NoBuffer /\ reply' = NoReply
  BY DEF Starts
<1>8. at \in [Threads -> {"idle", "lock", "send", "wait"}]
      /\ call \in [Threads -> Asked \union {Idle, BdInit}]
  BY DEF ClientTypes
<1>9. /\ at'[t] = "send" /\ call'[t] = c
      /\ \A u \in Threads : u # t => at'[u] = at[u] /\ call'[u] = call[u]
  BY <1>7, <1>8
<1>10. ClientTypes'
  <2>1. due' \in [res : {due'.res}, got : {due'.got}, tree : {due'.tree}, data : {due'.data},
                  files : [Fds -> OpenFiles], old : [Fds -> OpenFiles]]
    BY <1>1, <1>2, <1>3
  <2>2. at' \in [Threads -> {"idle", "lock", "send", "wait"}]
        /\ call' \in [Threads -> Asked \union {Idle, BdInit}]
    BY <1>7, <1>8
  <2> QED BY <2>1, <2>2, <1>5, <1>7 DEF ClientTypes
<1>11. \A u \in Threads : Busy(u)' <=> u = t
  BY <1>9 DEF Busy
<1>12. NoWriteInv'
  BY <1>5 DEF NoWriteInv, UnchangedServer
<1>13. CallsInv'
  <2>1. c # Idle /\ c.op \notin {"udpfs_bd_init"}
    BY CallFields DEF udpfs_device_ops, Opens, Closes, OnNames, OnFiles, FhiCalls, BdCalls
  <2>2. left.as # "fhi" => t = 1 /\ at[2] = "idle"
    BY DEF InStage, CallsInv
  <2>3. ASSUME NEW u \in Threads, at'[u] # "idle"
        PROVE CASE left'.as = "ioman" -> call'[u].op \in udpfs_device_ops /\ call'[u] # Idle
                [] left'.as = "fhi" -> call'[u].op \in FhiCalls /\ fhi'[call'[u].fd] >= 0
                [] left'.as = "bd" -> call'[u].op \in BdOps
                [] OTHER -> FALSE
    <3>1. CASE u = t
      BY <3>1, <2>1, <1>5, <1>9 DEF InStage, BdOps, ClientTypes
    <3>2. CASE u # t
      <4>1. at[u] # "idle" /\ call'[u] = call[u]
        BY <3>2, <2>3, <1>9
      <4>2. left.as = "fhi"
        BY <4>1, <3>2, <2>2
      <4> QED BY <4>1, <4>2, <1>5 DEF CallsInv
    <3> QED BY <3>1, <3>2
  <2>4. left'.as \notin {"ioman", "bd", "fhi"} => \A u \in Threads : at'[u] = "idle"
    BY <1>5 DEF InStage
  <2>5. left'.as # "fhi" => at'[2] = "idle" /\ at'[1] # "lock"
    BY <2>2, <1>5, <1>9
  <2>6. ~(Busy(1)' /\ Busy(2)')
    BY <1>11
  <2>7. left'.as = "fhi" => g_sema' = 0
    BY <1>5
  <2>8. c.op \in Reads => done' < c.count
    BY CallFields, <1>7 DEF Reads, FhiCalls, BdCalls
  <2> QED BY <2>3, <2>4, <2>5, <2>6, <2>7, <2>8, <1>9, <1>11 DEF CallsInv
<1>14. BdReply'
  BY <1>7 DEF BdReply
<1>15. DueInv'
  <2>1. SameTrees
    BY DEF SameTrees, UnchangedServer
  <2>2. ASSUME NEW f, NEW k PROVE Due(f, k)' = Due(f, k)
    BY <2>1, DueSame
  <2>3. ASSUME NEW u \in Threads, Sends(u)' PROVE (due = Due(due.old, call[u]))'
    <3>1. u = t
      BY <2>3, <1>11 DEF Busy, Sends
    <3>2. due' = Due(due'.old, call'[u])
      BY <3>1, <1>1, <1>4, <1>9
    <3> QED BY <3>2, <2>2
  <2> QED BY <2>3 DEF DueInv
<1>16. WriteInv'
  BY <1>7 DEF WriteInv
<1>17. OpenInv'
  <2>1. g_fds \in [Fds -> Numbers] /\ g_fds' = g_fds /\ fhi' = fhi /\ fhi \in [Fds -> Numbers]
    BY DEF ClientTypes
  <2>2. handles' = handles /\ read_only' = read_only
    BY DEF UnchangedServer
  <2>3. ASSUME NEW fd \in Fds
        PROVE  /\ g_fds[fd] >= 0 /\ ~(c.op \in Closes /\ fd = c.fd) => SameAs(due'.files[fd], due.files[fd])
               /\ read_only /\ "WR" \notin due.files[fd].can => "WR" \notin due'.files[fd].can
    BY <2>3, <2>1, <1>1, DueKeeps
  <2>4. ASSUME left'.as = "ioman", ~left'.pc
        PROVE  AreOpen(Table, due.files)' /\ (Busy(1)' => AreOpen(Table, due.old)')
    <3>1. t = 1 /\ call'[1] = c /\ Busy(1)'
      BY <2>4, <1>5, <1>9, <1>11 DEF InStage, FhiCalls, BdCalls
    <3>2. \A fd \in Fds : Table'[fd] >= 0 =>
            Table'[fd] = g_fds[fd] /\ g_fds[fd] >= 0 /\ ~(c.op \in Closes /\ fd = c.fd)
      <4>1. CASE c.op \in Closes
        <5>1. Table' = [g_fds EXCEPT ![c.fd] = -1]
          BY <4>1, <3>1, <2>1 DEF Table
        <5> QED BY <5>1, <2>1
      <4>2. CASE c.op \notin Closes
        <5>1. Table' = g_fds
          BY <4>2, <3>1, <2>1 DEF Table
        <5> QED BY <5>1, <4>2
      <4> QED BY <4>1, <4>2
    <3>3. \A fd \in Fds : g_fds[fd] >= 0 => IsOpen(g_fds[fd], due.files[fd])
      <4>1. AreOpen(Table, due.files)
        BY <2>4, <1>5 DEF OpenInv
      <4>2. Table = g_fds
        BY DEF Table
      <4> QED BY <4>1, <4>2 DEF AreOpen
    <3>4. ASSUME NEW fd \in Fds, Table'[fd] >= 0
          PROVE IsOpen(Table[fd], due.files[fd])' /\ IsOpen(Table[fd], due.old[fd])'
      <4>1. SameAs(due'.files[fd], due.files[fd]) /\ IsOpen(Table'[fd], due.files[fd])
        BY <3>2, <3>3, <3>4, <2>3
      <4>2. ASSUME NEW h, NEW g, NEW f, SameAs(g, f), IsOpen(h, f) PROVE IsOpen(h, g)' /\ IsOpen(h, f)'
        BY <4>2, <2>2, OpenForSame
      <4> QED BY <4>1, <4>2, <1>4
    <3> QED BY <3>4 DEF AreOpen
  <2>5. ASSUME left'.as = "fhi" PROVE due'.files = due.files /\ due'.old = due'.files
    <3>1. c.op \in FhiCalls
      BY <2>5, <1>5 DEF InStage
    <3>2. PICK ino : ino = IF c.op \in FhiCalls THEN due.files[c.fd].ino ELSE BlockDevice
      OBVIOUS
    <3>3. PICK content : content = IF c.op \in FhiCalls THEN Bytes(due.files[c.fd]) ELSE data[BlockDevice]
      OBVIOUS
    <3> QED BY <3>1, <3>2, <3>3, <1>1, <1>4, DueSectors, ZenonT(60)
  <2>6. ASSUME left'.as = "fhi", ~left'.pc
        PROVE  AreOpen(fhi, due.files)' /\ \A fd \in Fds : fhi'[fd] >= 0 => due'.files[fd].kind # "dir"
    <3>1. /\ \A fd \in Fds : fhi[fd] >= 0 => IsOpen(fhi[fd], due.files[fd])
          /\ \A fd \in Fds : fhi[fd] >= 0 => due.files[fd].kind # "dir"
      BY <2>6, <1>5 DEF OpenInv, AreOpen
    <3>2. ASSUME NEW h, NEW f, IsOpen(h, f) PROVE IsOpen(h, f)'
      BY <3>2, <2>2 DEF IsOpen
    <3> QED BY <3>1, <3>2, <2>1, <2>5, <2>6 DEF AreOpen
  <2>7. ASSUME read_only' PROVE \A fd \in Fds : "WR" \notin due'.files[fd].can /\ "WR" \notin due'.old[fd].can
    BY <2>7, <2>2, <2>3, <1>4 DEF OpenInv
  <2> QED BY <2>4, <2>5, <2>6, <2>7 DEF OpenInv
<1>18. MatchInv'
  <2> SUFFICES ASSUME left'.as = "ioman"
               PROVE  /\ Allowed(c)' /\ reply' = NoReply
                      /\ link' = "up" => Matches(g_fds, Come(c))'
    BY <1>5, <1>7, <1>9, <1>11 DEF MatchInv, InStage, FhiCalls, BdCalls, Busy
  <2>1. t = 1 /\ ~Busy(1) /\ at[1] = "idle" /\ left.as = "ioman" /\ c.op \in udpfs_device_ops
    BY <1>5 DEF InStage, FhiCalls, BdCalls, Busy
  <2>2. Allowed(c)'
    <3>1. c.op \in Closes \cup OnFiles => c.fd \in Fds /\ due.files[c.fd] \in OpenFiles
      BY CallFields, <1>1
    <3>2. c.op \in Closes \cup OnFiles => due.files[c.fd].kind \in {"none", "file", "alias", "dir"}
      BY <3>1, OpenFileParts
    <3>3. FreeFds' = FreeFds
      BY DEF FreeFds
    <3>4. c.op = "udpfs_lseek64" => due.files[c.fd].kind \in {"file", "alias"}
      BY <3>1, OpenFileParts DEF Fits, OnFiles
    <3>5. c.op \in {"udpfs_dread", "udpfs_dclose"} => due.files[c.fd].kind = "dir"
      BY <3>1, OpenFileParts DEF Fits, OnFiles, Closes
    <3>6. c.op = "udpfs_read" => 0 < c.size
      OBVIOUS
    <3> QED BY <2>1, <3>3, <3>4, <3>5, <3>6, <1>4, <1>5, <1>7 DEF Allowed, Fits
  <2>3. ASSUME link' = "up" PROVE Matches(g_fds, Come(c))'
    <3>1. Matches(g_fds, due.files)
      BY <2>1, <2>3 DEF MatchInv
    <3>2. Come(c)' = due.files
      <4>1. CASE c.op = "udpfs_read"
        <5>1. c.fd \in Fds /\ due.files[c.fd].kind \in {"file", "alias"}
          BY <4>1, CallFields, <1>1, OpenFileParts DEF OnFiles, Fits
        <5>2. [due.files EXCEPT ![c.fd].pos = @ + 0] = due.files
          BY <5>1, <1>1, MovedNowhere
        <5>3. Come(c)' = [due'.old EXCEPT ![c.fd].pos = @ + done']
          BY <4>1 DEF Come, Moved
        <5> QED BY <5>2, <5>3, <1>4, <1>7
      <4>2. CASE c.op # "udpfs_read"
        BY <4>2, <1>4 DEF Come
      <4> QED BY <4>1, <4>2
    <3>3. ASSUME NEW table, NEW files, Matches(table, files) PROVE Matches(table, files)'
      BY <3>3, <1>5, MatchesStay DEF UnchangedServer
    <3> QED BY <3>1, <3>2, <3>3
  <2> QED BY <2>2, <2>3, <1>7
<1> QED BY <1>6, <1>10, <1>12, <1>13, <1>14, <1>15, <1>16, <1>17, <1>18

LEMMA ReturnKeeps ==
    ASSUME IInv, NEW t \in Threads, at[t] # "idle", \A u \in Threads : u # t => ~Busy(u),
           NEW res \in Int, Returns(t, res), Busy(t) \/ res >= 0,
           UnchangedServer, fhi' = fhi,
           left' = left \/ left' = [left EXCEPT !.faults = @ - 1],
           g_fds' \in [Fds -> Numbers], bd' \in Sizes, link' \in {link, "down"},
           left.as = "ioman" /\ ~left.pc =>
               \A fd \in Fds : g_fds'[fd] >= 0 => IsOpen(g_fds'[fd], due'.files[fd]),
           left.as = "ioman" /\ link' = "up" => Matches(g_fds', due'.files)
    PROVE  IInv'
<1> USE DEF IInv, Threads
<1>1. due \in [res : {due.res}, got : {due.got}, tree : {due.tree}, data : {due.data},
               files : [Fds -> OpenFiles], old : [Fds -> OpenFiles]]
  BY DEF ClientTypes
<1>2. due' = IF res < 0 THEN [due EXCEPT !.files = due.old] ELSE due
  BY DEF Returns
<1>3. /\ due' \in [res : {due'.res}, got : {due'.got}, tree : {due'.tree}, data : {due'.data},
                   files : [Fds -> OpenFiles], old : [Fds -> OpenFiles]]
      /\ due'.old = due.old
      /\ due'.files = IF res < 0 THEN due.old ELSE due.files
  BY <1>1, <1>2
<1>5. /\ left' \in [plan : {left'.plan}, as : {left'.as}, ops : {left'.ops},
                    calls : {left'.calls}, faults : {left'.faults}, since : Nat, pc : BOOLEAN]
      /\ left'.as = left.as /\ left'.since = left.since /\ left'.pc = left.pc
  BY DEF ClientTypes
<1>6. ServerTypes' /\ TreeInv' /\ TableInv'
  BY ServerStays DEF Returns
<1>7. /\ at' = [at EXCEPT ![t] = "idle"] /\ call' = [call EXCEPT ![t] = Idle]
      /\ done' = 0 /\ reply' = NoReply /\ g_sema' \in {0, 1}
  BY DEF Returns, GivesBack, ClientTypes
<1>8. at \in [Threads -> {"idle", "lock", "send", "wait"}]
      /\ call \in [Threads -> Asked \union {Idle, BdInit}]
  BY DEF ClientTypes
<1>9. /\ at'[t] = "idle" /\ call'[t] = Idle
      /\ \A u \in Threads : u # t => at'[u] = at[u] /\ call'[u] = call[u]
  BY <1>7, <1>8
<1>10. ClientTypes'
  <2>2. at' \in [Threads -> {"idle", "lock", "send", "wait"}]
        /\ call' \in [Threads -> Asked \union {Idle, BdInit}]
    BY <1>7, <1>8
  <2> QED BY <2>2, <1>3, <1>5, <1>7 DEF ClientTypes
<1>11. \A u \in Threads : ~Busy(u)'
  BY <1>9 DEF Busy
<1>12. NoWriteInv'
  BY <1>5 DEF NoWriteInv, UnchangedServer
<1>13. CallsInv'
  <2>1. ASSUME NEW u \in Threads, at'[u] # "idle"
        PROVE CASE left'.as = "ioman" -> call'[u].op \in udpfs_device_ops /\ call'[u] # Idle
                [] left'.as = "fhi" -> call'[u].op \in FhiCalls /\ fhi'[call'[u].fd] >= 0
                [] left'.as = "bd" -> call'[u].op \in BdOps
                [] OTHER -> FALSE
    <3>1. u # t /\ at[u] # "idle" /\ call'[u] = call[u]
      BY <2>1, <1>9
    <3> QED BY <3>1, <1>5 DEF CallsInv
  <2>2. left'.as \notin {"ioman", "bd", "fhi"} => \A u \in Threads : at'[u] = "idle"
    BY <1>5, <1>9 DEF CallsInv
  <2>3. left'.as # "fhi" => at'[2] = "idle" /\ at'[1] # "lock"
    BY <1>5, <1>9 DEF CallsInv
  <2> QED BY <2>1, <2>2, <2>3, <1>11 DEF CallsInv
<1>14. BdReply'
  BY <1>7 DEF BdReply
<1>15. DueInv'
  BY <1>11 DEF DueInv, Sends, Busy
<1>16. WriteInv'
  BY <1>11 DEF WriteInv, Busy
<1>17. OpenInv'
  <2>1. handles' = handles /\ read_only' = read_only
    BY DEF UnchangedServer
  <2>2. ASSUME NEW h, NEW f, IsOpen(h, f) PROVE IsOpen(h, f)'
    BY <2>1, <2>2 DEF IsOpen
  <2>3. ASSUME left'.as = "ioman", ~left'.pc
        PROVE  AreOpen(Table, due.files)' /\ ~Busy(1)'
    <3>1. Table' = g_fds' /\ ~Busy(1)'
      BY <1>11 DEF Table
    <3>2. \A fd \in Fds : g_fds'[fd] >= 0 => IsOpen(g_fds'[fd], due'.files[fd])
      BY <2>3, <1>5
    <3>3. ASSUME NEW fd \in Fds, Table'[fd] >= 0 PROVE IsOpen(Table[fd], due.files[fd])'
      BY <3>1, <3>2, <3>3, <2>2
    <3> QED BY <3>1, <3>3 DEF AreOpen
  <2>4. ASSUME left.as = "fhi" PROVE due'.files = due.files
    BY <2>4, <1>3 DEF OpenInv
  <2>5. ASSUME left'.as = "fhi", ~left'.pc
        PROVE  AreOpen(fhi, due.files)' /\ \A fd \in Fds : fhi'[fd] >= 0 => due'.files[fd].kind # "dir"
    <3>1. /\ \A fd \in Fds : fhi[fd] >= 0 => IsOpen(fhi[fd], due.files[fd])
          /\ \A fd \in Fds : fhi[fd] >= 0 => due.files[fd].kind # "dir"
      BY <2>5, <1>5 DEF OpenInv, AreOpen
    <3> QED BY <3>1, <2>2, <2>4, <2>5, <1>5 DEF AreOpen
  <2>6. ASSUME read_only' PROVE \A fd \in Fds : "WR" \notin due'.files[fd].can /\ "WR" \notin due'.old[fd].can
    BY <2>6, <2>1, <1>3 DEF OpenInv
  <2> QED BY <2>3, <2>5, <2>6, <1>11 DEF OpenInv
<1>18. MatchInv'
  <2> SUFFICES ASSUME left'.as = "ioman"
               PROVE  link' = "up" => Matches(g_fds, due.files)'
    BY <1>7, <1>11 DEF MatchInv, Busy
  <2>1. ASSUME link' = "up" PROVE Matches(g_fds, due.files)'
    <3>1. Matches(g_fds', due'.files)
      BY <2>1, <1>5
    <3>2. ASSUME NEW table, NEW files, Matches(table, files) PROVE Matches(table, files)'
      BY <3>2, <1>5, MatchesStay DEF UnchangedServer
    <3> QED BY <3>1, <3>2
  <2> QED BY <2>1
<1> QED BY <1>6, <1>10, <1>12, <1>13, <1>14, <1>15, <1>16, <1>17, <1>18

\* A call that returns before it sends anything, and one that waits for the
\* semaphore.
WaitsFor(t, c) ==
    /\ left.as = "fhi" /\ at[t] = "idle" /\ c.op \in FhiCalls /\ fhi[c.fd] >= 0
    /\ at' = [at EXCEPT ![t] = "lock"] /\ call' = [call EXCEPT ![t] = c]

LEMMA WaitKeeps ==
    ASSUME IInv, UnchangedServer, UNCHANGED <<link, fhi, bd, done, got, reply, due, g_sema>>,
           Spends, left.as = "ioman" => at[1] = "idle",
           UNCHANGED <<at, call>> \/ \E t \in Threads, c \in Asked : WaitsFor(t, c),
           \/ g_fds' = g_fds
           \/ /\ at[1] = "idle" /\ left.as # "fhi"
              /\ \E fd \in Fds : /\ g_fds' = [g_fds EXCEPT ![fd] = -1]
                                 /\ g_fds[fd] < 0 \/ link = "down"
    PROVE  IInv'
<1> USE DEF IInv, Threads
<1>1. /\ left' \in [plan : {left'.plan}, as : {left'.as}, ops : {left'.ops},
                    calls : {left'.calls}, faults : {left'.faults}, since : Nat, pc : BOOLEAN]
      /\ left'.as = left.as /\ left'.since = left.since /\ left'.pc = left.pc
  BY DEF ClientTypes, Spends
<1>2. ServerTypes' /\ TreeInv' /\ TableInv'
  BY ServerStays
<1>3. at \in [Threads -> {"idle", "lock", "send", "wait"}]
      /\ call \in [Threads -> Asked \union {Idle, BdInit}]
  BY DEF ClientTypes
<1>4. ASSUME NEW u \in Threads
      PROVE  /\ Busy(u)' <=> Busy(u)
             /\ Busy(u) => at'[u] = at[u] /\ call'[u] = call[u]
             /\ \/ at'[u] = at[u] /\ call'[u] = call[u]
                \/ /\ left.as = "fhi" /\ at'[u] = "lock" /\ call'[u] \in Asked
                   /\ call'[u].op \in FhiCalls /\ fhi[call'[u].fd] >= 0
  <2>1. CASE UNCHANGED <<at, call>>
    BY <2>1 DEF Busy
  <2>2. CASE \E t \in Threads, c \in Asked : WaitsFor(t, c)
    <3>1. PICK t \in Threads, c \in Asked : WaitsFor(t, c)
      BY <2>2
    <3>2. /\ u = t => at'[u] = "lock" /\ call'[u] = c /\ at[u] = "idle"
          /\ u # t => at'[u] = at[u] /\ call'[u] = call[u]
      BY <3>1, <1>3 DEF WaitsFor
    <3> QED BY <3>1, <3>2 DEF Busy, WaitsFor
  <2> QED BY <2>1, <2>2
<1>5. /\ at' \in [Threads -> {"idle", "lock", "send", "wait"}]
      /\ call' \in [Threads -> Asked \union {Idle, BdInit}]
  BY <1>3 DEF WaitsFor
<1>6. g_fds' \in [Fds -> Numbers]
  BY DEF ClientTypes
<1>7. ClientTypes'
  BY <1>1, <1>5, <1>6 DEF ClientTypes
<1>8. NoWriteInv'
  BY <1>1 DEF NoWriteInv, UnchangedServer
<1>9. CallsInv'
  <2>1. ASSUME NEW u \in Threads, at'[u] # "idle"
        PROVE CASE left'.as = "ioman" -> call'[u].op \in udpfs_device_ops /\ call'[u] # Idle
                [] left'.as = "fhi" -> call'[u].op \in FhiCalls /\ fhi'[call'[u].fd] >= 0
                [] left'.as = "bd" -> call'[u].op \in BdOps
                [] OTHER -> FALSE
    <3>1. CASE at'[u] = at[u] /\ call'[u] = call[u]
      BY <2>1, <3>1, <1>1 DEF CallsInv
    <3>2. CASE ~(at'[u] = at[u] /\ call'[u] = call[u])
      <4>1. /\ left.as = "fhi" /\ call'[u].op \in FhiCalls /\ fhi[call'[u].fd] >= 0
        BY <3>2, <1>4
      <4> QED BY <4>1, <1>1
    <3> QED BY <3>1, <3>2
  <2>2. left'.as \notin {"ioman", "bd", "fhi"} => \A u \in Threads : at'[u] = "idle"
    BY <1>1, <1>4 DEF CallsInv
  <2>3. left'.as # "fhi" => at'[2] = "idle" /\ at'[1] # "lock"
    BY <1>1, <1>4 DEF CallsInv
  <2>4. ~(Busy(1)' /\ Busy(2)')
    BY <1>4 DEF CallsInv
  <2>5. left'.as = "fhi" /\ g_sema' = 1 => \A u \in Threads : ~Busy(u)'
    BY <1>1, <1>4 DEF CallsInv
  <2>6. ASSUME NEW u \in Threads, Busy(u)', call'[u].op \in Reads PROVE done' < call'[u].count
    BY <2>6, <1>4 DEF CallsInv
  <2> QED BY <2>1, <2>2, <2>3, <2>4, <2>5, <2>6 DEF CallsInv
<1>10. BdReply'
  <2> SUFFICES ASSUME NEW u \in Threads, at'[u] # "idle", call'[u] = BdInit,
                      reply' # NoReply, reply'.result >= 0
               PROVE  reply'.data[2] \in Nat /\ (BlockDevice = 0 => reply'.data[2] = 0)
    BY DEF BdReply
  <2>1. BdInit \notin Asked
    BY CallFields
  <2>2. at'[u] = at[u] /\ call'[u] = call[u]
    BY <1>4, <2>1
  <2> QED BY <2>2 DEF BdReply
<1>11. left.as = "fhi" => g_fds' = g_fds
  OBVIOUS
<1>12. \A u \in Threads : Busy(u) => g_fds' = g_fds
  BY DEF CallsInv, Busy
<1>13. DueInv'
  <2> SUFFICES ASSUME NEW u \in Threads, Sends(u)', link' = "up", call'[u] # BdInit
               PROVE  due' = Due(due.old, call[u])'
    BY DEF DueInv
  <2>1. Sends(u) /\ call'[u] = call[u] /\ Busy(u)
    BY <1>4 DEF Busy, Sends
  <2>2. SameTrees
    BY <2>1, <1>12 DEF SameTrees, UnchangedServer
  <2>3. ASSUME NEW f, NEW k PROVE Due(f, k)' = Due(f, k)
    BY <2>2, DueSame
  <2>4. due = Due(due.old, call[u])
    BY <2>1 DEF DueInv
  <2> QED BY <2>1, <2>3, <2>4
<1>14. WriteInv'
  <2> SUFFICES ASSUME NEW u \in Threads, at'[u] = "send", link' = "up", call'[u] # BdInit,
                      call'[u].op \in Writes
               PROVE  /\ done' = 0 => reply' = NoReply
                      /\ done' > 0 =>
                           /\ done' < total_chunks(call'[u])
                           /\ IF reply' = NoReply THEN write' = Collected(call[u])'
                              ELSE write' = NoWrite
    BY DEF WriteInv, total_chunks
  <2>1. at[u] = "send" /\ call'[u] = call[u] /\ Busy(u)
    BY <1>4 DEF Busy
  <2>2. g_fds' = g_fds
    BY <2>1, <1>12
  <2>3. ASSUME NEW c PROVE Collected(c)' = Collected(c)
    BY <2>2 DEF Collected, Handle
  <2>4. /\ done = 0 => reply = NoReply
        /\ done > 0 =>
             /\ done < total_chunks(call[u])
             /\ IF reply = NoReply THEN write = Collected(call[u]) ELSE write = NoWrite
    BY <2>1 DEF WriteInv
  <2> QED BY <2>1, <2>3, <2>4 DEF UnchangedServer
<1>15. OpenInv'
  <2>1. handles' = handles /\ read_only' = read_only
    BY DEF UnchangedServer
  <2>2. ASSUME NEW h, NEW f, IsOpen(h, f) PROVE IsOpen(h, f)'
    BY <2>1, <2>2 DEF IsOpen
  <2>3. ASSUME left'.as = "ioman", ~left'.pc
        PROVE  AreOpen(Table, due.files)' /\ (Busy(1)' => AreOpen(Table, due.old)')
    <3>1. \A fd \in Fds : Table'[fd] >= 0 => Table'[fd] = Table[fd]
      <4>1. CASE Busy(1)
        BY <4>1, <1>4, <1>12 DEF Table
      <4>2. CASE ~Busy(1)
        <5>1. Table' = g_fds' /\ Table = g_fds
          BY <4>2, <1>4 DEF Table
        <5>2. g_fds \in [Fds -> Numbers]
          BY DEF ClientTypes
        <5> QED BY <5>1, <5>2
      <4> QED BY <4>1, <4>2
    <3>2. AreOpen(Table, due.files) /\ (Busy(1)' => AreOpen(Table, due.old))
      BY <2>3, <1>1, <1>4 DEF OpenInv
    <3> QED BY <3>1, <3>2, <2>2 DEF AreOpen
  <2>4. ASSUME left'.as = "fhi", ~left'.pc
        PROVE  AreOpen(fhi, due.files)' /\ \A fd \in Fds : fhi'[fd] >= 0 => due'.files[fd].kind # "dir"
    <3>1. /\ AreOpen(fhi, due.files)
          /\ \A fd \in Fds : fhi[fd] >= 0 => due.files[fd].kind # "dir"
      BY <2>4, <1>1 DEF OpenInv
    <3> QED BY <3>1, <2>2 DEF AreOpen
  <2>5. left'.as = "fhi" => due'.old = due'.files \/ \A u \in Threads : ~Busy(u)'
    BY <1>1, <1>4 DEF OpenInv
  <2>6. read_only' => \A fd \in Fds : "WR" \notin due'.files[fd].can /\ "WR" \notin due'.old[fd].can
    BY <2>1 DEF OpenInv
  <2> QED BY <2>3, <2>4, <2>5, <2>6 DEF OpenInv
<1>16. MatchInv'
  <2> SUFFICES ASSUME left'.as = "ioman" PROVE MatchInv'
    BY DEF MatchInv
  <2>0. UNCHANGED <<at, call>> /\ left.as = "ioman" /\ at[1] = "idle"
    BY <1>1 DEF WaitsFor
  <2>1. ASSUME link' = "up" PROVE Matches(g_fds, due.files)'
    <3>1. Matches(g_fds, due.files)
      BY <2>0, <2>1 DEF MatchInv
    <3>2. ASSUME NEW table, NEW files, Matches(table, files) PROVE Matches(table, files)'
      BY <3>2, <1>1, MatchesStay DEF UnchangedServer
    <3>3. Matches(g_fds', due.files)
      <4>1. g_fds \in [Fds -> Numbers] /\ 1 .. MaxFd = Fds
        BY DEF ClientTypes, Fds
      <4>2. \A fd \in Fds : g_fds'[fd] = g_fds[fd] \/ (g_fds'[fd] = -1 /\ g_fds[fd] < 0)
        BY <4>1, <2>1
      <4>3. \A h \in DOMAIN handles : h >= left.since => \E fd \in Fds : g_fds'[fd] = h
        <5>1. \A h \in DOMAIN handles : h \in Nat
          BY DEF ServerTypes
        <5> QED BY <5>1, <3>1, <4>1, <4>2 DEF Matches
      <4>4. \A fd \in Fds : g_fds'[fd] \in Int
        BY <1>6
      <4> QED BY <3>1, <4>1, <4>2, <4>3, <4>4 DEF Matches
    <3> QED BY <3>2, <3>3
  <2> QED BY <2>0, <2>1, <1>1 DEF MatchInv, Busy
<1> QED BY <1>2, <1>7, <1>8, <1>9, <1>10, <1>13, <1>14, <1>15, <1>16

\* What is cut off at the end of the block device is still a call.
LEMMA ClampedAsked ==
    ASSUME NEW c \in Asked, c.op \in BdCalls, bd \in Sizes, c.sector < bd
    PROVE  Clamped(c) \in Asked /\ Clamped(c).op = c.op
<1> DEFINE n == Smaller(c.count, bd - c.sector)
           d == SubSeq(c.data, 1, SectorUnits * n)
<1>1. /\ c.sector \in Nat /\ c.count \in Nat \ {0} /\ c.data \in Seq(Int)
      /\ Len(c.data) = c.count * SectorUnits /\ c.fd \in Fds
  BY CallFields DEF BdCalls
<1>2. n \in Nat \ {0} /\ n <= c.count
  BY <1>1 DEF Smaller
<1>3. SectorUnits \in Nat \ {0}
  BY FilesAssumption
<1>4. SectorUnits * n \in Nat /\ SectorUnits * n <= c.count * SectorUnits
      /\ SectorUnits * n = n * SectorUnits
  <2>1. c.count \in Nat /\ n \in Nat /\ SectorUnits \in Nat
    BY <1>1, <1>2, <1>3
  <2> HIDE DEF n
  <2> QED BY <2>1, <1>2, SMTT(30)
<1>5. /\ \A i \in 1 .. SectorUnits * n : c.data[i] \in Int
      /\ 1 \in Int /\ SectorUnits * n \in Int
  <2>1. \A i \in 1 .. SectorUnits * n : i \in 1 .. Len(c.data)
    BY <1>1, <1>4
  <2> QED BY <2>1, <1>1, <1>4, ElementOfSeq
<1>6. d \in Seq(Int) /\ Len(d) = n * SectorUnits
  <2> DEFINE m == SectorUnits * n
  <2>1. m \in Nat /\ m = n * SectorUnits /\ \A i \in 1 .. m : c.data[i] \in Int
    BY <1>4, <1>5
  <2> HIDE DEF m
  <2>2. SubSeq(c.data, 1, m) \in Seq(Int)
        /\ Len(SubSeq(c.data, 1, m)) = IF 1 <= m THEN m - 1 + 1 ELSE 0
    BY <2>1, SubSeqProperties
  <2> QED BY <2>1, <2>2 DEF m
<1>7. c \in [op : FhiCalls \union BdCalls, fd : Fds, sector : Nat, count : Nat \ {0}, data : Seq(Int)]
  BY DEF Asked, Calls, BdCalls, FhiCalls, OnNames, Closes
<1>8. Clamped(c) = [c EXCEPT !.count = n, !.data = d]
  BY DEF Clamped
<1> HIDE DEF n, d
<1>9. /\ Clamped(c) \in [op : FhiCalls \union BdCalls, fd : Fds, sector : Nat, count : Nat \ {0}, data : Seq(Int)]
      /\ Clamped(c).op = c.op /\ Clamped(c).count = n /\ Clamped(c).data = d
  BY <1>2, <1>6, <1>7, <1>8
<1>10. WellMade(Clamped(c))
  BY <1>6, <1>9 DEF WellMade, BdCalls
<1> QED BY <1>9, <1>10 DEF Asked, Calls

LEMMA CallFileKeeps ==
    ASSUME IInv, NEW c \in Inputs, CallFile(c)
    PROVE  IInv'
<1>1. c \in Asked
  BY InputsAssumption DEF Asked
<1>2. /\ left.as = "ioman" /\ c.op \in udpfs_device_ops /\ at[1] = "idle" /\ IomanAllows(c) /\ RoomFor(c)
      /\ Spends /\ UnchangedServer /\ UNCHANGED <<link, fhi, bd>>
  BY DEF CallFile, MayCall
<1>3. c.op \in Closes \cup OnFiles => c.fd \in Fds
  BY <1>1, CallFields
<1>4. \A u \in Threads : ~Busy(u)
  BY <1>2 DEF IInv, CallsInv, Busy, Threads
<1>5. CASE c.op \in Closes /\ (g_fds[c.fd] < 0 \/ ~udpfs_core_is_connected)
  <2>1. /\ UNCHANGED <<at, call, done, got, reply, due, g_sema>>
        /\ g_fds' = [g_fds EXCEPT ![c.fd] = -1]
    BY <1>5 DEF CallFile, ReturnsAtOnce
  <2>2. c.fd \in Fds /\ (g_fds[c.fd] < 0 \/ link = "down")
    BY <1>3, <1>5 DEF udpfs_core_is_connected
  <2> QED BY <1>2, <2>1, <2>2, WaitKeeps
<1>6. CASE /\ ~(c.op \in Closes /\ (g_fds[c.fd] < 0 \/ ~udpfs_core_is_connected))
           /\ Refusal(c) < 0 \/ (c.op = "udpfs_read" /\ c.size = 0)
  <2>1. UNCHANGED <<at, call, done, got, reply, due, g_sema, g_fds>>
    BY <1>6 DEF CallFile, ReturnsAtOnce
  <2> QED BY <1>2, <2>1, WaitKeeps
<1>7. CASE /\ ~(c.op \in Closes /\ (g_fds[c.fd] < 0 \/ ~udpfs_core_is_connected))
           /\ ~(Refusal(c) < 0) /\ ~(c.op = "udpfs_read" /\ c.size = 0)
  <2>1. Starts(1, c) /\ UNCHANGED <<ret, g_sema, g_fds>>
    BY <1>7 DEF CallFile
  <2>2. g_fds \in [Fds -> Numbers] /\ g_sema \in {0, 1}
    BY DEF IInv, ClientTypes
  <2>3. c.op \in Opens => FreeFds # {}
    BY <1>7 DEF Refusal, EMFILE
  <2>4. c.op \in OnFiles \cup Closes => g_fds[c.fd] >= 0
    <3>1. CASE c.op \in Closes
      BY <3>1, <1>7, <1>3, <2>2
    <3>2. CASE c.op \in OnFiles
      <4>1. ~(_validate_fd(c) < 0)
        BY <3>2, <1>7 DEF Refusal, OnFiles, Opens
      <4> QED BY <4>1, <3>2, <1>3, <2>2 DEF _validate_fd, EBADF, EIO
    <3> QED BY <3>1, <3>2
  <2>5. Fits(due.files, c)
    BY <1>2, <2>3 DEF Fits, IomanAllows
  <2>6. c.op = "udpfs_read" => c.size > 0
    BY <1>1, <1>7, CallFields
  <2>7. InStage(1, c)
    BY <1>2 DEF InStage
  <2> QED BY <1>1, <1>2, <1>4, <2>1, <2>2, <2>4, <2>5, <2>6, <2>7, StartKeeps DEF Threads
<1> QED BY <1>5, <1>6, <1>7

LEMMA CallBdKeeps ==
    ASSUME IInv, NEW c \in Inputs, CallBd(c)
    PROVE  IInv'
<1>1. c \in Asked
  BY InputsAssumption DEF Asked
<1>2. /\ left.as = "bd" /\ c.op \in BdCalls /\ at[1] = "idle" /\ bd > 0
      /\ Spends /\ UnchangedServer /\ UNCHANGED <<link, g_fds, fhi, bd>>
  BY DEF CallBd, MayCall
<1>3. \A u \in Threads : ~Busy(u)
  BY <1>2 DEF IInv, CallsInv, Busy, Threads
<1>4. CASE ~udpfs_core_is_connected \/ c.sector >= bd
  <2>1. UNCHANGED <<at, call, done, got, reply, due, g_sema>>
    BY <1>4 DEF CallBd, ReturnsAtOnce
  <2> QED BY <1>2, <2>1, WaitKeeps
<1>5. CASE ~(~udpfs_core_is_connected \/ c.sector >= bd)
  <2>1. Starts(1, Clamped(c)) /\ UNCHANGED <<ret, g_sema>>
    BY <1>5 DEF CallBd
  <2>2. bd \in Sizes /\ c.sector \in Nat /\ g_sema \in {0, 1}
    BY <1>1, <1>2, CallFields DEF IInv, ClientTypes
  <2>3. Clamped(c) \in Asked /\ Clamped(c).op \in BdCalls
    BY <1>1, <1>2, <1>5, <2>2, ClampedAsked
  <2> DEFINE k == Clamped(c)
  <2> HIDE DEF k
  <2>4. k \in Asked /\ k.op \in BdCalls /\ Starts(1, k)
    BY <2>1, <2>3 DEF k
  <2>5. /\ k.op \notin Opens \cup Closes \cup OnFiles
        /\ k.op \notin {"udpfs_open", "udpfs_close", "udpfs_dclose", "udpfs_read", "udpfs_write",
                        "udpfs_lseek64", "udpfs_dread"}
    BY <2>4 DEF BdCalls, Opens, Closes, OnFiles
  <2>6. Fits(due.files, k)
    BY <2>5 DEF Fits, RoomFor
  <2>7. InStage(1, k)
    BY <1>2, <2>4 DEF InStage
  <2> QED BY <1>2, <1>3, <2>1, <2>2, <2>4, <2>5, <2>6, <2>7, StartKeeps DEF Threads
<1> QED BY <1>4, <1>5

LEMMA CallFhiKeeps ==
    ASSUME IInv, NEW t \in Threads, NEW c \in Inputs, CallFhi(t, c)
    PROVE  IInv'
<1>1. c \in Asked
  BY InputsAssumption DEF Asked
<1>2. /\ left.as = "fhi" /\ c.op \in FhiCalls /\ at[t] = "idle"
      /\ Spends /\ UnchangedServer /\ UNCHANGED <<link, g_fds, fhi, bd, done, got, reply, due, g_sema>>
  BY DEF CallFhi, MayCall, ReturnsAtOnce
<1>3. UNCHANGED <<at, call>> \/ WaitsFor(t, c)
  <2>1. fhi[c.fd] \in Int
    BY <1>1, <1>2, CallFields DEF IInv, ClientTypes
  <2>2. \/ UNCHANGED <<at, call>>
        \/ ~(fhi[c.fd] < 0) /\ at' = [at EXCEPT ![t] = "lock"] /\ call' = [call EXCEPT ![t] = c]
    BY DEF CallFhi, ReturnsAtOnce
  <2> QED BY <1>2, <2>1, <2>2 DEF WaitsFor
<1> QED BY <1>1, <1>2, <1>3, WaitKeeps

LEMMA FhiLockKeeps ==
    ASSUME IInv, NEW t \in Threads, FhiLock(t)
    PROVE  IInv'
<1>1. /\ at[t] = "lock" /\ g_sema = 1
      /\ UnchangedServer /\ UNCHANGED <<link, g_fds, fhi, bd, left>>
  BY DEF FhiLock
<1>2. left.as = "fhi"
  BY <1>1 DEF IInv, CallsInv, Threads
<1>3. \A u \in Threads : ~Busy(u)
  BY <1>1, <1>2 DEF IInv, CallsInv
<1>4. call[t].op \in FhiCalls /\ fhi[call[t].fd] >= 0
  BY <1>1, <1>2 DEF IInv, CallsInv
<1>5. CASE ~udpfs_core_is_connected
  <2>1. Returns(t, 0)
    BY <1>5 DEF FhiLock
  <2>2. g_fds' \in [Fds -> Numbers] /\ bd' \in Sizes
    BY <1>1 DEF IInv, ClientTypes
  <2> DEFINE zero == 0
  <2>3. zero \in Int /\ zero >= 0 /\ Returns(t, zero)
    BY <2>1
  <2> HIDE DEF zero
  <2> QED BY <1>1, <1>2, <1>3, <2>2, <2>3, ReturnKeeps
<1>6. CASE udpfs_core_is_connected
  <2>1. Starts(t, call[t]) /\ g_sema' = 0
    BY <1>6 DEF FhiLock
  <2> DEFINE k == call[t]
  <2>2. k \in Asked
    <3>1. k \in Asked \union {Idle, BdInit}
      BY DEF IInv, ClientTypes
    <3>2. k # Idle /\ k # BdInit
      BY <1>4 DEF Idle, BdInit, FhiCalls
    <3> QED BY <3>1, <3>2
  <2>3. k.op \in FhiCalls /\ Starts(t, k) /\ fhi[k.fd] >= 0
    BY <1>4, <2>1
  <2> HIDE DEF k
  <2>5. k.op \notin Opens \cup Closes \cup OnFiles
        /\ k.op \notin {"udpfs_open", "udpfs_close", "udpfs_dclose", "udpfs_read", "udpfs_write",
                        "udpfs_lseek64", "udpfs_dread"}
    BY <2>3 DEF FhiCalls, Opens, Closes, OnFiles
  <2>6. Fits(due.files, k)
    BY <2>5 DEF Fits, RoomFor
  <2>7. InStage(t, k)
    BY <1>2, <2>3 DEF InStage
  <2> QED BY <1>1, <1>2, <1>3, <2>1, <2>2, <2>3, <2>5, <2>6, <2>7, StartKeeps
<1> QED BY <1>5, <1>6

LEMMA CallOf ==
    ASSUME IInv, NEW t \in Threads, Busy(t)
    PROVE  /\ at[t] # "idle" /\ \A u \in Threads : u # t => ~Busy(u)
           /\ call[t] \in Asked \union {BdInit}
           /\ left.as = "ioman" => t = 1 /\ call[t] \in Asked /\ call[t].op \in udpfs_device_ops
           /\ left.as = "fhi" => call[t] \in Asked /\ call[t].op \in FhiCalls
           /\ left.as = "bd" => t = 1 /\ call[t].op \in BdCalls \union {"udpfs_bd_init"}
           /\ left.as = "bd" /\ call[t].op \in BdCalls => BlockDevice # 0
           /\ left.as \in {"ioman", "fhi", "bd"}
           /\ call[t].op \in Closes \cup OnFiles \cup FhiCalls \cup BdCalls =>
                call[t] \in Asked /\ call[t].fd \in Fds
           /\ call[t].op \in udpfs_device_ops <=> left.as = "ioman"
           /\ call[t].op \in FhiCalls <=> left.as = "fhi"
<1>1. at[t] # "idle" /\ \A u \in Threads : u # t => ~Busy(u)
  BY DEF IInv, CallsInv, Busy, Threads
<1>2. call[t] \in Asked \union {Idle, BdInit}
  BY DEF IInv, ClientTypes
<1>3. /\ left.as \in {"ioman", "fhi", "bd"}
      /\ left.as = "ioman" => t = 1 /\ call[t].op \in udpfs_device_ops
      /\ left.as = "fhi" => call[t].op \in FhiCalls
      /\ left.as = "bd" => t = 1 /\ call[t].op \in BdCalls \union {"udpfs_bd_init"}
      /\ left.as = "bd" /\ call[t].op \in BdCalls => BlockDevice # 0
  BY <1>1 DEF IInv, CallsInv, Threads, BdOps
<1>4. call[t].op \in udpfs_device_ops \cup FhiCalls \cup BdCalls \cup {"udpfs_bd_init"}
  BY <1>3
<1>5. call[t] # Idle
  BY <1>4 DEF Idle, udpfs_device_ops, Opens, Closes, OnNames, OnFiles, FhiCalls, BdCalls
<1>6. call[t] = BdInit => call[t].op = "udpfs_bd_init"
  BY DEF BdInit
<1>7. call[t].op \in udpfs_device_ops \cup FhiCalls \cup BdCalls => call[t] # BdInit
  BY <1>6 DEF udpfs_device_ops, Opens, Closes, OnNames, OnFiles, FhiCalls, BdCalls
<1>8. call[t] \in Asked => call[t].op \in udpfs_device_ops \cup FhiCalls \cup BdCalls
                          /\ (call[t].op \in Closes \cup OnFiles \cup FhiCalls \cup BdCalls => call[t].fd \in Fds)
  BY CallFields
<1>9. /\ udpfs_device_ops \cap FhiCalls = {} /\ udpfs_device_ops \cap BdCalls = {}
      /\ FhiCalls \cap BdCalls = {} /\ Closes \cup OnFiles \subseteq udpfs_device_ops
      /\ "udpfs_bd_init" \notin udpfs_device_ops \cup FhiCalls
  BY DEF udpfs_device_ops, Opens, Closes, OnNames, OnFiles, FhiCalls, BdCalls
<1> QED BY <1>1, <1>2, <1>3, <1>5, <1>7, <1>8, <1>9

\* A connection that breaks: the slots are those of the files still open.
LEMMA FailKeeps ==
    ASSUME IInv, NEW t \in Threads, Busy(t), Fails(t),
           left' = left \/ left' = [left EXCEPT !.faults = @ - 1]
    PROVE  IInv'
<1>1. /\ at[t] # "idle" /\ \A u \in Threads : u # t => ~Busy(u)
      /\ call[t].op \in Closes => call[t].fd \in Fds
      /\ left.as = "ioman" => t = 1
  BY CallOf
<1>2. g_fds' \in [Fds -> Numbers] /\ bd' \in Sizes /\ link' = "down"
  <2>1. g_fds \in [Fds -> Numbers] /\ bd \in Sizes
    BY DEF IInv, ClientTypes
  <2> QED BY <2>1, <1>1 DEF Fails
<1>3. Failure(t) \in Int
  BY DEF Failure, EIO, IInv, ClientTypes
<1>4. Returns(t, Failure(t)) /\ UnchangedServer /\ fhi' = fhi
  BY DEF Fails
<1>5. ASSUME left.as = "ioman", ~left.pc, NEW fd \in Fds, g_fds'[fd] >= 0
      PROVE  IsOpen(g_fds'[fd], due'.files[fd])
  <2>1. g_fds' = Table
    BY <1>1, <1>5 DEF Table, Fails
  <2>2. due'.files = due.files \/ due'.files = due.old
    <3>1. due \in [res : {due.res}, got : {due.got}, tree : {due.tree}, data : {due.data},
                   files : [Fds -> OpenFiles], old : [Fds -> OpenFiles]]
      BY DEF IInv, ClientTypes
    <3>2. due' = [due EXCEPT !.files = due.old] \/ due' = due
      BY <1>4 DEF Returns
    <3> QED BY <3>1, <3>2
  <2>3. AreOpen(Table, due.files) /\ AreOpen(Table, due.old)
    BY <1>1, <1>5 DEF IInv, OpenInv
  <2> QED BY <2>1, <2>2, <2>3, <1>5 DEF AreOpen
<1> DEFINE r == Failure(t)
<1>6. r \in Int /\ Returns(t, r)
  BY <1>3, <1>4
<1> HIDE DEF r
<1> QED BY <1>1, <1>2, <1>4, <1>5, <1>6, ReturnKeeps

LEMMA NoAnswerKeeps ==
    ASSUME IInv, NEW t \in Threads, NoAnswer(t)
    PROVE  IInv'
<1>1. Busy(t) /\ Fails(t) /\ left' = left
  BY DEF NoAnswer, Busy
<1> QED BY <1>1, FailKeeps

LEMMA LostKeeps ==
    ASSUME IInv, NEW t \in Threads, Lost(t)
    PROVE  IInv'
<1>1. Busy(t) /\ Fails(t) /\ left' = [left EXCEPT !.faults = @ - 1]
  BY DEF Lost, Busy
<1> QED BY <1>1, FailKeeps

LEMMA PcRestartsKeeps ==
    ASSUME IInv, PcRestarts
    PROVE  IInv'
<1> USE DEF IInv
<1>1. /\ left' \in [plan : {left'.plan}, as : {left'.as}, ops : {left'.ops},
                    calls : {left'.calls}, faults : {left'.faults}, since : Nat, pc : BOOLEAN]
      /\ left'.as = left.as /\ left'.since = 1 /\ left'.pc = TRUE
  BY DEF PcRestarts, ClientTypes
<1>2. /\ handles' = BlockDeviceHandle /\ next_handle' = 1 /\ write' = NoWrite
      /\ reply' = NoReply /\ serving' = TRUE /\ UNCHANGED <<tree, data, read_only>>
      /\ link' = IF link = "up" THEN "gap" ELSE link
      /\ UNCHANGED <<g_fds, fhi, bd, g_sema, at, call, done, got, ret, due>>
  BY DEF PcRestarts, ServerRestart
<1>3. /\ DOMAIN handles' = IF BlockDevice = 0 THEN {} ELSE {0}
      /\ BlockDevice # 0 =>
           handles'[0] = [kind |-> "file", ino |-> BlockDevice, pos |-> 0,
                          mode |-> IF read_only THEN "rb" ELSE "r+b", entries |-> <<>>]
  BY <1>2 DEF BlockDeviceHandle, FileHandle
<1>4. ServerTypes'
  <2>1. handles' \in [DOMAIN handles' -> Tables]
    <3>1. BlockDevice # 0 => handles'[0] \in Tables
      <4> DEFINE mode == IF read_only THEN "rb" ELSE "r+b"
      <4>1. mode \in Modes
        BY DEF Modes
      <4>2. BlockDevice # 0 => BlockDevice \in Inodes
        BY FilesAssumption
      <4> HIDE DEF mode
      <4>3. BlockDevice # 0 =>
              [kind |-> "file", ino |-> BlockDevice, pos |-> 0, mode |-> mode, entries |-> <<>>]
                \in [kind : {"file", "alias"}, ino : Inodes, pos : Nat, mode : Modes, entries : {<<>>}]
        BY <4>1, <4>2
      <4> QED BY <4>3, <1>3 DEF Tables, mode
    <3>2. handles' = [h \in DOMAIN handles' |-> handles'[h]]
      BY <1>2 DEF BlockDeviceHandle
    <3> QED BY <3>1, <3>2, <1>3
  <2>2. /\ DOMAIN handles' \subseteq Nat /\ next_handle' \in Nat \ {0}
        /\ tree' \in [Paths -> Entries] /\ data' \in [Inodes -> Seq(Int)]
        /\ serving' \in BOOLEAN /\ read_only' \in BOOLEAN
    BY <1>2, <1>3 DEF ServerTypes
  <2>3. write' \in [handle : Int, is_block : BOOLEAN, sector_nr : Nat, sector_count : Nat,
                    data : Seq(Int), received_chunks : Nat]
    BY <1>2 DEF NoWrite
  <2>4. reply' \in [type : {reply'.type}, result : Int, data : {reply'.data}]
    BY <1>2 DEF NoReply
  <2> QED BY <2>1, <2>2, <2>3, <2>4 DEF ServerTypes
<1>5. ClientTypes'
  BY <1>1, <1>2 DEF ClientTypes
<1>6. TreeInv'
  <2>1. \A p : Kind(p)' = Kind(p)
    BY <1>2 DEF Kind
  <2> QED BY <2>1, <1>2 DEF TreeInv
<1>7. TableInv'
  BY <1>2, <1>3 DEF TableInv
<1>8. NoWriteInv' /\ link' # "up"
  BY <1>1, <1>2, <1>3 DEF NoWriteInv
<1>9. \A t \in Threads : Busy(t)' <=> Busy(t)
  BY <1>2 DEF Busy
<1>10. CallsInv'
  BY <1>1, <1>2, <1>9 DEF CallsInv, Busy, Threads
<1>11. BdReply'
  BY <1>2 DEF BdReply
<1>12. DueInv' /\ WriteInv'
  BY <1>8 DEF DueInv, WriteInv
<1>13. OpenInv'
  BY <1>1, <1>2, <1>9 DEF OpenInv
<1>14. MatchInv'
  <2>1. ASSUME NEW c, Allowed(c) PROVE Allowed(c)'
    <3>1. \A f : Bytes(f)' = Bytes(f)
      BY <1>2 DEF Bytes
    <3> QED BY <2>1, <3>1, <1>2 DEF Allowed, FreeFds
  <2> QED BY <2>1, <1>1, <1>2, <1>8 DEF MatchInv, Busy
<1> QED BY <1>4, <1>5, <1>6, <1>7, <1>8, <1>10, <1>11, <1>12, <1>13, <1>14

\* An IOP is reset: the console starts with no handle but those it is handed.
LEMMA BootKeeps ==
    ASSUME IInv, Boot
    PROVE  IInv'
<1> USE DEF IInv
<1> DEFINE next == Head(left.plan)
           over == HandedOver(next.as)
           c0 == IF next.as = "bd" /\ serving THEN BdInit ELSE Idle
           F == IF over THEN due.files ELSE [fd \in Fds |-> Closed]
           C == [fd \in Fds |-> Closed]
<1>1. /\ left' \in [plan : {left'.plan}, as : {left'.as}, ops : {left'.ops},
                    calls : {left'.calls}, faults : {left'.faults}, since : Nat, pc : BOOLEAN]
      /\ left'.as = next.as /\ left'.since = next_handle /\ left'.pc = (left.pc /\ over)
  <2>1. left' = [plan |-> Tail(left.plan), as |-> next.as, ops |-> next.ops, calls |-> next.calls,
                 faults |-> IF Orderly THEN left.faults ELSE left.faults - 1,
                 since |-> next_handle, pc |-> left.pc /\ over]
    BY DEF Boot
  <2>2. next_handle \in Nat /\ left.pc \in BOOLEAN /\ over \in BOOLEAN
    BY DEF ServerTypes, ClientTypes, HandedOver
  <2> HIDE DEF next, over
  <2> QED BY <2>1, <2>2
<1>2. /\ UnchangedServer /\ reply' = NoReply /\ done' = 0 /\ bd' = 0 /\ g_sema' = 1
      /\ link' = IF serving THEN "up" ELSE "down"
      /\ g_fds' = [fd \in Fds |-> -1]
      /\ fhi' = [fd \in Fds |-> IF over THEN FileId(fd) ELSE -1]
      /\ call' = [t \in Threads |-> IF t = 1 THEN c0 ELSE Idle]
      /\ at' = [t \in Threads |-> IF t = 1 /\ c0 # Idle THEN "send" ELSE "idle"]
  BY DEF Boot, BdInit
<1>3. due.files \in [Fds -> OpenFiles]
  BY DEF ClientTypes
<1>4. Closed \in OpenFiles /\ C \in [Fds -> OpenFiles] /\ F \in [Fds -> OpenFiles]
  <2>1. Closed \in OpenFiles
    BY DEF OpenFiles
  <2>2. C \in [Fds -> OpenFiles]
    BY <2>1
  <2> HIDE DEF C
  <2> QED BY <1>3, <2>1, <2>2 DEF C
<1>5. /\ due' \in [res : {due'.res}, got : {due'.got}, tree : {due'.tree}, data : {due'.data},
                   files : [Fds -> OpenFiles], old : [Fds -> OpenFiles]]
      /\ due'.files = F /\ due'.old = C
  <2>1. due \in [res : {due.res}, got : {due.got}, tree : {due.tree}, data : {due.data},
                 files : [Fds -> OpenFiles], old : [Fds -> OpenFiles]]
    BY DEF ClientTypes
  <2>2. due' = [due EXCEPT !.res = DeviceSectors, !.got = NoBuffer, !.tree = tree, !.data = data,
                           !.files = F, !.old = C]
    BY DEF Boot
  <2> HIDE DEF F, C
  <2>3. due' = [res |-> DeviceSectors, got |-> NoBuffer, tree |-> tree, data |-> data,
                files |-> F, old |-> C]
    BY <2>1, <2>2
  <2> QED BY <2>3, <1>4
<1> HIDE DEF F
<1>6. ServerTypes' /\ TreeInv' /\ TableInv'
  BY <1>2, ServerStays
<1>7. ClientTypes'
  <2>1. \A fd \in Fds : FileId(fd) \in Numbers
    BY DEF FileId, ClientTypes
  <2>2. c0 \in Asked \union {Idle, BdInit}
    OBVIOUS
  <2> HIDE DEF c0, over
  <2>3. /\ g_fds' \in [Fds -> Numbers] /\ fhi' \in [Fds -> Numbers]
        /\ at' \in [Threads -> {"idle", "lock", "send", "wait"}]
        /\ call' \in [Threads -> Asked \union {Idle, BdInit}]
    BY <1>2, <2>1, <2>2
  <2> QED BY <1>1, <1>2, <1>5, <2>3 DEF ClientTypes
<1>8. BdInit # Idle /\ BdInit.op = "udpfs_bd_init"
  BY DEF BdInit, Idle
<1>9. /\ at'[2] = "idle" /\ at'[1] \in {"idle", "send"}
      /\ at'[1] = "send" => left'.as = "bd" /\ call'[1] = BdInit
  BY <1>1, <1>2 DEF Threads
<1>10. over => left'.as = "fhi" /\ left.as = "ioman" /\ \A t \in Threads : at[t] = "idle"
  BY <1>1 DEF HandedOver, Orderly
<1>11. NoWriteInv'
  BY <1>1, <1>2, <1>10 DEF NoWriteInv, UnchangedServer
<1>12. CallsInv'
  <2>1. \A t \in Threads : at'[t] # "idle" =>
          at'[t] = "send" /\ left'.as = "bd" /\ call'[t].op = "udpfs_bd_init" /\ t = 1
    BY <1>8, <1>9 DEF Threads
  <2>2. "udpfs_bd_init" \in BdOps \ Reads
    BY DEF BdOps, BdCalls, Reads
  <2> QED BY <2>1, <2>2 DEF CallsInv, Busy, Threads
<1>13. BdReply'
  BY <1>2 DEF BdReply
<1>14. DueInv' /\ WriteInv'
  <2>1. \A t \in Threads : at'[t] = "send" \/ Sends(t)' => call'[t] = BdInit
    BY <1>9 DEF Threads, Sends
  <2> QED BY <2>1 DEF DueInv, WriteInv
<1>15. OpenInv'
  <2>1. handles' = handles /\ read_only' = read_only
    BY <1>2 DEF UnchangedServer
  <2>2. left'.as \in {"ioman", "fhi"} => \A t \in Threads : ~Busy(t)'
    BY <1>9 DEF Busy, Threads
  <2>3. ASSUME left'.as = "ioman" PROVE AreOpen(Table, due.files)' /\ ~Busy(1)'
    <3>1. Table' = g_fds' /\ ~Busy(1)'
      BY <2>2, <2>3 DEF Table, Threads
    <3> QED BY <3>1, <1>2 DEF AreOpen
  <2>4. ASSUME left'.as = "fhi", ~left'.pc, NEW fd \in Fds, fhi'[fd] >= 0
        PROVE  IsOpen(fhi[fd], due.files[fd])' /\ due'.files[fd].kind # "dir"
    <3>1. over /\ ~left.pc
      BY <1>1, <1>2, <2>4
    <3>2. Table = g_fds /\ AreOpen(Table, due.files)
      BY <3>1, <1>10 DEF OpenInv, Table, Busy, Threads
    <3>3. fhi'[fd] = g_fds[fd] /\ due.files[fd].kind # "dir"
      BY <3>1, <1>2, <2>4 DEF FileId
    <3>4. IsOpen(g_fds[fd], due.files[fd])
      BY <3>2, <3>3, <2>4 DEF AreOpen
    <3>5. due'.files = due.files
      BY <3>1, <1>5 DEF F
    <3>6. ASSUME NEW h, NEW f, IsOpen(h, f) PROVE IsOpen(h, f)'
      BY <3>6, <2>1 DEF IsOpen
    <3> QED BY <3>3, <3>4, <3>5, <3>6
  <2>5. ASSUME read_only' PROVE \A fd \in Fds : "WR" \notin due'.files[fd].can /\ "WR" \notin due'.old[fd].can
    <3>1. \A fd \in Fds : "WR" \notin due.files[fd].can
      BY <2>5, <2>1 DEF OpenInv
    <3>2. "WR" \notin Closed.can
      BY DEF Closed
    <3> QED BY <3>1, <3>2, <1>5 DEF F
  <2> QED BY <2>2, <2>3, <2>4, <2>5 DEF OpenInv, AreOpen
<1>16. MatchInv'
  <2> SUFFICES ASSUME left'.as = "ioman" PROVE Matches(g_fds, due.files)'
    BY <1>2, <1>9 DEF MatchInv, Busy
  <2>1. due'.files = [fd \in Fds |-> Closed]
    BY <1>5, <1>10 DEF F
  <2>2. \A h \in DOMAIN handles : h < next_handle /\ h \in Nat /\ next_handle \in Nat
    BY DEF TableInv, ServerTypes
  <2>3. \A h \in DOMAIN handles : ~(h >= next_handle)
    BY <2>2
  <2>4. \A fd \in Fds : g_fds'[fd] = -1 /\ due'.files[fd] = Closed
    BY <1>2, <2>1
  <2> QED BY <2>3, <2>4, <1>1, <1>2 DEF Matches, UnchangedServer
<1> QED BY <1>6, <1>7, <1>11, <1>12, <1>13, <1>14, <1>15, <1>16

----------------------------------------------------------------------------
(* A reply is taken.                                                       *)

LEMMA TookFacts ==
    ASSUME IInv, NEW t \in Threads, at[t] = "wait", reply # NoReply
    PROVE  /\ Busy(t) /\ at[t] # "idle" /\ \A u \in Threads : u # t => ~Busy(u)
           /\ reply.result \in Int
           /\ left.as = "ioman" => t = 1 /\ link = "up" /\ Allowed(call[1]) /\ Answered(call[1])
           /\ g_fds \in [Fds -> Numbers] /\ bd \in Sizes
<1>1. Busy(t)
  BY DEF Busy
<1>2. /\ at[t] # "idle" /\ \A u \in Threads : u # t => ~Busy(u)
      /\ left.as = "ioman" => t = 1
  BY <1>1, CallOf
<1>3. link \in {"up", "gap", "down"} /\ reply.result \in Int
      /\ g_fds \in [Fds -> Numbers] /\ bd \in Sizes
  BY DEF IInv, ClientTypes, ServerTypes
<1> QED BY <1>1, <1>2, <1>3 DEF IInv, MatchInv, Busy

\* A call on files returns: its slots and files are what the reply left.
LEMMA FileReturnKeeps ==
    ASSUME IInv, NEW t \in Threads, Took(t), left.as = "ioman",
           NEW res \in Int, Returns(t, res),
           g_fds' \in [Fds -> Numbers], g_fds' = AfterTable(call[1]),
           AfterFiles(call[1]) = IF res < 0 THEN due.old ELSE due.files, bd' = bd
    PROVE  IInv'
<1>1. at[t] = "wait" /\ reply # NoReply /\ UnchangedServer /\ UNCHANGED <<link, fhi, left>>
  BY DEF Took
<1>2. /\ Busy(t) /\ at[t] # "idle" /\ \A u \in Threads : u # t => ~Busy(u)
      /\ Answered(call[1]) /\ bd \in Sizes
  BY <1>1, TookFacts
<1>3. due'.files = AfterFiles(call[1])
  <2>1. due \in [res : {due.res}, got : {due.got}, tree : {due.tree}, data : {due.data},
                 files : [Fds -> OpenFiles], old : [Fds -> OpenFiles]]
    BY DEF IInv, ClientTypes
  <2>2. due' = IF res < 0 THEN [due EXCEPT !.files = due.old] ELSE due
    BY DEF Returns
  <2> QED BY <2>1, <2>2
<1>4. Matches(g_fds', due'.files)
  BY <1>2, <1>3 DEF Answered
<1>5. \A fd \in Fds : g_fds'[fd] >= 0 => IsOpen(g_fds'[fd], due'.files[fd])
  BY <1>4 DEF Matches
<1> QED BY <1>1, <1>2, <1>4, <1>5, ReturnKeeps

\* A call on sectors returns.
LEMMA SectorReturnKeeps ==
    ASSUME IInv, NEW t \in Threads, at[t] = "wait", reply # NoReply, UnchangedServer,
           left.as # "ioman", NEW res \in Int, Returns(t, res),
           g_fds' = g_fds, bd' \in Sizes, link' \in {link, "down"}, UNCHANGED <<fhi, left>>
    PROVE  IInv'
BY TookFacts, ReturnKeeps

LEMMA NextKeeps ==
    ASSUME IInv, NEW t \in Threads, Took(t), call[t].op \in Reads \cup {"udpfs_read"},
           NextMessage(t), done' \in Nat, UNCHANGED <<g_fds, bd>>,
           call[t].op \in Reads => done' < call[t].count,
           left.as = "ioman" =>
             /\ done' < call[t].size /\ Matches(g_fds, Moved(call[t].fd, done'))
             /\ due.old[call[t].fd].pos + done' <= Len(Bytes(due.old[call[t].fd]))
    PROVE  IInv'
<1> USE DEF IInv, Threads
<1>1. /\ at[t] = "wait" /\ reply # NoReply /\ UnchangedServer /\ UNCHANGED <<link, fhi, left>>
      /\ at' = [at EXCEPT ![t] = "send"] /\ reply' = NoReply
      /\ UNCHANGED <<call, g_sema, ret, due>>
  BY DEF Took, NextMessage
<1>2. /\ Busy(t) /\ at[t] # "idle" /\ \A u \in Threads : u # t => ~Busy(u)
      /\ left.as = "ioman" => t = 1 /\ link = "up" /\ Allowed(call[1])
  BY <1>1, TookFacts
<1>3. at \in [Threads -> {"idle", "lock", "send", "wait"}]
  BY DEF ClientTypes
<1>4. at'[t] = "send" /\ \A u \in Threads : u # t => at'[u] = at[u]
  BY <1>1, <1>3
<1>5. \A u \in Threads : Busy(u)' <=> Busy(u)
  BY <1>2, <1>4 DEF Busy
<1>6. ServerTypes' /\ TreeInv' /\ TableInv'
  BY <1>1, ServerStays
<1>7. ClientTypes'
  BY <1>1, <1>3 DEF ClientTypes
<1>8. NoWriteInv'
  BY <1>1 DEF NoWriteInv, UnchangedServer
<1>9. CallsInv'
  <2>1. \A u \in Threads : at'[u] = "idle" <=> at[u] = "idle"
    BY <1>2, <1>4
  <2>2. \A u \in Threads : at'[u] = "lock" <=> at[u] = "lock"
    BY <1>1, <1>4
  <2>3. ASSUME NEW u \in Threads, Busy(u)', call'[u].op \in Reads PROVE done' < call'[u].count
    <3>1. u = t
      BY <2>3, <1>2, <1>5
    <3> QED BY <2>3, <3>1, <1>1
  <2> QED BY <2>1, <2>2, <2>3, <1>1, <1>5 DEF CallsInv
<1>10. BdReply'
  BY <1>1 DEF BdReply
<1>11. DueInv'
  <2> SUFFICES ASSUME NEW u \in Threads, Sends(u)', link' = "up", call'[u] # BdInit
               PROVE  due' = Due(due.old, call[u])'
    BY DEF DueInv
  <2>1. Sends(u)
    BY <1>1, <1>4 DEF Sends
  <2>2. SameTrees
    BY <1>1 DEF SameTrees, UnchangedServer
  <2>3. ASSUME NEW f, NEW k PROVE Due(f, k)' = Due(f, k)
    BY <2>2, DueSame
  <2> QED BY <2>1, <2>3, <1>1 DEF DueInv
<1>12. WriteInv'
  <2>1. \A u \in Threads : at'[u] = "send" => u = t
    BY <1>2, <1>4 DEF Busy
  <2>2. call'[t].op \notin Writes
    BY <1>1 DEF Reads, Writes
  <2> QED BY <2>1, <2>2 DEF WriteInv
<1>13. OpenInv'
  <2>1. handles' = handles /\ read_only' = read_only
    BY <1>1 DEF UnchangedServer
  <2>2. ASSUME NEW h, NEW f, IsOpen(h, f) PROVE IsOpen(h, f)'
    BY <2>1, <2>2 DEF IsOpen
  <2>3. ASSUME NEW table, NEW files, AreOpen(table, files) PROVE AreOpen(table, files)'
    BY <2>2, <2>3 DEF AreOpen
  <2>4. Table' = Table
    BY <1>1, <1>5 DEF Table
  <2> QED BY <2>1, <2>3, <2>4, <1>1, <1>5 DEF OpenInv
<1>14. MatchInv'
  <2> SUFFICES ASSUME left.as = "ioman"
               PROVE  Allowed(call[1])' /\ Matches(g_fds, Come(call[1]))'
    BY <1>1, <1>2, <1>4 DEF MatchInv, Busy
  <2>1. call[1].op = "udpfs_read" /\ t = 1
    BY <1>2, CallOf DEF Reads, udpfs_device_ops, Opens, Closes, OnNames, OnFiles
  <2>2. Allowed(call[1])'
    <3>1. Bytes(due.old[call[1].fd])' = Bytes(due.old[call[1].fd])
      BY <1>1 DEF Bytes, UnchangedServer
    <3> QED BY <3>1, <2>1, <1>1, <1>2 DEF Allowed, FreeFds, Opens, OnFiles, Closes
  <2>3. ASSUME NEW table, NEW files, Matches(table, files) PROVE Matches(table, files)'
    BY <2>3, <1>1, MatchesStay DEF UnchangedServer
  <2>4. Come(call[1])' = Moved(call[1].fd, done')
    BY <2>1, <1>1 DEF Come, Moved
  <2> QED BY <2>1, <2>2, <2>3, <2>4
<1> QED BY <1>6, <1>7, <1>8, <1>9, <1>10, <1>11, <1>12, <1>13, <1>14

LEMMA TakeOpenKeeps ==
    ASSUME IInv, NEW t \in Threads, TakeOpen(t)
    PROVE  IInv'
<1> DEFINE r == Smaller(reply.result, 0)
<1>1. Took(t) /\ call[t].op \in Opens /\ Returns(t, r) /\ bd' = bd
  BY DEF TakeOpen
<1>2. /\ at[t] = "wait" /\ reply # NoReply
  BY <1>1 DEF Took
<1>3. /\ Busy(t) /\ reply.result \in Int /\ g_fds \in [Fds -> Numbers]
      /\ left.as = "ioman" => t = 1 /\ Allowed(call[1]) /\ Answered(call[1])
  BY <1>2, TookFacts
<1>4. left.as = "ioman" /\ t = 1
  BY <1>1, <1>3, CallOf DEF udpfs_device_ops
<1>5. _alloc_fd \in Fds
  BY <1>1, <1>3, <1>4, FreeSlot DEF Allowed
<1>6. g_fds' = IF reply.result < 0 THEN g_fds ELSE [g_fds EXCEPT ![_alloc_fd] = reply.result]
  BY DEF TakeOpen
<1>8. g_fds' = AfterTable(call[1])
  BY <1>1, <1>3, <1>4, <1>6 DEF AfterTable, Opens, Closes
<1>7. g_fds' \in [Fds -> Numbers]
  <2>1. g_fds'[_alloc_fd] # 0 \/ g_fds'[_alloc_fd] < 0
    BY <1>3, <1>4, <1>5, <1>8 DEF Answered, Matches
  <2>2. reply.result >= 0 => reply.result # 0
    BY <2>1, <1>3, <1>5, <1>6
  <2> QED BY <2>2, <1>3, <1>5, <1>6
<1>9. AfterFiles(call[1]) = IF reply.result < 0 THEN due.old ELSE due.files
  BY <1>1, <1>4 DEF AfterFiles, Opens
<1>10. r \in Int /\ (r < 0 <=> reply.result < 0)
  BY <1>3 DEF Smaller
<1> HIDE DEF r
<1> QED BY <1>1, <1>4, <1>7, <1>8, <1>9, <1>10, FileReturnKeeps

LEMMA TakeCloseKeeps ==
    ASSUME IInv, NEW t \in Threads, TakeClose(t)
    PROVE  IInv'
<1> DEFINE r == 0
<1>1. Took(t) /\ call[t].op \in Closes /\ Returns(t, r) /\ bd' = bd
      /\ g_fds' = [g_fds EXCEPT ![call[t].fd] = -1]
  BY DEF TakeClose
<1>2. /\ at[t] = "wait" /\ reply # NoReply
  BY <1>1 DEF Took
<1>3. /\ Busy(t) /\ reply.result \in Int /\ g_fds \in [Fds -> Numbers]
      /\ left.as = "ioman" => t = 1 /\ Allowed(call[1]) /\ Answered(call[1])
  BY <1>2, TookFacts
<1>4. left.as = "ioman" /\ t = 1 /\ call[t].fd \in Fds
  BY <1>1, <1>3, CallOf DEF udpfs_device_ops
<1>5. g_fds' \in [Fds -> Numbers]
  BY <1>1, <1>3, <1>4
<1>6. g_fds' = AfterTable(call[1])
  BY <1>1, <1>4 DEF AfterTable, Opens, Closes
<1>7. AfterFiles(call[1]) = due.files
  <2>1. reply.result >= 0
    BY <1>1, <1>3, <1>4 DEF Answered
  <2> QED BY <2>1, <1>1, <1>3, <1>4 DEF AfterFiles, Closes
<1>8. r \in Int /\ ~(r < 0)
  OBVIOUS
<1> HIDE DEF r
<1> QED BY <1>1, <1>4, <1>5, <1>6, <1>7, <1>8, FileReturnKeeps

LEMMA TakeValueKeeps ==
    ASSUME IInv, NEW t \in Threads, TakeValue(t)
    PROVE  IInv'
<1> DEFINE r == reply.result
<1>1. Took(t) /\ call[t].op \in OnNames \union {"udpfs_lseek64", "udpfs_dread"}
      /\ Returns(t, r) /\ UNCHANGED <<g_fds, bd>>
  BY DEF TakeValue
<1>2. /\ at[t] = "wait" /\ reply # NoReply
  BY <1>1 DEF Took
<1>3. Busy(t) /\ reply.result \in Int /\ g_fds \in [Fds -> Numbers]
  BY <1>2, TookFacts
<1>4. left.as = "ioman" /\ t = 1
  BY <1>1, <1>3, CallOf DEF udpfs_device_ops, OnFiles
<1>5. g_fds' = AfterTable(call[1])
  BY <1>1, <1>4 DEF AfterTable, Opens, Closes, OnNames
<1>6. AfterFiles(call[1]) = IF r < 0 THEN due.old ELSE due.files
  BY <1>1, <1>4 DEF AfterFiles, OnNames
<1>7. g_fds' \in [Fds -> Numbers] /\ bd' = bd /\ r \in Int
  BY <1>1, <1>3
<1> HIDE DEF r
<1> QED BY <1>1, <1>4, <1>5, <1>6, <1>7, FileReturnKeeps

LEMMA TakeReadKeeps ==
    ASSUME IInv, NEW t \in Threads, TakeRead(t)
    PROVE  IInv'
<1>1. Took(t) /\ call[t].op = "udpfs_read" /\ UNCHANGED <<g_fds, bd>>
  BY DEF TakeRead
<1>2. /\ at[t] = "wait" /\ reply # NoReply
  BY <1>1 DEF Took
<1>3. /\ Busy(t) /\ g_fds \in [Fds -> Numbers]
      /\ left.as = "ioman" => t = 1 /\ Allowed(call[1]) /\ Answered(call[1])
  BY <1>2, TookFacts
<1>4. left.as = "ioman" /\ t = 1 /\ call[1] \in Asked /\ call[1].size \in Nat
  BY <1>1, <1>3, CallOf, CallFields DEF udpfs_device_ops, OnFiles
<1>5. /\ reply.result \in Nat /\ reply.result <= call[1].size - done
      /\ Matches(AfterTable(call[1]), AfterFiles(call[1]))
      /\ ReadEnds(call[1]) => AfterFiles(call[1]) = due.files
  BY <1>1, <1>3, <1>4 DEF Answered
<1>6. done \in Nat
  BY DEF IInv, ClientTypes
<1>7. AfterTable(call[1]) = g_fds
  BY <1>1, <1>4 DEF AfterTable, Opens, Closes
<1> DEFINE n == done + reply.result
<1>8. n \in Nat /\ ~(n < 0) /\ n \in Int /\ ~(reply.result < 0)
  BY <1>5, <1>6
<1>9. CASE ReadEnds(call[1])
  <2>1. Returns(t, n)
    BY <1>4, <1>8, <1>9 DEF TakeRead
  <2>2. AfterFiles(call[1]) = IF n < 0 THEN due.old ELSE due.files
    BY <1>5, <1>8, <1>9
  <2>3. g_fds' \in [Fds -> Numbers] /\ g_fds' = AfterTable(call[1]) /\ bd' = bd
    BY <1>1, <1>3, <1>7
  <2> HIDE DEF n
  <2> QED BY <1>1, <1>4, <1>8, <2>1, <2>2, <2>3, FileReturnKeeps
<1>10. CASE ~ReadEnds(call[1])
  <2>1. NextMessage(t) /\ done' = n
    BY <1>4, <1>8, <1>10 DEF TakeRead
  <2>2. n < call[1].size
    BY <1>4, <1>5, <1>6, <1>10 DEF ReadEnds
  <2>3. Matches(g_fds, Moved(call[1].fd, n))
    BY <1>1, <1>4, <1>5, <1>7 DEF AfterFiles
  <2>6. due.old[call[1].fd].pos + n <= Len(Bytes(due.old[call[1].fd]))
    <3>1. reply.result > 0
      BY <1>4, <1>5, <1>6, <1>10, InputsAssumption DEF ReadEnds, Smaller, Allowed
    <3>2. due.old[call[1].fd].pos + done + reply.result <= Len(Bytes(due.old[call[1].fd]))
      BY <3>1, <1>1, <1>3, <1>4 DEF Answered
    <3>3. due.old[call[1].fd].pos \in Nat
      <4>1. due.old[call[1].fd] \in OpenFiles /\ "RD" \in due.old[call[1].fd].can
        BY <1>1, <1>3, <1>4, CallFields DEF IInv, ClientTypes, Allowed, OnFiles
      <4> QED BY <4>1, OpenFileParts
    <3> QED BY <3>2, <3>3, <1>5, <1>6
  <2> HIDE DEF n
  <2>4. /\ done' \in Nat /\ UNCHANGED <<g_fds, bd>>
        /\ call[t].op \in Reads \cup {"udpfs_read"} /\ call[t].op \notin Reads
    BY <1>1, <1>8, <2>1 DEF Reads
  <2>5. /\ done' < call[t].size /\ Matches(g_fds, Moved(call[t].fd, done'))
        /\ due.old[call[t].fd].pos + done' <= Len(Bytes(due.old[call[t].fd]))
    BY <1>4, <2>1, <2>2, <2>3, <2>6
  <2> QED BY <1>1, <2>1, <2>4, <2>5, NextKeeps
<1> QED BY <1>9, <1>10

LEMMA TakeSectorsKeeps ==
    ASSUME IInv, NEW t \in Threads, TakeSectors(t)
    PROVE  IInv'
<1> DEFINE n == Smaller(call[t].count - done, MaxSectorRead)
           failed == IF call[t].op = "fhi_read" THEN 0 ELSE EIO
<1>1. Took(t) /\ call[t].op \in Reads /\ g_fds' = g_fds
  BY DEF TakeSectors
<1>2. /\ at[t] = "wait" /\ reply # NoReply /\ UnchangedServer /\ UNCHANGED <<link, fhi, left>>
  BY <1>1 DEF Took
<1>3. Busy(t) /\ bd \in Sizes /\ done \in Nat
  BY <1>2, TookFacts DEF IInv, ClientTypes
<1>4. /\ left.as # "ioman" /\ call[t] \in Asked /\ call[t].count \in Nat \ {0}
  <2>1. call[t].op \in FhiCalls \cup BdCalls
    BY <1>1 DEF Reads, FhiCalls, BdCalls
  <2>2. call[t].op \notin udpfs_device_ops
    BY <1>1 DEF Reads, udpfs_device_ops, Opens, Closes, OnNames, OnFiles
  <2> QED BY <2>1, <2>2, <1>3, CallOf, CallFields
<1>5. n \in Int /\ failed \in Int /\ done + n \in Int
  BY <1>3, <1>4, InputsAssumption DEF Smaller, EIO
<1>6. \/ Returns(t, failed) /\ bd' \in {bd, 0}
      \/ Returns(t, call[t].count) /\ bd' = bd
      \/ NextMessage(t) /\ done' = done + n /\ bd' = bd /\ done + n # call[t].count
  <2> HIDE DEF failed, n
  <2> QED BY DEF TakeSectors, failed, n
<1>7. CASE Returns(t, failed) /\ bd' \in {bd, 0}
  <2>1. bd' \in Sizes /\ link' \in {link, "down"}
    BY <1>2, <1>3, <1>7
  <2> HIDE DEF failed
  <2> QED BY <1>1, <1>2, <1>4, <1>5, <1>7, <2>1, SectorReturnKeeps
<1>8. CASE Returns(t, call[t].count) /\ bd' = bd
  <2> DEFINE r == call[t].count
  <2>1. bd' \in Sizes /\ link' \in {link, "down"} /\ r \in Int /\ Returns(t, r)
    BY <1>2, <1>3, <1>4, <1>8
  <2> HIDE DEF r
  <2> QED BY <1>1, <1>2, <1>4, <2>1, SectorReturnKeeps
<1>9. CASE NextMessage(t) /\ done' = done + n /\ bd' = bd /\ done + n # call[t].count
  <2>1. done' \in Nat /\ done' < call[t].count
    <3>1. done < call[t].count
      BY <1>1, <1>3 DEF IInv, CallsInv
    <3>2. MaxSectorRead \in Nat \ {0}
      BY InputsAssumption
    <3> QED BY <3>1, <3>2, <1>3, <1>4, <1>9 DEF Smaller
  <2> QED BY <1>1, <1>4, <1>9, <2>1, NextKeeps
<1> QED BY <1>6, <1>7, <1>8, <1>9

LEMMA TakeWrittenKeeps ==
    ASSUME IInv, NEW t \in Threads, TakeWritten(t)
    PROVE  IInv'
<1>1. Took(t) /\ call[t].op \in Writes /\ UNCHANGED <<g_fds, bd>>
  BY DEF TakeWritten
<1>2. /\ at[t] = "wait" /\ reply # NoReply /\ UnchangedServer /\ UNCHANGED <<link, fhi, left>>
  BY <1>1 DEF Took
<1>3. Busy(t) /\ reply.result \in Int /\ g_fds \in [Fds -> Numbers] /\ bd \in Sizes
  BY <1>2, TookFacts
<1>4. CASE call[t].op = "udpfs_write"
  <2> DEFINE r == reply.result
  <2>1. Returns(t, r)
    BY <1>4 DEF TakeWritten
  <2>2. left.as = "ioman" /\ t = 1
    BY <1>3, <1>4, CallOf DEF udpfs_device_ops, OnFiles
  <2>3. g_fds' = AfterTable(call[1])
    BY <1>1, <1>4, <2>2 DEF AfterTable, Opens, Closes
  <2>4. AfterFiles(call[1]) = IF r < 0 THEN due.old ELSE due.files
    BY <1>4, <2>2 DEF AfterFiles
  <2>5. g_fds' \in [Fds -> Numbers] /\ bd' = bd /\ r \in Int
    BY <1>1, <1>3
  <2> HIDE DEF r
  <2> QED BY <1>1, <2>1, <2>2, <2>3, <2>4, <2>5, FileReturnKeeps
<1>5. CASE call[t].op # "udpfs_write"
  <2>1. call[t].op \in FhiCalls \cup BdCalls /\ call[t].op \notin udpfs_device_ops
    BY <1>1, <1>5 DEF Writes, FhiCalls, BdCalls, udpfs_device_ops, Opens, Closes, OnNames, OnFiles
  <2>2. left.as # "ioman" /\ call[t].count \in Int
    BY <2>1, <1>3, CallOf, CallFields
  <2> DEFINE r == CASE call[t].op = "udpfs_write" -> reply.result
                    [] call[t].op = "fhi_write" -> IF reply.result < 0 THEN 0 ELSE call[t].count
                    [] call[t].op = "udpfs_bd_write" ->
                         IF reply.result < 0 THEN EIO ELSE call[t].count
  <2>3. r \in Int
    BY <1>1, <1>3, <2>2 DEF Writes, EIO
  <2>4. Returns(t, r)
    BY DEF TakeWritten
  <2> HIDE DEF r
  <2>5. bd' \in Sizes /\ link' \in {link, "down"} /\ g_fds' = g_fds
    BY <1>1, <1>2, <1>3
  <2> QED BY <1>2, <2>2, <2>3, <2>4, <2>5, SectorReturnKeeps
<1> QED BY <1>4, <1>5

LEMMA TakeCapacityKeeps ==
    ASSUME IInv, NEW t \in Threads, TakeCapacity(t)
    PROVE  IInv'
<1>1. /\ at[t] = "wait" /\ reply # NoReply /\ call[t].op = "udpfs_bd_init"
      /\ UnchangedServer /\ UNCHANGED <<g_fds, fhi, left>>
  BY DEF TakeCapacity
<1>2. Busy(t) /\ reply.result \in Int /\ at[t] # "idle"
  BY <1>1, TookFacts
<1>3. left.as # "ioman" /\ call[t] = BdInit
  <2>1. call[t].op \notin udpfs_device_ops \cup FhiCalls \cup BdCalls
    BY <1>1 DEF udpfs_device_ops, Opens, Closes, OnNames, OnFiles, FhiCalls, BdCalls
  <2> QED BY <2>1, <1>2, CallOf, CallFields
<1>4. CASE reply.result < 0
  <2> DEFINE r == -1
  <2>1. Returns(t, r) /\ bd' \in Sizes /\ link' \in {link, "down"} /\ r \in Int
    BY <1>4 DEF TakeCapacity
  <2> HIDE DEF r
  <2> QED BY <1>1, <1>3, <2>1, SectorReturnKeeps
<1>5. CASE ~(reply.result < 0)
  <2> DEFINE r == reply.data[2] \div SectorUnits
  <2>1. Returns(t, r) /\ bd' = r /\ link' = link
    BY <1>5 DEF TakeCapacity
  <2>2. reply.data[2] \in Nat /\ (BlockDevice = 0 => reply.data[2] = 0)
    BY <1>1, <1>2, <1>3, <1>5 DEF IInv, BdReply
  <2>3. r \in Sizes
    <3>1. SectorUnits \in Nat \ {0}
      BY FilesAssumption
    <3>2. ASSUME NEW a \in Nat, NEW k \in Nat \ {0} PROVE a \div k \in Int /\ (a = 0 => a \div k = 0)
      BY SMTT(30)
    <3> QED BY <2>2, <3>1, <3>2
  <2> HIDE DEF r
  <2>4. bd' \in Sizes /\ link' \in {link, "down"} /\ r \in Int
    BY <2>1, <2>3
  <2> QED BY <1>1, <1>3, <2>1, <2>4, SectorReturnKeeps
<1> QED BY <1>4, <1>5

LEMMA DroppedKeeps ==
    ASSUME IInv, NEW t \in Threads, Dropped(t)
    PROVE  IInv'
<1> USE DEF IInv, Threads
<1>1. /\ at[t] = "send" /\ link = "up" /\ reply # NoReply /\ link' = "gap"
      /\ UNCHANGED serverVars /\ UNCHANGED <<g_fds, fhi, bd, g_sema, call, got, ret, left, due>>
      /\ at' = [at EXCEPT ![t] = IF MoreChunks(call[t]) THEN "send" ELSE "wait"]
      /\ done' = IF call[t].op \in Writes THEN done + 1 ELSE done
  BY DEF Dropped, Sent
<1>2. Busy(t) /\ UnchangedServer /\ reply' = reply
  BY <1>1 DEF Busy, UnchangedServer, serverVars
<1>3. left.as # "ioman"
  BY <1>1, <1>2, CallOf DEF MatchInv
<1>4. at \in [Threads -> {"idle", "lock", "send", "wait"}]
  BY DEF ClientTypes
<1>5. at'[t] \in {"send", "wait"} /\ \A u \in Threads : u # t => at'[u] = at[u]
  BY <1>1, <1>4
<1>6. \A u \in Threads : (Busy(u)' <=> Busy(u)) /\ (at'[u] = "idle" <=> at[u] = "idle")
                         /\ (at'[u] = "lock" <=> at[u] = "lock")
  BY <1>1, <1>5 DEF Busy
<1>7. ServerTypes' /\ TreeInv' /\ TableInv'
  BY <1>2, ServerStays
<1>8. ClientTypes'
  <2>1. at' \in [Threads -> {"idle", "lock", "send", "wait"}]
    BY <1>1, <1>4
  <2>2. done' \in Nat
    BY <1>1 DEF ClientTypes
  <2> QED BY <2>1, <2>2, <1>1 DEF ClientTypes
<1>9. NoWriteInv'
  BY <1>1, <1>2 DEF NoWriteInv, UnchangedServer
<1>10. CallsInv'
  <2>1. \A u \in Threads : call[u].op \in Reads /\ Busy(u) => u = t /\ done' = done
    BY <1>1, <1>2 DEF CallsInv, Reads, Writes
  <2> QED BY <2>1, <1>1, <1>6 DEF CallsInv
<1>11. BdReply'
  BY <1>1, <1>2, <1>6 DEF BdReply
<1>12. DueInv' /\ WriteInv'
  BY <1>1 DEF DueInv, WriteInv
<1>13. OpenInv'
  <2>1. handles' = handles /\ read_only' = read_only
    BY <1>2 DEF UnchangedServer
  <2>2. ASSUME NEW h, NEW f, IsOpen(h, f) PROVE IsOpen(h, f)'
    BY <2>1, <2>2 DEF IsOpen
  <2>3. ASSUME NEW table, NEW files, AreOpen(table, files) PROVE AreOpen(table, files)'
    BY <2>2, <2>3 DEF AreOpen
  <2> QED BY <2>1, <2>3, <1>1, <1>3, <1>6 DEF OpenInv
<1>14. MatchInv'
  BY <1>1, <1>3 DEF MatchInv
<1> QED BY <1>7, <1>8, <1>9, <1>10, <1>11, <1>12, <1>13, <1>14

----------------------------------------------------------------------------
(* A message and what the server makes of it.                              *)

\* A message goes to the handler of its type.
LEMMA Dispatch ==
    ASSUME NEW m, Serve(m)
    PROVE  /\ read_only' = read_only
           /\ m.op = "open" => _handle_open(m)
           /\ m.op = "close" => _handle_close(m)
           /\ m.op = "read" => _handle_read(m)
           /\ m.op = "write" => _handle_write_req(m)
           /\ m.op = "write_data" => _handle_write_data(m)
           /\ m.op = "lseek" => _handle_lseek(m)
           /\ m.op = "dread" => _handle_dread(m)
           /\ m.op = "getstat" => _handle_getstat(m)
           /\ m.op = "mkdir" => _handle_mkdir(m)
           /\ m.op = "remove" => _handle_remove(m)
           /\ m.op = "rmdir" => _handle_rmdir(m)
           /\ m.op = "bread" => _handle_bread(m)
           /\ m.op = "bwrite" => _handle_bwrite_req(m)
<1>1. /\ _handle_open(m) => m.op = "open"
      /\ _handle_close(m) => m.op = "close"
  BY DEF _handle_open, _handle_close
<1>2. /\ _handle_read(m) => m.op = "read"
      /\ _handle_lseek(m) => m.op = "lseek"
  BY DEF _handle_read, _handle_lseek
<1>3. /\ _handle_write_req(m) => m.op = "write"
      /\ _handle_bwrite_req(m) => m.op = "bwrite"
      /\ _handle_write_data(m) => m.op = "write_data"
  BY DEF _handle_write_req, _handle_bwrite_req, _handle_write_data
<1>4. /\ _handle_dread(m) => m.op = "dread"
      /\ _handle_bread(m) => m.op = "bread"
  BY DEF _handle_dread, _handle_bread
<1>5. /\ _handle_getstat(m) => m.op = "getstat"
      /\ _handle_mkdir(m) => m.op = "mkdir"
      /\ _handle_remove(m) => m.op = "remove"
      /\ _handle_rmdir(m) => m.op = "rmdir"
  BY DEF _handle_getstat, _handle_mkdir, _handle_remove, _handle_rmdir
<1> QED BY <1>1, <1>2, <1>3, <1>4, <1>5 DEF Serve

\* A call sends a message of its own.
LEMMA MessageOf ==
    ASSUME NEW c, c.op \in udpfs_device_ops \cup FhiCalls \cup BdCalls \cup {"udpfs_bd_init"}
    PROVE  /\ c.op \in Opens => Message(c) = udpfs_core_open(c)
           /\ c.op \in Closes => Message(c) = udpfs_core_close(c)
           /\ c.op = "udpfs_read" => Message(c) = udpfs_core_read(c)
           /\ c.op \in Writes => Message(c) = WriteMessage(c)
           /\ c.op = "udpfs_lseek64" => Message(c) = udpfs_core_lseek(c)
           /\ c.op = "udpfs_dread" => Message(c) = udpfs_core_dread(c)
           /\ c.op = "udpfs_getstat" => Message(c) = udpfs_core_getstat(c)
           /\ c.op = "udpfs_mkdir" => Message(c) = udpfs_core_mkdir(c)
           /\ c.op = "udpfs_remove" => Message(c) = udpfs_core_remove(c)
           /\ c.op = "udpfs_rmdir" => Message(c) = udpfs_core_rmdir(c)
           /\ c.op \in Reads => Message(c) = udpfs_core_bread(c)
           /\ c.op = "udpfs_bd_init" => Message(c) = udpfs_core_get_sector_count
BY DEF Message, Opens, Closes, Writes, Reads

\* What an exchange does to the console.
LEMMA ExchangeFacts ==
    ASSUME IInv, NEW t \in Threads, Exchange(t)
    PROVE  /\ at[t] = "send" /\ link = "up" /\ serving /\ Busy(t) /\ Serve(Message(call[t]))
           /\ UNCHANGED <<link, g_fds, fhi, bd, g_sema, call, got, ret, left, due, read_only>>
           /\ at' = [at EXCEPT ![t] = IF MoreChunks(call[t]) THEN "send" ELSE "wait"]
           /\ done' = IF call[t].op \in Writes THEN done + 1 ELSE done
           /\ call[t].op \in udpfs_device_ops \cup FhiCalls \cup BdCalls \cup {"udpfs_bd_init"}
           /\ call[t].op # "udpfs_bd_init" => call[t] \in Asked /\ call[t] # BdInit
           /\ call[t].op = "udpfs_bd_init" => call[t] = BdInit
           /\ call[t] # BdInit /\ Sends(t) => due = Due(due.old, call[t])
           /\ done \in Nat
           /\ left.as = "ioman" => Allowed(call[1]) /\ reply = NoReply
                                   /\ Matches(g_fds, Come(call[1]))
           /\ left.pc => left.as = "fhi" /\ DOMAIN handles \subseteq {0} /\ write = NoWrite
           /\ due.files \in [Fds -> OpenFiles] /\ due.old \in [Fds -> OpenFiles]
<1>1. /\ at[t] = "send" /\ link = "up" /\ serving /\ Serve(Message(call[t]))
      /\ UNCHANGED <<link, g_fds, fhi, bd, g_sema, call, got, ret, left, due>>
      /\ at' = [at EXCEPT ![t] = IF MoreChunks(call[t]) THEN "send" ELSE "wait"]
      /\ done' = IF call[t].op \in Writes THEN done + 1 ELSE done
  BY DEF Exchange, Sent
<1>2. Busy(t)
  BY <1>1 DEF Busy
<1>3. read_only' = read_only
  BY <1>1, Dispatch
<1>4. /\ call[t] \in Asked \union {BdInit} /\ left.as \in {"ioman", "fhi", "bd"}
      /\ left.as = "ioman" => t = 1
      /\ call[t].op \in udpfs_device_ops \cup FhiCalls \cup BdCalls \cup {"udpfs_bd_init"}
  BY <1>2, CallOf
<1>5. /\ call[t] \in Asked => call[t].op # "udpfs_bd_init" /\ call[t] # BdInit
      /\ BdInit.op = "udpfs_bd_init"
  BY CallFields DEF BdInit, udpfs_device_ops, Opens, Closes, OnNames, OnFiles, FhiCalls, BdCalls
<1>6. /\ done \in Nat /\ due.files \in [Fds -> OpenFiles] /\ due.old \in [Fds -> OpenFiles]
  BY DEF IInv, ClientTypes
<1>7. call[t] # BdInit /\ Sends(t) => due = Due(due.old, call[t])
  BY <1>1 DEF IInv, DueInv
<1>8. left.as = "ioman" => Allowed(call[1]) /\ reply = NoReply /\ Matches(g_fds, Come(call[1]))
  BY <1>1, <1>2, <1>4 DEF IInv, MatchInv
<1>9. left.pc => left.as = "fhi" /\ DOMAIN handles \subseteq {0} /\ write = NoWrite
  BY <1>1 DEF IInv, NoWriteInv
<1> QED BY <1>1, <1>2, <1>3, <1>4, <1>5, <1>6, <1>7, <1>8, <1>9

\* The handles are open for the same files.
HandlesKept ==
    /\ DOMAIN handles' = DOMAIN handles
    /\ \A h \in DOMAIN handles :
         /\ handles'[h].kind = handles[h].kind /\ handles'[h].ino = handles[h].ino
         /\ handles'[h].mode = handles[h].mode

LEMMA TableKept ==
    ASSUME TableInv, HandlesKept, next_handle' = next_handle
    PROVE  TableInv'
BY DEF TableInv, HandlesKept

\* Files that stay open, and are of the slots they were of.
StillOpen == \A h, f : IsOpen(h, f) => IsOpen(h, f)'

LEMMA KeptIsOpen ==
    ASSUME HandlesKept
    PROVE  StillOpen
BY DEF StillOpen, IsOpen, HandlesKept

LEMMA OpenStays ==
    ASSUME IInv, NEW t \in Threads, Exchange(t), StillOpen
    PROVE  OpenInv'
<1> USE DEF IInv
<1>1. /\ UNCHANGED <<g_fds, fhi, call, left, due, read_only>> /\ Busy(t)
      /\ at' = [at EXCEPT ![t] = IF MoreChunks(call[t]) THEN "send" ELSE "wait"]
  BY ExchangeFacts
<1>2. \A u \in Threads : Busy(u)' <=> Busy(u)
  BY <1>1 DEF Busy, ClientTypes
<1>3. Table' = Table
  BY <1>1, <1>2 DEF Table, Threads
<1>4. ASSUME NEW table, NEW files, AreOpen(table, files) PROVE AreOpen(table, files)'
  BY <1>4 DEF AreOpen, StillOpen
<1> QED BY <1>1, <1>2, <1>3, <1>4 DEF OpenInv, Threads

\* What is left to show of an exchange.
LEMMA ExchangeKeeps ==
    ASSUME IInv, NEW t \in Threads, Exchange(t),
           ServerTypes', TreeInv', TableInv', NoWriteInv', WriteInv', OpenInv',
           call[t] = BdInit /\ reply'.result >= 0 =>
               reply'.data[2] \in Nat /\ (BlockDevice = 0 => reply'.data[2] = 0),
           Sends(t)' /\ call[t] # BdInit => due = Due(due.old, call[t])',
           left.as = "ioman" =>
             /\ call[1].op = "udpfs_read" => data' = data
             /\ IF MoreChunks(call[1]) THEN reply' = NoReply /\ Matches(g_fds, Come(call[1]))'
                ELSE reply' # NoReply => Answered(call[1])'
    PROVE  IInv'
<1> USE DEF IInv
<1>1. /\ at[t] = "send" /\ link = "up" /\ Busy(t)
      /\ UNCHANGED <<link, g_fds, fhi, bd, g_sema, call, got, ret, left, due, read_only>>
      /\ at' = [at EXCEPT ![t] = IF MoreChunks(call[t]) THEN "send" ELSE "wait"]
      /\ done' = IF call[t].op \in Writes THEN done + 1 ELSE done
      /\ done \in Nat
      /\ left.as = "ioman" => Allowed(call[1])
  BY ExchangeFacts
<1>2. at \in [Threads -> {"idle", "lock", "send", "wait"}]
  BY DEF ClientTypes
<1>3. /\ at'[t] = IF MoreChunks(call[t]) THEN "send" ELSE "wait"
      /\ \A u \in Threads : u # t => at'[u] = at[u]
  BY <1>1, <1>2
<1>4. \A u \in Threads : u # t => ~Busy(u)
  BY <1>1, CallOf
<1>5. \A u \in Threads : /\ Busy(u)' <=> Busy(u)
                         /\ at'[u] = "idle" <=> at[u] = "idle"
                         /\ at'[u] = "lock" <=> at[u] = "lock"
  BY <1>1, <1>3 DEF Busy
<1>6. ClientTypes'
  <2>1. at' \in [Threads -> {"idle", "lock", "send", "wait"}] /\ done' \in Nat
    BY <1>1, <1>2
  <2> QED BY <2>1, <1>1 DEF ClientTypes
<1>7. CallsInv'
  <2>1. \A u \in Threads : Busy(u) /\ call[u].op \in Reads => u = t /\ done' = done
    BY <1>1, <1>4 DEF Reads, Writes
  <2>2. ASSUME NEW u \in Threads, Busy(u)', call'[u].op \in Reads PROVE done' < call'[u].count
    <3>1. Busy(u) /\ call'[u] = call[u]
      BY <2>2, <1>1, <1>5
    <3> QED BY <3>1, <2>1, <2>2 DEF CallsInv
  <2>3. ASSUME NEW u \in Threads, at'[u] # "idle"
        PROVE CASE left'.as = "ioman" -> call'[u].op \in udpfs_device_ops /\ call'[u] # Idle
                [] left'.as = "fhi" -> call'[u].op \in FhiCalls /\ fhi'[call'[u].fd] >= 0
                [] left'.as = "bd" -> call'[u].op \in BdOps
                [] OTHER -> FALSE
    <3>1. at[u] # "idle"
      BY <2>3, <1>5
    <3> QED BY <3>1, <1>1 DEF CallsInv
  <2>4. /\ left'.as \notin {"ioman", "bd", "fhi"} => \A u \in Threads : at'[u] = "idle"
        /\ left'.as # "fhi" => at'[2] = "idle" /\ at'[1] # "lock"
    BY <1>1, <1>5 DEF CallsInv, Threads
  <2>5. /\ ~(Busy(1)' /\ Busy(2)')
        /\ left'.as = "fhi" /\ g_sema' = 1 => \A u \in Threads : ~Busy(u)'
    BY <1>1, <1>5 DEF CallsInv, Threads
  <2> QED BY <2>2, <2>3, <2>4, <2>5 DEF CallsInv
<1>8. BdReply'
  <2> SUFFICES ASSUME NEW u \in Threads, at[u] # "idle", call[u] = BdInit, u # t
               PROVE  FALSE
    BY <1>1, <1>5 DEF BdReply
  <2>1. left.as = "bd"
    BY DEF CallsInv, BdInit, udpfs_device_ops, Opens, Closes, OnNames, OnFiles, FhiCalls
  <2>2. at[2] = "idle" /\ at[t] # "idle"
    BY <2>1, <1>1 DEF CallsInv
  <2> QED BY <2>2 DEF Threads
<1>9. DueInv'
  <2> SUFFICES ASSUME NEW u \in Threads, Sends(u)', call[u] # BdInit
               PROVE  due' = Due(due.old, call[u])'
    BY <1>1 DEF DueInv
  <2>1. u = t
    BY <1>4, <1>5 DEF Sends, Busy
  <2> QED BY <2>1, <1>1
<1>10. MatchInv'
  <2> SUFFICES ASSUME left.as = "ioman"
               PROVE  /\ Allowed(call[1])' /\ t = 1
                      /\ at'[1] = "send" => reply' = NoReply /\ Matches(g_fds, Come(call[1]))'
                      /\ at'[1] = "wait" => (reply' # NoReply => Answered(call[1])')
    BY <1>1, <1>3 DEF MatchInv, Busy
  <2>1. t = 1
    BY <1>1, CallOf
  <2>2. Allowed(call[1])'
    <3>1. call[1].op = "udpfs_read" =>
            Bytes(due.old[call[1].fd])' = Bytes(due.old[call[1].fd]) /\ done' = done
      BY <2>1, <1>1 DEF Bytes, Writes
    <3>2. FreeFds' = FreeFds
      BY <1>1 DEF FreeFds
    <3> QED BY <3>1, <3>2, <1>1 DEF Allowed
  <2> QED BY <2>1, <2>2, <1>3
<1> QED BY <1>6, <1>7, <1>8, <1>9, <1>10


LEMMA NameServed ==
    ASSUME IInv, NEW t \in Threads, Exchange(t), call[t].op \in OnNames \cup {"udpfs_bd_init"}
    PROVE  /\ UNCHANGED <<data, write, handles, next_handle>> /\ serving' = TRUE
           /\ reply' \in [type : {reply'.type}, result : Int, data : {reply'.data}]
           /\ call[t] = BdInit /\ reply'.result >= 0 =>
               reply'.data[2] \in Nat /\ (BlockDevice = 0 => reply'.data[2] = 0)
           /\ \/ tree' = tree
              \/ /\ call[t].op = "udpfs_mkdir" /\ MayChange /\ ~Exists(call[t].path)
                 /\ Kind(Parent[call[t].path]) = "dir"
                 /\ tree' = [tree EXCEPT ![call[t].path] = [kind |-> "dir", ino |-> 0]]
              \/ /\ call[t].op = "udpfs_remove" /\ MayChange /\ Kind(call[t].path) = "file"
                 /\ tree' = [tree EXCEPT ![call[t].path] = Nothing]
              \/ /\ call[t].op = "udpfs_rmdir" /\ MayChange /\ Kind(call[t].path) = "dir"
                 /\ Children(call[t].path) = {}
                 /\ tree' = [tree EXCEPT ![call[t].path] = Nothing]
<1> DEFINE c == call[t]
           m == Message(c)
<1>1. Serve(m) /\ c.op \in udpfs_device_ops \cup FhiCalls \cup BdCalls \cup {"udpfs_bd_init"}
      /\ (c.op = "udpfs_bd_init" => c = BdInit) /\ (c.op # "udpfs_bd_init" => c \in Asked)
  BY ExchangeFacts
<1>2. c.op \in OnNames => c.path \in Names /\ c # BdInit
  BY <1>1, CallFields DEF OnNames
<1>3. CASE c.op = "udpfs_getstat" \/ c.op = "udpfs_bd_init"
  <2>1. m.op = "getstat" /\ (c.op = "udpfs_bd_init" => m.path = "")
    <3>1. CASE c.op = "udpfs_getstat"
      <4>1. m = udpfs_core_getstat(c)
        BY <1>1, <3>1, MessageOf
      <4> HIDE DEF m
      <4> QED BY <3>1, <4>1 DEF udpfs_core_getstat
    <3>2. CASE c.op = "udpfs_bd_init"
      <4>1. m = udpfs_core_get_sector_count
        BY <1>1, <3>2, MessageOf
      <4> HIDE DEF m
      <4> QED BY <4>1 DEF udpfs_core_get_sector_count
    <3> QED BY <1>3, <3>1, <3>2
  <2>2. _handle_getstat(m)
    BY <1>1, <2>1, Dispatch
  <2> HIDE DEF m
  <2>3. UNCHANGED <<tree, data, write, handles, next_handle>> /\ serving' = TRUE
    BY <2>2 DEF _handle_getstat, ServesOn, UnchangedFiles, UnchangedHandles
  <2> DEFINE r == IF m.path = "" /\ 0 \in DOMAIN handles THEN 0
                  ELSE IF ~RootDir THEN EACCES
                  ELSE IF ~Exists(Actual(m.path)) THEN ENOENT
                  ELSE IF Actual(m.path) = m.path THEN 0
                  ELSE IF ~Unpacks(Actual(m.path)) THEN EIO ELSE 0
             d == IF m.path = "" /\ 0 \in DOMAIN handles THEN <<"none", SectorUnits * DeviceSectors>>
                  ELSE IF ~RootDir THEN <<>>
                  ELSE IF ~Exists(Actual(m.path)) THEN <<>>
                  ELSE IF Actual(m.path) = m.path THEN _stat_to_bytes(m.path)
                  ELSE IF ~Unpacks(Actual(m.path)) THEN <<>>
                  ELSE _get_compressed_stat(Actual(m.path))
  <2>4. reply' = [type |-> "GETSTAT_REPLY", result |-> r, data |-> d]
    BY <2>2 DEF _handle_getstat, _send_getstat_reply, Reply
  <2>5. r \in Int
    BY DEF EACCES, ENOENT, EIO
  <2>7. r >= 0 =>
          \/ 0 \in DOMAIN handles /\ d = <<"none", SectorUnits * DeviceSectors>>
          \/ d = _stat_to_bytes(m.path)
          \/ Actual(m.path) # m.path
    <3>1. r >= 0 => \/ m.path = "" /\ 0 \in DOMAIN handles
                    \/ RootDir /\ Exists(Actual(m.path))
      <4>1. /\ ~(m.path = "" /\ 0 \in DOMAIN handles) /\ ~RootDir => r = EACCES
            /\ ~(m.path = "" /\ 0 \in DOMAIN handles) /\ RootDir /\ ~Exists(Actual(m.path)) =>
                 r = ENOENT
        BY Zenon
      <4> HIDE DEF r
      <4>2. r >= 0 => r # EACCES /\ r # ENOENT
        BY <2>5 DEF EACCES, ENOENT
      <4> QED BY <4>1, <4>2, Zenon
    <3> HIDE DEF r
    <3> QED BY <3>1, Zenon
  <2> HIDE DEF r, d
  <2>8. reply' \in [type : {reply'.type}, result : Int, data : {reply'.data}]
        /\ reply'.result = r /\ reply'.data = d
    BY <2>4, <2>5
  <2>6. ASSUME c = BdInit, reply'.result >= 0
        PROVE  reply'.data[2] \in Nat /\ (BlockDevice = 0 => reply'.data[2] = 0)
    <3>1. m.path = "" /\ Kind("") = "dir" /\ Actual("") = ""
      <4>1. m.path = ""
        <5>1. BdInit.op = "udpfs_bd_init"
          BY DEF BdInit
        <5> QED BY <5>1, <2>1, <2>6
      <4>2. Kind("") = "dir"
        BY DEF Kind
      <4>3. _find_compressed_version("") = ""
        BY <4>2 DEF _find_compressed_version, Exists
      <4> QED BY <4>1, <4>2, <4>3 DEF Actual
    <3>2. CASE 0 \in DOMAIN handles /\ reply'.data = <<"none", SectorUnits * DeviceSectors>>
      <4>1. BlockDevice # 0
        BY <3>2 DEF IInv, TableInv
      <4>2. Len(Data0[BlockDevice]) \in Nat
        BY <4>1, FilesAssumption, LenProperties
      <4>3. SectorUnits \in Nat \ {0}
        BY FilesAssumption
      <4>4. ASSUME NEW a \in Nat, NEW k \in Nat \ {0} PROVE k * (a \div k) \in Nat
        <5>1. a \div k \in Nat
          BY SMTT(30)
        <5> QED BY <5>1, SMTT(30)
      <4>5. SectorUnits * DeviceSectors \in Nat
        BY <4>1, <4>2, <4>3, <4>4 DEF DeviceSectors
      <4> HIDE DEF DeviceSectors
      <4> QED BY <3>2, <4>1, <4>5
    <3>3. CASE reply'.data = _stat_to_bytes("")
      <4>1. reply'.data = <<"dir", 0>>
        BY <3>1, <3>3 DEF _stat_to_bytes
      <4> QED BY <4>1
    <3> QED BY <2>6, <2>7, <2>8, <3>1, <3>2, <3>3
  <2> QED BY <2>3, <2>6, <2>8
<1>4. MayNot \in {0, EACCES} /\ (MayNot = 0 => MayChange)
  BY DEF MayNot, EACCES, MayChange
<1>5. CASE c.op = "udpfs_mkdir"
  <2>1. m.op = "mkdir" /\ m.path = c.path
    BY <1>1, <1>5, MessageOf DEF udpfs_core_mkdir
  <2>2. _handle_mkdir(m)
    BY <1>1, <2>1, Dispatch
  <2> HIDE DEF m
  <2> DEFINE e == IF MayNot # 0 THEN MayNot
                  ELSE IF Exists(m.path) THEN EEXIST
                  ELSE CASE Kind(Parent[m.path]) = "dir" -> 0
                         [] Kind(Parent[m.path]) = "file" -> ENOTDIR
                         [] Kind(Parent[m.path]) = "none" -> ENOENT
  <2>3. UNCHANGED <<data, write, handles, next_handle>> /\ serving' = TRUE
    BY <2>2 DEF _handle_mkdir, ServesOn, UnchangedHandles
  <2>4. /\ reply' = [type |-> "RESULT_REPLY", result |-> e, data |-> <<>>]
        /\ tree' = IF e # 0 THEN tree ELSE [tree EXCEPT ![m.path] = [kind |-> "dir", ino |-> 0]]
    BY <2>2 DEF _handle_mkdir, _send_result_reply, Reply
  <2>5. /\ e \in Int
        /\ e = 0 => MayChange /\ ~Exists(m.path) /\ Kind(Parent[m.path]) = "dir"
    <3>1. ~Exists(m.path) => m.path \in Paths
      BY <1>2, <1>5, <2>1 DEF OnNames, Names, Exists, Kind
    <3>2. ~Exists(m.path) => Kind(Parent[m.path]) \in {"none", "dir", "file"}
      BY <3>1, NamesAssumption, NameParts DEF IInv
    <3> QED BY <3>2, <1>4 DEF EACCES, EEXIST, ENOTDIR, ENOENT
  <2> HIDE DEF e
  <2> QED BY <2>1, <2>3, <2>4, <2>5, <1>5, <1>2 DEF OnNames
<1>6. CASE c.op = "udpfs_remove"
  <2>1. m.op = "remove" /\ m.path = c.path
    BY <1>1, <1>6, MessageOf DEF udpfs_core_remove
  <2>2. _handle_remove(m)
    BY <1>1, <2>1, Dispatch
  <2> HIDE DEF m
  <2> DEFINE e == IF MayNot # 0 THEN MayNot
                  ELSE IF ~Exists(m.path) THEN ENOENT
                  ELSE IF Kind(m.path) = "dir" THEN EISDIR ELSE 0
  <2>3. UNCHANGED <<data, write, handles, next_handle>> /\ serving' = TRUE
    BY <2>2 DEF _handle_remove, ServesOn, UnchangedHandles
  <2>4. /\ reply' = [type |-> "RESULT_REPLY", result |-> e, data |-> <<>>]
        /\ tree' = IF e # 0 THEN tree ELSE [tree EXCEPT ![m.path] = Nothing]
    BY <2>2 DEF _handle_remove, _send_result_reply, Reply
  <2>5. e \in Int /\ (e = 0 => MayChange /\ Kind(m.path) = "file")
    <3>1. Kind(m.path) \in {"none", "dir", "file"}
      BY <1>2, <1>6, <2>1, NameParts DEF IInv, OnNames
    <3> QED BY <3>1, <1>4 DEF EACCES, ENOENT, EISDIR, Exists
  <2> HIDE DEF e
  <2> QED BY <2>1, <2>3, <2>4, <2>5, <1>6, <1>2 DEF OnNames
<1>7. CASE c.op = "udpfs_rmdir"
  <2>1. m.op = "rmdir" /\ m.path = c.path
    BY <1>1, <1>7, MessageOf DEF udpfs_core_rmdir
  <2>2. _handle_rmdir(m)
    BY <1>1, <2>1, Dispatch
  <2> HIDE DEF m
  <2> DEFINE e == IF MayNot # 0 THEN MayNot
                  ELSE IF ~Exists(m.path) THEN ENOENT
                  ELSE IF Kind(m.path) # "dir" THEN ENOTDIR
                  ELSE IF Children(m.path) # {} THEN ENOTEMPTY ELSE 0
  <2>3. UNCHANGED <<data, write, handles, next_handle>> /\ serving' = TRUE
    BY <2>2 DEF _handle_rmdir, ServesOn, UnchangedHandles
  <2>4. /\ reply' = [type |-> "RESULT_REPLY", result |-> e, data |-> <<>>]
        /\ tree' = IF e # 0 THEN tree ELSE [tree EXCEPT ![m.path] = Nothing]
    BY <2>2 DEF _handle_rmdir, _send_result_reply, Reply
  <2>5. e \in Int /\ (e = 0 => MayChange /\ Kind(m.path) = "dir" /\ Children(m.path) = {})
    BY <1>4 DEF EACCES, ENOENT, ENOTDIR, ENOTEMPTY
  <2> HIDE DEF e
  <2> QED BY <2>1, <2>3, <2>4, <2>5, <1>7, <1>2 DEF OnNames
<1> QED BY <1>3, <1>5, <1>6, <1>7 DEF OnNames

LEMMA NoWriteStays ==
    ASSUME IInv, NEW t \in Threads, Exchange(t), DOMAIN handles' \subseteq DOMAIN handles, write' = write
    PROVE  NoWriteInv'
BY ExchangeFacts DEF IInv, NoWriteInv

\* A call that is not a write, nor a read, sends one message.
LEMMA NoMore ==
    ASSUME IInv, NEW t \in Threads, Exchange(t), call[t].op \notin Writes
    PROVE  /\ ~MoreChunks(call[t]) /\ at'[t] = "wait" /\ done' = done
           /\ WriteInv'
           /\ call[t].op \notin Reads \cup {"udpfs_read"} => ~Sends(t)'
<1>1. at \in [Threads -> {"idle", "lock", "send", "wait"}] /\ Busy(t)
      /\ at' = [at EXCEPT ![t] = IF MoreChunks(call[t]) THEN "send" ELSE "wait"]
      /\ (done' = IF call[t].op \in Writes THEN done + 1 ELSE done) /\ call' = call
  BY ExchangeFacts DEF IInv, ClientTypes
<1>2. ~MoreChunks(call[t])
  BY DEF MoreChunks
<1>3. at'[t] = "wait" /\ \A u \in Threads : u # t => at'[u] = at[u]
  BY <1>1, <1>2
<1>4. \A u \in Threads : u # t => ~Busy(u)
  BY <1>1, CallOf
<1>5. \A u \in Threads : at'[u] # "send"
  BY <1>3, <1>4 DEF Busy
<1> QED BY <1>1, <1>2, <1>3, <1>5 DEF WriteInv, Sends

\* A file is on its way out of the tree, or a directory into it: what is
\* there is still in a directory.
LEMMA TreeChanged ==
    ASSUME ServerTypes, TreeInv, NEW path \in Names, NEW e \in Entries,
           tree' = [tree EXCEPT ![path] = e],
           \/ e.kind = "dir" /\ Kind(path) = "none" /\ Kind(Parent[path]) = "dir" /\ path \in Paths
           \/ e.kind = "none" /\ \A p \in Paths : Parent[p] = path => tree[p].kind = "none"
    PROVE  tree' \in [Paths -> Entries] /\ TreeInv'
<1>1. tree \in [Paths -> Entries]
  BY DEF ServerTypes
<1>2. tree' \in [Paths -> Entries]
  BY <1>1
<1>3. \A p \in Paths : tree'[p] = IF p = path THEN e ELSE tree[p]
  BY <1>1
<1>4. \A p \in Paths : Parent[p] \in Names /\ p # ""
  BY NamesAssumption
<1>5. \A n \in Names : n # "" => n \in Paths
  BY DEF Names
<1>6. ASSUME NEW p \in Paths, tree'[p].kind # "none" PROVE Kind(Parent[p])' = "dir"
  <2>1. CASE Parent[p] = ""
    BY <2>1 DEF Kind
  <2>2. CASE Parent[p] # ""
    <3>1. Parent[p] \in Paths /\ (Kind(Parent[p])' = tree'[Parent[p]].kind)
          /\ Kind(Parent[p]) = tree[Parent[p]].kind
      BY <2>2, <1>4, <1>5 DEF Kind
    <3>2. CASE p = path
      <4>1. e.kind = "dir" /\ Kind(path) = "none" /\ Kind(Parent[path]) = "dir"
        BY <3>2, <1>3, <1>6
      <4>2. Kind(path) = tree[path].kind
        BY <3>2, <1>4 DEF Kind
      <4>3. Parent[p] # path
        BY <3>2, <4>1
      <4> QED BY <3>1, <3>2, <4>1, <4>3, <1>3
    <3>3. CASE p # path
      <4>1. tree[p].kind # "none"
        BY <3>3, <1>3, <1>6
      <4>2. Kind(Parent[p]) = "dir"
        BY <4>1 DEF TreeInv
      <4>3. CASE Parent[p] = path
        BY <4>3, <4>1, <4>2, <3>1, <1>3
      <4>4. CASE Parent[p] # path
        BY <4>4, <4>2, <3>1, <1>3
      <4> QED BY <4>3, <4>4
    <3> QED BY <3>2, <3>3
  <2> QED BY <2>1, <2>2
<1> QED BY <1>2, <1>6 DEF TreeInv

\* What becomes of the tree.
LEMMA DueMkdir ==
    ASSUME NEW files, NEW c, c.op = "udpfs_mkdir", MayChange, ~Exists(c.path),
           Kind(Parent[c.path]) = "dir"
    PROVE  Due(files, c).tree = [tree EXCEPT ![c.path] = [kind |-> "dir", ino |-> 0]]
<1>1. Due(files, c) = IF Exists(c.path) \/ Kind(Parent[c.path]) # "dir"
                      THEN Result(files, EEXIST, NoBuffer)
                      ELSE [Result(files, 0, NoBuffer) EXCEPT
                              !.tree[c.path] = [kind |-> "dir", ino |-> 0]]
  BY DueOf DEF LocalName, OnNames, MayChange
<1>2. Due(files, c) = [res |-> 0, got |-> NoBuffer,
                       tree |-> [tree EXCEPT ![c.path] = [kind |-> "dir", ino |-> 0]],
                       data |-> data, files |-> files, old |-> files]
  BY <1>1 DEF Result
<1> QED BY <1>2

LEMMA DueRemove ==
    ASSUME NEW files, NEW c, c.op = "udpfs_remove", MayChange, Kind(c.path) = "file"
    PROVE  Due(files, c).tree = [tree EXCEPT ![c.path] = Nothing]
<1>1. Due(files, c) = IF Kind(c.path) # "file" THEN Result(files, ENOENT, NoBuffer)
                      ELSE [Result(files, 0, NoBuffer) EXCEPT !.tree[c.path] = Nothing]
  BY DueOf DEF LocalName, OnNames, MayChange
<1>2. Due(files, c) = [res |-> 0, got |-> NoBuffer, tree |-> [tree EXCEPT ![c.path] = Nothing],
                       data |-> data, files |-> files, old |-> files]
  BY <1>1 DEF Result
<1> QED BY <1>2

LEMMA DueRmdir ==
    ASSUME NEW files, NEW c, c.op = "udpfs_rmdir", MayChange, Kind(c.path) = "dir",
           Children(c.path) = {}
    PROVE  Due(files, c).tree = [tree EXCEPT ![c.path] = Nothing]
<1>1. Due(files, c) = IF Kind(c.path) # "dir" \/ Children(c.path) # {}
                      THEN Result(files, ENOENT, NoBuffer)
                      ELSE [Result(files, 0, NoBuffer) EXCEPT !.tree[c.path] = Nothing]
  BY DueOf DEF LocalName, OnNames, MayChange
<1>2. Due(files, c) = [res |-> 0, got |-> NoBuffer, tree |-> [tree EXCEPT ![c.path] = Nothing],
                       data |-> data, files |-> files, old |-> files]
  BY <1>1 DEF Result
<1> QED BY <1>2

\* A step on names, or the question for the size of the block device.
LEMMA NamesKeep ==
    ASSUME IInv, NEW t \in Threads, Exchange(t), call[t].op \in OnNames \cup {"udpfs_bd_init"}
    PROVE  /\ IInv'
           /\ <<tree, data>>' # <<tree, data>> => <<tree, data>>' = <<due.tree, due.data>>
<1> DEFINE c == call[t]
<1>1. /\ UNCHANGED <<data, write, handles, next_handle>> /\ serving' = TRUE
      /\ reply' \in [type : {reply'.type}, result : Int, data : {reply'.data}]
      /\ c = BdInit /\ reply'.result >= 0 =>
           reply'.data[2] \in Nat /\ (BlockDevice = 0 => reply'.data[2] = 0)
      /\ \/ tree' = tree
         \/ /\ c.op = "udpfs_mkdir" /\ MayChange /\ ~Exists(c.path) /\ Kind(Parent[c.path]) = "dir"
            /\ tree' = [tree EXCEPT ![c.path] = [kind |-> "dir", ino |-> 0]]
         \/ /\ c.op = "udpfs_remove" /\ MayChange /\ Kind(c.path) = "file"
            /\ tree' = [tree EXCEPT ![c.path] = Nothing]
         \/ /\ c.op = "udpfs_rmdir" /\ MayChange /\ Kind(c.path) = "dir" /\ Children(c.path) = {}
            /\ tree' = [tree EXCEPT ![c.path] = Nothing]
  BY NameServed
<1>2. /\ UNCHANGED <<g_fds, call, left, due, read_only>>
      /\ c.op # "udpfs_bd_init" => c \in Asked /\ c # BdInit
      /\ c # BdInit /\ Sends(t) => due = Due(due.old, c)
      /\ left.as = "ioman" => Matches(g_fds, Come(call[1]))
      /\ left.as = "ioman" => t = 1
      /\ at[t] = "send"
  BY ExchangeFacts, CallOf
<1>3. ~MoreChunks(c) /\ WriteInv' /\ ~Sends(t)'
  <2>1. c.op \notin Writes \cup Reads \cup {"udpfs_read"}
    BY DEF OnNames, Writes, Reads
  <2> QED BY <2>1, NoMore
<1>4. c.op \in OnNames => due.files = due.old /\ due.data = data
  <2>1. c.op \in OnNames => c # BdInit
    BY DEF OnNames, BdInit
  <2>2. c.op \in OnNames => due = Due(due.old, c)
    BY <2>1, <1>2 DEF Sends
  <2>3. ASSUME c.op \in OnNames
        PROVE  Due(due.old, c).files = due.old /\ Due(due.old, c).data = data
    <3>1. call[t].op \in OnNames
      BY <2>3
    <3> QED BY <3>1, DueNames
  <2> QED BY <2>2, <2>3
<1>5. tree' # tree => tree' = due.tree /\ data' = due.data
  <2> SUFFICES ASSUME tree' # tree PROVE tree' = due.tree /\ data' = due.data
    OBVIOUS
  <2>1. c.op \in OnNames
    BY <1>1 DEF OnNames
  <2>2. c # BdInit
    BY <2>1 DEF OnNames, BdInit
  <2>3. due = Due(due.old, c)
    BY <1>2, <2>2 DEF Sends
  <2>4. Due(due.old, c).tree = tree'
    <3>3. ASSUME /\ c.op = "udpfs_mkdir" /\ MayChange /\ ~Exists(c.path)
                 /\ Kind(Parent[c.path]) = "dir"
                 /\ tree' = [tree EXCEPT ![c.path] = [kind |-> "dir", ino |-> 0]]
          PROVE  Due(due.old, c).tree = tree'
      BY <3>3, DueMkdir
    <3>4. ASSUME /\ c.op = "udpfs_remove" /\ MayChange /\ Kind(c.path) = "file"
                 /\ tree' = [tree EXCEPT ![c.path] = Nothing]
          PROVE  Due(due.old, c).tree = tree'
      BY <3>4, DueRemove
    <3>5. ASSUME /\ c.op = "udpfs_rmdir" /\ MayChange /\ Kind(c.path) = "dir"
                 /\ Children(c.path) = {} /\ tree' = [tree EXCEPT ![c.path] = Nothing]
          PROVE  Due(due.old, c).tree = tree'
      BY <3>5, DueRmdir
    <3> QED BY <1>1, <3>3, <3>4, <3>5
  <2> QED BY <2>3, <2>4, <2>1, <1>1, <1>4
<1>6. tree' \in [Paths -> Entries] /\ TreeInv'
  <2>1. CASE tree' = tree
    <3>1. \A p : Kind(p)' = Kind(p)
      BY <2>1 DEF Kind
    <3> QED BY <2>1, <3>1 DEF IInv, ServerTypes, TreeInv
  <2>2. CASE tree' # tree
    <3>1. c.op \in OnNames /\ c.path \in Names
      <4>1. c.op \in OnNames
        BY <1>1, <2>2 DEF OnNames
      <4>2. c \in Asked
        BY <4>1, <1>2 DEF OnNames
      <4> QED BY <4>1, <4>2, CallFields
    <3>2. [kind |-> "dir", ino |-> 0] \in Entries /\ Nothing \in Entries /\ Nothing.kind = "none"
      BY DEF Entries, Nothing
    <3>3. CASE /\ c.op = "udpfs_mkdir" /\ MayChange /\ ~Exists(c.path)
               /\ Kind(Parent[c.path]) = "dir"
               /\ tree' = [tree EXCEPT ![c.path] = [kind |-> "dir", ino |-> 0]]
      <4> DEFINE e == [kind |-> "dir", ino |-> 0]
      <4>1. e \in Entries /\ e.kind = "dir" /\ tree' = [tree EXCEPT ![c.path] = e]
        BY <3>2, <3>3
      <4>2. Kind(c.path) = "none" /\ c.path \in Paths
        BY <3>1, <3>3 DEF Exists, Names, Kind
      <4> HIDE DEF e
      <4> QED BY <4>1, <4>2, <3>1, <3>3, TreeChanged DEF IInv
    <3>4. CASE tree' = [tree EXCEPT ![c.path] = Nothing] /\ (Kind(c.path) = "file" \/ Children(c.path) = {})
      <4>1. \A p \in Paths : Parent[p] = c.path => tree[p].kind = "none"
        <5> SUFFICES ASSUME NEW p \in Paths, Parent[p] = c.path, tree[p].kind # "none" PROVE FALSE
          OBVIOUS
        <5>1. Kind(c.path) = "dir"
          BY DEF IInv, TreeInv
        <5>2. p \in Children(c.path)
          BY NamesAssumption DEF Children, Exists, Kind
        <5> QED BY <5>1, <5>2, <3>4
      <4> DEFINE e == Nothing
      <4>2. e \in Entries /\ e.kind = "none" /\ tree' = [tree EXCEPT ![c.path] = e]
        BY <3>2, <3>4
      <4> HIDE DEF e
      <4> QED BY <4>1, <4>2, <3>1, TreeChanged DEF IInv
    <3> QED BY <2>2, <1>1, <3>3, <3>4
  <2> QED BY <2>1, <2>2
<1>7. ServerTypes'
  BY <1>1, <1>2, <1>6 DEF IInv, ServerTypes
<1>8. TableInv' /\ NoWriteInv'
  BY <1>1, NoWriteStays DEF IInv, TableInv
<1>9. OpenInv'
  <2>1. StillOpen
    BY <1>1 DEF StillOpen, IsOpen
  <2> QED BY <2>1, OpenStays
<1>10. ASSUME left.as = "ioman" PROVE Answered(call[1])'
  <2>1. t = 1 /\ c.op \in OnNames
    <3>1. c.op \in udpfs_device_ops
      BY <1>10, <1>2, ExchangeFacts, CallOf
    <3> QED BY <1>2, <1>10, <3>1 DEF udpfs_device_ops, Opens, Closes, OnNames, OnFiles
  <2>2. Come(call[1]) = due.old /\ c.op \notin Opens \cup Closes \cup {"udpfs_read"}
    BY <2>1 DEF Come, OnNames, Opens, Closes
  <2>3. AfterTable(call[1])' = g_fds /\ AfterFiles(call[1])' = due.old
    BY <2>1, <2>2, <1>2, <1>4 DEF AfterTable, AfterFiles
  <2>4. Matches(g_fds, due.old)
    BY <2>2, <1>2, <1>10
  <2>5. ASSUME NEW table, NEW files, Matches(table, files) PROVE Matches(table, files)'
    BY <2>5, <1>1, <1>2, MatchesStay
  <2> QED BY <2>1, <2>2, <2>3, <2>4, <2>5, <1>2 DEF Answered
<1>11. left.as = "ioman" => call[1].op # "udpfs_read" /\ ~MoreChunks(call[1])
  BY <1>2, <1>3 DEF OnNames
<1>12. IInv'
  BY <1>1, <1>3, <1>6, <1>7, <1>8, <1>9, <1>10, <1>11, ExchangeKeeps
<1> QED BY <1>12, <1>5, <1>1

\* Where a handle is changes, and nothing else of it.
LEMMA PlaceChanged ==
    ASSUME ServerTypes, NEW H \in DOMAIN handles, handles[H].kind # "dir", NEW p \in Nat,
           handles' = [handles EXCEPT ![H].pos = p]
    PROVE  /\ HandlesKept
           /\ DOMAIN handles' \subseteq Nat /\ handles' \in [DOMAIN handles' -> Tables]
           /\ handles'[H].pos = p
           /\ \A h \in DOMAIN handles : h # H => handles'[h] = handles[h]
<1>1. handles \in [DOMAIN handles -> Tables] /\ DOMAIN handles \subseteq Nat
  BY DEF ServerTypes
<1>2. handles[H] \in [kind : {"file", "alias"}, ino : Inodes, pos : Nat, mode : Modes,
                      entries : {<<>>}]
  BY <1>1 DEF Tables
<1>3. [handles[H] EXCEPT !.pos = p] \in [kind : {"file", "alias"}, ino : Inodes, pos : Nat,
                                         mode : Modes, entries : {<<>>}]
  BY <1>2
<1>4. [handles[H] EXCEPT !.pos = p] \in Tables
  BY <1>3 DEF Tables
<1>5. handles' \in [DOMAIN handles -> Tables] /\ DOMAIN handles' = DOMAIN handles
      /\ handles'[H] = [handles[H] EXCEPT !.pos = p]
      /\ \A h \in DOMAIN handles : h # H => handles'[h] = handles[h]
  BY <1>1, <1>4
<1>6. handles'[H].kind = handles[H].kind /\ handles'[H].ino = handles[H].ino
      /\ handles'[H].mode = handles[H].mode /\ handles'[H].pos = p
  BY <1>2, <1>5
<1> QED BY <1>1, <1>5, <1>6 DEF HandlesKept

LEMMA EntriesChanged ==
    ASSUME ServerTypes, NEW H \in DOMAIN handles, handles[H].kind = "dir", NEW l \in Seq(Paths),
           handles' = [handles EXCEPT ![H].entries = l]
    PROVE  /\ HandlesKept
           /\ DOMAIN handles' \subseteq Nat /\ handles' \in [DOMAIN handles' -> Tables]
           /\ handles'[H].entries = l
           /\ \A h \in DOMAIN handles : h # H => handles'[h] = handles[h]
<1>1. handles \in [DOMAIN handles -> Tables] /\ DOMAIN handles \subseteq Nat
  BY DEF ServerTypes
<1>2. handles[H] \in [kind : {"dir"}, ino : {0}, pos : {0}, mode : {"rb"}, entries : Seq(Paths)]
  BY <1>1 DEF Tables
<1>3. [handles[H] EXCEPT !.entries = l]
        \in [kind : {"dir"}, ino : {0}, pos : {0}, mode : {"rb"}, entries : Seq(Paths)]
  BY <1>2
<1>4. [handles[H] EXCEPT !.entries = l] \in Tables
  BY <1>3 DEF Tables
<1>5. handles' \in [DOMAIN handles -> Tables] /\ DOMAIN handles' = DOMAIN handles
      /\ handles'[H] = [handles[H] EXCEPT !.entries = l]
      /\ \A h \in DOMAIN handles : h # H => handles'[h] = handles[h]
  BY <1>1, <1>4
<1>6. handles'[H].kind = handles[H].kind /\ handles'[H].ino = handles[H].ino
      /\ handles'[H].mode = handles[H].mode /\ handles'[H].entries = l
  BY <1>2, <1>5
<1> QED BY <1>1, <1>5, <1>6 DEF HandlesKept

\* The file of one slot is elsewhere, and the others where they were.
LEMMA MatchesMoved ==
    ASSUME NEW table \in [Fds -> Int], NEW files \in [Fds -> OpenFiles],
           Matches(table, files), HandlesKept, NEW fd \in Fds, table[fd] >= 0, left'.since = left.since,
           \A h \in DOMAIN handles : h # table[fd] => handles'[h] = handles[h],
           NEW new, DOMAIN new = Fds, \A k \in Fds : k # fd => new[k] = files[k],
           new[fd].kind = files[fd].kind, new[fd].ino = files[fd].ino, new[fd].can = files[fd].can,
           new[fd].kind # "dir", handles'[table[fd]].pos = new[fd].pos
    PROVE  Matches(table, new)'
<1>1. ASSUME NEW k \in Fds
      PROVE  IF table[k] < 0 THEN new[k] = Closed
             ELSE table[k] # 0 /\ IsOpen(table[k], new[k])' /\ SamePlace(table[k], new[k])'
  <2>1. CASE k = fd
    <3>1. table[fd] # 0 /\ IsOpen(table[fd], files[fd])
      BY DEF Matches
    <3>2. IsOpen(table[fd], new[fd])'
      BY <3>1 DEF IsOpen, HandlesKept
    <3> QED BY <2>1, <3>1, <3>2 DEF SamePlace
  <2>2. CASE k # fd
    <3>1. IF table[k] < 0 THEN files[k] = Closed
          ELSE table[k] # 0 /\ IsOpen(table[k], files[k]) /\ SamePlace(table[k], files[k])
      BY DEF Matches
    <3>2. new[k] = files[k]
      BY <2>2
    <3>3. ASSUME table[k] >= 0 PROVE handles'[table[k]] = handles[table[k]]
      <4>1. table[k] # table[fd] /\ table[k] \in DOMAIN handles
        BY <2>2, <3>1, <3>3 DEF Matches, IsOpen
      <4> QED BY <4>1
    <3> QED BY <3>1, <3>2, <3>3 DEF IsOpen, SamePlace, HandlesKept
  <2> QED BY <2>1, <2>2
<1>2. /\ \A h \in DOMAIN handles' : h >= left'.since => \E k \in Fds : table[k] = h
      /\ \A i, j \in Fds : table[i] >= 0 /\ table[i] = table[j] => i = j
  BY DEF Matches, HandlesKept
<1> QED BY <1>1, <1>2 DEF Matches

LEMMA MatchesListed ==
    ASSUME NEW table \in [Fds -> Int], NEW files \in [Fds -> OpenFiles],
           Matches(table, files), HandlesKept, NEW fd \in Fds, table[fd] >= 0, left'.since = left.since,
           \A h \in DOMAIN handles : h # table[fd] => handles'[h] = handles[h],
           NEW new, DOMAIN new = Fds, \A k \in Fds : k # fd => new[k] = files[k],
           new[fd].kind = files[fd].kind, new[fd].ino = files[fd].ino, new[fd].can = files[fd].can,
           files[fd].kind = "dir", handles'[table[fd]].entries = new[fd].names
    PROVE  Matches(table, new)'
<1>1. ASSUME NEW k \in Fds
      PROVE  IF table[k] < 0 THEN new[k] = Closed
             ELSE table[k] # 0 /\ IsOpen(table[k], new[k])' /\ SamePlace(table[k], new[k])'
  <2>1. CASE k = fd
    <3>1. table[fd] # 0 /\ IsOpen(table[fd], files[fd])
      BY DEF Matches
    <3>2. IsOpen(table[fd], new[fd])'
      BY <3>1 DEF IsOpen, HandlesKept
    <3> QED BY <2>1, <3>1, <3>2 DEF SamePlace
  <2>2. CASE k # fd
    <3>1. IF table[k] < 0 THEN files[k] = Closed
          ELSE table[k] # 0 /\ IsOpen(table[k], files[k]) /\ SamePlace(table[k], files[k])
      BY DEF Matches
    <3>2. new[k] = files[k]
      BY <2>2
    <3>3. ASSUME table[k] >= 0 PROVE handles'[table[k]] = handles[table[k]]
      <4>1. table[k] # table[fd] /\ table[k] \in DOMAIN handles
        BY <2>2, <3>1, <3>3 DEF Matches, IsOpen
      <4> QED BY <4>1
    <3> QED BY <3>1, <3>2, <3>3 DEF IsOpen, SamePlace, HandlesKept
  <2> QED BY <2>1, <2>2
<1>2. /\ \A h \in DOMAIN handles' : h >= left'.since => \E k \in Fds : table[k] = h
      /\ \A i, j \in Fds : table[i] >= 0 /\ table[i] = table[j] => i = j
  BY DEF Matches, HandlesKept
<1> QED BY <1>1, <1>2 DEF Matches

\* What a call that does not change the tree comes to.
LEMMA DueSameFiles ==
    ASSUME UNCHANGED <<tree, data, read_only>>, NEW files, NEW c,
           c.op \in {"udpfs_read", "udpfs_write"} \cup FhiCalls \cup BdCalls
    PROVE  Due(files, c)' = Due(files, c)
<1>1. \A f : Bytes(f)' = Bytes(f) /\ WriteFrom(f)' = WriteFrom(f)
  BY DEF Bytes, WriteFrom
<1>2. \A r, g : Result(files, r, g)' = Result(files, r, g)
  BY SMTT(30) DEF Result
<1>3. LocalRead(files, c)' = LocalRead(files, c)
  BY <1>1, <1>2 DEF LocalRead
<1>4. LocalWrite(files, c)' = LocalWrite(files, c)
  BY <1>1, <1>2 DEF LocalWrite
<1>5. \A ino, content, n : Sectors(files, ino, content, c, n)' = Sectors(files, ino, content, c, n)
  BY <1>2 DEF Sectors
<1>6. CASE c.op = "udpfs_read"
  BY <1>3, <1>6 DEF Due, Opens, Closes, OnNames, FhiCalls, BdCalls
<1>7. CASE c.op = "udpfs_write"
  BY <1>4, <1>7 DEF Due, Opens, Closes, OnNames, FhiCalls, BdCalls
<1>8. CASE c.op \in FhiCalls
  BY <1>1, <1>5, <1>8 DEF Due, Opens, Closes, OnNames, FhiCalls
<1>9. CASE c.op \in BdCalls
  BY <1>5, <1>9 DEF Due, Opens, Closes, OnNames, FhiCalls, BdCalls
<1> QED BY <1>6, <1>7, <1>8, <1>9

\* The program on the PC ends, and answers nothing.
LEMMA EndsKeeps ==
    ASSUME IInv, NEW t \in Threads, Exchange(t), Ends, ~MoreChunks(call[t]),
           call[t].op # "udpfs_bd_init"
    PROVE  IInv' /\ UNCHANGED <<tree, data>>
<1>1. UNCHANGED <<tree, data, handles, next_handle, write, reply>> /\ serving' = FALSE
  BY DEF Ends
<1>2. /\ UNCHANGED <<g_fds, call, left, due, read_only, link>> /\ at[t] = "send" /\ Busy(t)
      /\ call[t] # BdInit /\ Sends(t) => due = Due(due.old, call[t])
      /\ left.as = "ioman" => reply = NoReply
      /\ at' = [at EXCEPT ![t] = "wait"]
      /\ at \in [Threads -> {"idle", "lock", "send", "wait"}]
  BY ExchangeFacts DEF IInv, ClientTypes
<1>3. ServerTypes' /\ TreeInv' /\ TableInv'
  <2>1. \A p : Kind(p)' = Kind(p)
    BY <1>1 DEF Kind
  <2> QED BY <1>1, <1>2, <2>1 DEF IInv, ServerTypes, TreeInv, TableInv
<1>4. NoWriteInv'
  BY <1>1, NoWriteStays
<1>5. WriteInv'
  <2>1. \A u \in Threads : at'[u] # "send"
    BY <1>2, CallOf DEF Busy
  <2> QED BY <2>1 DEF WriteInv
<1>6. OpenInv'
  <2>1. StillOpen
    BY <1>1 DEF StillOpen, IsOpen
  <2> QED BY <2>1, OpenStays
<1>7. call[t] # BdInit
  BY DEF BdInit
<1>8. call[t] # BdInit => due = Due(due.old, call[t])'
  <2>1. ASSUME NEW files, NEW c PROVE Due(files, c)' = Due(files, c)
    BY <1>1, <1>2, DueSame DEF SameTrees
  <2> QED BY <2>1, <1>2 DEF Sends
<1>9. left.as = "ioman" => t = 1 /\ reply' = NoReply
  BY <1>1, <1>2, CallOf
<1>10. IInv'
  BY <1>1, <1>3, <1>4, <1>5, <1>6, <1>7, <1>8, <1>9, ExchangeKeeps
<1> QED BY <1>1, <1>10

\* A message that leaves the files as they are, and every handle open.
LEMMA QuietKeeps ==
    ASSUME IInv, NEW t \in Threads, Exchange(t), call[t].op \notin Writes \cup {"udpfs_bd_init"},
           UNCHANGED <<tree, data, write, next_handle>>, serving' = TRUE,
           HandlesKept, DOMAIN handles' \subseteq Nat, handles' \in [DOMAIN handles' -> Tables],
           reply' \in [type : {reply'.type}, result : Int, data : {reply'.data}],
           left.as = "ioman" => Answered(call[1])'
    PROVE  IInv' /\ UNCHANGED <<tree, data>>
<1>1. /\ UNCHANGED <<g_fds, call, left, due, read_only>> /\ at[t] = "send"
      /\ call[t] # BdInit /\ Sends(t) => due = Due(due.old, call[t])
      /\ call[t].op \in udpfs_device_ops \cup FhiCalls \cup BdCalls \cup {"udpfs_bd_init"}
      /\ left.as = "ioman" => t = 1
  BY ExchangeFacts, CallOf
<1>2. /\ ~MoreChunks(call[t]) /\ WriteInv'
      /\ call[t].op \notin Reads \cup {"udpfs_read"} => ~Sends(t)'
  BY NoMore
<1>3. ServerTypes' /\ TreeInv' /\ TableInv'
  <2>1. \A p : Kind(p)' = Kind(p)
    BY DEF Kind
  <2>2. ServerTypes'
    BY <1>1 DEF IInv, ServerTypes
  <2> QED BY <2>1, <2>2, TableKept DEF IInv, TreeInv
<1>4. NoWriteInv'
  BY NoWriteStays DEF HandlesKept
<1>5. OpenInv'
  BY KeptIsOpen, OpenStays
<1>6. call[t] # BdInit
  BY DEF BdInit
<1>7. Sends(t)' => due = Due(due.old, call[t])'
  <2> SUFFICES ASSUME Sends(t)' PROVE due = Due(due.old, call[t])'
    OBVIOUS
  <2>1. call[t].op \in {"udpfs_read", "udpfs_write"} \cup FhiCalls \cup BdCalls
    BY <1>2 DEF Reads, FhiCalls, BdCalls
  <2>2. ASSUME NEW files, NEW c, c.op \in {"udpfs_read", "udpfs_write"} \cup FhiCalls \cup BdCalls
        PROVE  Due(files, c)' = Due(files, c)
    BY <1>1, <2>2, DueSameFiles
  <2>3. Due(due.old, call[t])' = Due(due.old, call[t])
    BY <2>1, <2>2, <1>1
  <2> QED BY <2>3, <1>1, <1>6 DEF Sends
<1>8. left.as = "ioman" => /\ call[1].op = "udpfs_read" => data' = data
                           /\ ~MoreChunks(call[1])
  BY <1>1, <1>2
<1>9. IInv'
  BY <1>1, <1>2, <1>3, <1>4, <1>5, <1>6, <1>7, <1>8, ExchangeKeeps
<1> QED BY <1>9

\* What is known of a call on an open file.
LEMMA OnOpenFile ==
    ASSUME IInv, NEW t \in Threads, Exchange(t), call[t].op \in OnFiles
    PROVE  /\ t = 1 /\ left.as = "ioman" /\ call[1] \in Asked /\ call[1].fd \in Fds
           /\ Allowed(call[1]) /\ Matches(g_fds, Come(call[1]))
           /\ due = Due(due.old, call[1]) /\ Serve(Message(call[1]))
           /\ due.old \in [Fds -> OpenFiles] /\ due.old[call[1].fd] \in OpenFiles
           /\ g_fds \in [Fds -> Int] /\ g_fds[call[1].fd] >= 0 /\ g_fds[call[1].fd] \in Int
           /\ done \in Nat /\ reply = NoReply
           /\ UNCHANGED <<g_fds, call, left, due, read_only>>
           /\ done' = IF call[1].op \in Writes THEN done + 1 ELSE done
           /\ AfterTable(call[1])' = g_fds
<1>1. call[t].op \in udpfs_device_ops
  BY DEF udpfs_device_ops
<1>2. t = 1 /\ left.as = "ioman" /\ call[1] \in Asked /\ call[1].fd \in Fds
  BY <1>1, ExchangeFacts, CallOf
<1>3. /\ Allowed(call[1]) /\ Matches(g_fds, Come(call[1])) /\ Serve(Message(call[1]))
      /\ done \in Nat /\ reply = NoReply
      /\ UNCHANGED <<g_fds, call, left, due, read_only>>
      /\ done' = IF call[1].op \in Writes THEN done + 1 ELSE done
      /\ at[1] = "send" /\ due.old \in [Fds -> OpenFiles]
  BY <1>2, ExchangeFacts
<1>4. due = Due(due.old, call[1])
  <2>1. call[1] # BdInit /\ Sends(1)
    BY <1>2, <1>3, CallFields DEF Sends
  <2> QED BY <2>1, <1>2, ExchangeFacts
<1>5. g_fds \in [Fds -> Int]
  BY DEF IInv, ClientTypes
<1>6. g_fds[call[1].fd] >= 0
  BY <1>2, <1>3 DEF Allowed
<1>7. AfterTable(call[1])' = g_fds
  BY <1>2, <1>3 DEF AfterTable, OnFiles, Opens, Closes
<1> QED BY <1>2, <1>3, <1>4, <1>5, <1>6, <1>7

\* The handle a call is on.
LEMMA HandleOf ==
    ASSUME NEW c
    PROVE  /\ c.op \in udpfs_device_ops => Handle(c) = g_fds[c.fd]
           /\ c.op \in FhiCalls => Handle(c) = fhi[c.fd]
           /\ c.op \in BdCalls => Handle(c) = 0
BY DEF Handle, udpfs_device_ops, Opens, Closes, OnNames, OnFiles, FhiCalls, BdCalls

LEMMA ReadExchange ==
    ASSUME IInv, NEW t \in Threads, Exchange(t), call[t].op = "udpfs_read"
    PROVE  IInv' /\ UNCHANGED <<tree, data>>
<1> DEFINE c == call[1]
           H == g_fds[c.fd]
           f == due.old[c.fd]
           p == f.pos + done
           size == Smaller(c.size - done, MaxRead)
           m == Message(c)
<1>1. call[t].op \in OnFiles
  BY DEF OnFiles
<1>2. /\ t = 1 /\ left.as = "ioman" /\ c \in Asked /\ c.fd \in Fds
      /\ Allowed(c) /\ Matches(g_fds, Come(c)) /\ due = Due(due.old, c) /\ Serve(m)
      /\ due.old \in [Fds -> OpenFiles] /\ f \in OpenFiles
      /\ g_fds \in [Fds -> Int] /\ H >= 0 /\ H \in Int /\ done \in Nat
      /\ UNCHANGED <<g_fds, call, left, due, read_only>> /\ AfterTable(c)' = g_fds
      /\ c.op = "udpfs_read"
  BY <1>1, OnOpenFile
<1>3. done' = done
  BY <1>2, OnOpenFile, <1>1 DEF Writes
<1>4. c.size \in Nat
  BY <1>2, CallFields
<1>5. /\ "RD" \in f.can /\ done < c.size /\ (done > 0 => p <= Len(Bytes(f)))
  BY <1>2 DEF Allowed
<1>6. f.kind \in {"file", "alias"} /\ f.pos \in Nat
  BY <1>2, <1>5, OpenFileParts
<1>7. Bytes(f) \in Seq(Int) /\ Len(Bytes(f)) \in Nat /\ p \in Nat
  BY <1>2, <1>6, BytesType, SMTT(30) DEF IInv
<1>8. Come(c) = [due.old EXCEPT ![c.fd].pos = @ + done]
  BY <1>2 DEF Come, Moved
<1>9. /\ Come(c) \in [Fds -> OpenFiles]
      /\ Come(c)[c.fd] = [f EXCEPT !.pos = p]
  <2>1. ASSUME NEW q \in Nat PROVE [due.old EXCEPT ![c.fd].pos = q] \in [Fds -> OpenFiles]
    BY <1>2, <1>6, FilesMoved
  <2> QED BY <2>1, <1>2, <1>7, <1>8
<1>10. /\ Come(c)[c.fd].kind = f.kind /\ Come(c)[c.fd].ino = f.ino /\ Come(c)[c.fd].pos = p
       /\ Come(c)[c.fd].can = f.can
  <2>1. f \in [kind : {"file", "alias"}, ino : Inodes, pos : Nat, can : SUBSET Flags,
               names : {<<>>}]
    BY <1>2, <1>6 DEF OpenFiles, Closed
  <2> QED BY <2>1, <1>9
<1>11. /\ H \in DOMAIN handles /\ handles[H].kind = f.kind /\ handles[H].ino = f.ino
       /\ handles[H].pos = p
  <2>1. IsOpen(H, Come(c)[c.fd]) /\ SamePlace(H, Come(c)[c.fd])
    BY <1>2 DEF Matches
  <2> QED BY <2>1, <1>6, <1>10 DEF IsOpen, SamePlace
<1>12. m = udpfs_core_read(c)
  BY <1>2, MessageOf DEF udpfs_device_ops, OnFiles
<1>13. m.op = "read" /\ m.handle = H /\ m.size = size
  <2>1. Handle(c) = H
    BY <1>2, HandleOf DEF udpfs_device_ops, OnFiles
  <2> QED BY <2>1, <1>12 DEF udpfs_core_read
<1>14. size \in Nat
  BY <1>4, <1>5, <1>2, InputsAssumption DEF Smaller
<1>15. _handle_read(m) /\ IsFile(H) /\ Content(handles[H]) = Bytes(f)
  BY <1>2, <1>6, <1>11, <1>13, Dispatch DEF IsFile, Content, Bytes
<1> HIDE DEF m
<1>16. CASE ~Readable(handles[H])
  <2>1. Ends
    BY <1>13, <1>15, <1>16 DEF _handle_read
  <2>2. ~MoreChunks(call[t]) /\ call[t].op # "udpfs_bd_init"
    BY SMTT(30) DEF MoreChunks, Writes
  <2> QED BY <2>1, <2>2, EndsKeeps
<1>17. CASE Readable(handles[H])
  <2> DEFINE got_ == ReadAt(Bytes(f), p, size)
             n == Len(got_)
             all == Len(ReadAt(Bytes(f), f.pos, c.size))
  <2>1. /\ handles' = [handles EXCEPT ![H].pos = p + n]
        /\ reply' = [type |-> "RESULT_REPLY", result |-> n, data |-> got_]
        /\ serving' = TRUE /\ UNCHANGED <<tree, data, next_handle, write>>
    BY <1>11, <1>13, <1>15, <1>17
    DEF _handle_read, _send_read_result, Reply, ServesOn, UnchangedFiles
  <2>2. n = IF p < Len(Bytes(f)) THEN Smaller(size, Len(Bytes(f)) - p) ELSE 0
    BY <1>7, <1>14, ReadLength
  <2>3. all = IF f.pos < Len(Bytes(f)) THEN Smaller(c.size, Len(Bytes(f)) - f.pos) ELSE 0
    BY <1>4, <1>6, <1>7, ReadLength
  <2>4. due.files = [due.old EXCEPT ![c.fd].pos = f.pos + all]
    BY <1>2, DueRead
  <2> HIDE DEF got_, n, all
  <2>5. /\ n \in Nat /\ n <= c.size - done
        /\ n > 0 => p + n <= Len(Bytes(f))
        /\ n < size \/ done + n = c.size => done + n = all
    <3> DEFINE L == Len(Bytes(f))
               fp == f.pos
               cs == c.size
    <3>1. /\ L \in Nat /\ fp \in Nat /\ cs \in Nat /\ done \in Nat /\ MaxRead \in Nat \ {0}
          /\ done < cs /\ (done > 0 => fp + done <= L)
          /\ n = IF fp + done < L THEN Smaller(Smaller(cs - done, MaxRead), L - (fp + done)) ELSE 0
          /\ all = IF fp < L THEN Smaller(cs, L - fp) ELSE 0
      BY <1>2, <1>4, <1>5, <1>6, <1>7, <2>2, <2>3, InputsAssumption
    <3> HIDE DEF L, fp, cs
    <3>2. /\ n \in Nat /\ n <= cs - done /\ (n > 0 => fp + done + n <= L)
          /\ n < Smaller(cs - done, MaxRead) \/ done + n = cs => done + n = all
      BY <3>1, SMTT(30) DEF Smaller
    <3> QED BY <3>2 DEF L, fp, cs
  <2>6. /\ HandlesKept /\ DOMAIN handles' \subseteq Nat /\ handles' \in [DOMAIN handles' -> Tables]
        /\ handles'[H].pos = p + n
        /\ \A h \in DOMAIN handles : h # H => handles'[h] = handles[h]
    <3> DEFINE q == p + n
    <3>1. q \in Nat /\ handles' = [handles EXCEPT ![H].pos = q] /\ handles[H].kind # "dir"
      BY <1>6, <1>7, <1>11, <2>1, <2>5, SMTT(30)
    <3> HIDE DEF q, p
    <3>2. /\ HandlesKept /\ DOMAIN handles' \subseteq Nat /\ handles' \in [DOMAIN handles' -> Tables]
          /\ handles'[H].pos = q
          /\ \A h \in DOMAIN handles : h # H => handles'[h] = handles[h]
      BY <3>1, <1>11, PlaceChanged DEF IInv
    <3> QED BY <3>2 DEF q
  <2> DEFINE new == [due.old EXCEPT ![c.fd].pos = @ + (done + n)]
  <2>7. new[c.fd] = [f EXCEPT !.pos = f.pos + (done + n)] /\ DOMAIN new = Fds
        /\ \A k \in Fds : k # c.fd => new[k] = due.old[k] /\ new[k] = Come(c)[k]
    BY <1>2, <1>8
  <2>8. /\ new[c.fd].kind = f.kind /\ new[c.fd].ino = f.ino /\ new[c.fd].can = f.can
        /\ new[c.fd].pos = f.pos + (done + n)
    <3>1. f \in [kind : {"file", "alias"}, ino : Inodes, pos : Nat, can : SUBSET Flags,
                 names : {<<>>}]
      BY <1>2, <1>6 DEF OpenFiles, Closed
    <3> QED BY <3>1, <2>7
  <2>9. AfterFiles(c)' = new
    BY <1>2, <1>3, <2>1 DEF AfterFiles, Moved
  <2>10. p + n = f.pos + (done + n)
    BY <1>2, <1>6, <2>5
  <2> HIDE DEF new
  <2>11. ASSUME NEW a, a = g_fds, NEW e, e = new PROVE Matches(a, e)'
    <3> DEFINE come == Come(c)
               k == c.fd
    <3>1. /\ a \in [Fds -> Int] /\ come \in [Fds -> OpenFiles] /\ Matches(a, come)
          /\ k \in Fds /\ a[k] >= 0 /\ left'.since = left.since
          /\ \A h \in DOMAIN handles : h # a[k] => handles'[h] = handles[h]
          /\ DOMAIN e = Fds /\ \A j \in Fds : j # k => e[j] = come[j]
          /\ e[k].kind = come[k].kind /\ e[k].ino = come[k].ino /\ e[k].can = come[k].can
          /\ e[k].kind # "dir" /\ handles'[a[k]].pos = e[k].pos
      BY <1>2, <1>6, <1>9, <1>10, <2>6, <2>7, <2>8, <2>10, <2>11, ZenonT(60)
    <3> HIDE DEF come, k
    <3> QED BY <3>1, <2>6, MatchesMoved, SMTT(30)
  <2>12. /\ c.op \notin Closes
         /\ reply'.result \in Nat /\ reply'.result <= c'.size - done'
         /\ reply'.result > 0 => due'.old[c'.fd].pos + done' + reply'.result <= Len(Bytes(due'.old[c'.fd]))
         /\ ReadEnds(c)' => new = due.files
    <3>1. c.op \notin Closes /\ reply'.result = n /\ c' = c /\ due' = due
      BY <1>2, <2>1 DEF Closes
    <3>2. ReadEnds(c)' => n < size \/ done + n = c.size
      BY <3>1, <1>3 DEF ReadEnds
    <3>3. done + n = all => new = due.files
      BY <2>4, <1>2 DEF new
    <3> QED BY <3>1, <3>2, <3>3, <2>5, <1>3
  <2>13. Bytes(due.old[c.fd])' = Bytes(due.old[c.fd])
    BY <1>2, <2>1 DEF Bytes
  <2>14. Answered(c)'
    BY <1>2, <2>9, <2>11, <2>12, <2>13 DEF Answered
  <2>15. reply' \in [type : {reply'.type}, result : Int, data : {reply'.data}]
    BY <2>1, <2>5
  <2> QED BY <1>2, <2>1, <2>6, <2>14, <2>15, QuietKeeps, SMTT(30) DEF Writes
<1> QED BY <1>16, <1>17

LEMMA SeekExchange ==
    ASSUME IInv, NEW t \in Threads, Exchange(t), call[t].op = "udpfs_lseek64"
    PROVE  IInv' /\ UNCHANGED <<tree, data>>
<1> DEFINE c == call[1]
           H == g_fds[c.fd]
           f == due.old[c.fd]
           m == Message(c)
<1>1. call[t].op \in OnFiles
  BY DEF OnFiles
<1>2. /\ t = 1 /\ left.as = "ioman" /\ c \in Asked /\ c.fd \in Fds
      /\ Allowed(c) /\ Matches(g_fds, Come(c)) /\ due = Due(due.old, c) /\ Serve(m)
      /\ due.old \in [Fds -> OpenFiles] /\ f \in OpenFiles
      /\ g_fds \in [Fds -> Int] /\ H >= 0 /\ H \in Int
      /\ UNCHANGED <<g_fds, call, left, due, read_only>> /\ AfterTable(c)' = g_fds
      /\ c.op = "udpfs_lseek64"
  BY <1>1, OnOpenFile
<1>3. f.kind \in {"file", "alias"} /\ f.pos \in Nat /\ f.can \in SUBSET Flags
  BY <1>2, OpenFileParts DEF Allowed
<1>4. Bytes(f) \in Seq(Int) /\ Len(Bytes(f)) \in Nat
  BY <1>2, <1>3, BytesType DEF IInv
<1>5. Matches(g_fds, due.old)
  BY <1>2 DEF Come
<1>6. /\ H \in DOMAIN handles /\ handles[H].kind = f.kind /\ handles[H].ino = f.ino
      /\ handles[H].pos = f.pos
  <2>1. IsOpen(H, f) /\ SamePlace(H, f)
    BY <1>2, <1>5 DEF Matches
  <2> QED BY <2>1, <1>3 DEF IsOpen, SamePlace
<1>7. m.op = "lseek" /\ m.handle = H /\ m.offset = c.offset /\ m.whence = c.whence
  <2>1. Handle(c) = H
    BY <1>2, HandleOf DEF udpfs_device_ops, OnFiles
  <2>2. m = udpfs_core_lseek(c)
    BY <1>2, MessageOf DEF udpfs_device_ops, OnFiles
  <2> QED BY <2>1, <2>2 DEF udpfs_core_lseek
<1>8. _handle_lseek(m) /\ IsFile(H) /\ Content(handles[H]) = Bytes(f)
  BY <1>2, <1>3, <1>6, <1>7, Dispatch DEF IsFile, Content, Bytes
<1> HIDE DEF m
<1> DEFINE target == SeekTarget(f, c)
           place == SeekPlace(f, c)
<1>9. target \in Int /\ place \in Int
  BY <1>2, <1>3, SeekType DEF IInv
<1>10. /\ f.kind = "alias" => place >= 0 /\ place = SeekTo(handles[H], target)
       /\ f.kind = "file" => place = target /\ place = SeekTo(handles[H], target)
  <2>1. f.kind = "alias" => place = Larger(0, Smaller(target, Len(Bytes(f))))
    BY DEF SeekPlace
  <2>2. f.kind # "alias" => place = target
    BY DEF SeekPlace
  <2>3. SeekTo(handles[H], target) =
          IF f.kind = "alias" THEN Larger(0, Smaller(target, Len(Bytes(f)))) ELSE target
    BY <1>6, <1>8 DEF SeekTo
  <2> QED BY <2>1, <2>2, <2>3, <1>4, <1>9 DEF Larger, Smaller
<1>11. target = m.offset + CASE m.whence = "SET" -> 0
                             [] m.whence = "CUR" -> handles[H].pos
                             [] m.whence = "END" -> Len(Content(handles[H]))
  BY <1>6, <1>7, <1>8 DEF SeekTarget
<1>12. due.files = IF place < 0 THEN due.old ELSE [due.old EXCEPT ![c.fd].pos = place]
  BY <1>2, DueSeek
<1> HIDE DEF target, place
<1>13. /\ serving' = TRUE /\ UNCHANGED <<tree, data, next_handle, write>>
       /\ IF f.kind = "file" /\ target < 0
          THEN reply' = [type |-> "LSEEK_REPLY", result |-> EINVAL, data |-> <<>>] /\ UNCHANGED handles
          ELSE /\ handles' = [handles EXCEPT ![H].pos = place]
               /\ reply' = [type |-> "LSEEK_REPLY", result |-> place, data |-> <<>>]
  <2>1. /\ serving' = TRUE /\ UNCHANGED <<tree, data, next_handle, write>>
        /\ \E h \in {handles[H]} :
             \E to \in {m.offset + CASE m.whence = "SET" -> 0
                                     [] m.whence = "CUR" -> h.pos
                                     [] m.whence = "END" -> Len(Content(h))} :
               IF h.kind = "file" /\ to < 0
               THEN _send_lseek_reply(EINVAL) /\ UNCHANGED handles
               ELSE /\ handles' = [handles EXCEPT ![H].pos = SeekTo(h, to)]
                    /\ _send_lseek_reply(SeekTo(h, to))
    BY <1>7, <1>8 DEF _handle_lseek, ServesOn, UnchangedFiles
  <2>2. IF f.kind = "file" /\ target < 0
        THEN _send_lseek_reply(EINVAL) /\ UNCHANGED handles
        ELSE /\ handles' = [handles EXCEPT ![H].pos = SeekTo(handles[H], target)]
             /\ _send_lseek_reply(SeekTo(handles[H], target))
    BY <2>1, <1>6, <1>11
  <2>3. place = SeekTo(handles[H], target)
    BY <1>3, <1>10
  <2> QED BY <2>1, <2>2, <2>3, SMTT(30) DEF _send_lseek_reply, Reply
<1>14. reply' \in [type : {reply'.type}, result : Int, data : {reply'.data}]
  BY <1>13, <1>9 DEF EINVAL
<1>15. CASE f.kind = "file" /\ target < 0
  <2>1. handles' = handles /\ reply'.result = EINVAL
    BY <1>13, <1>15
  <2>2. AfterFiles(c)' = due.old
    BY <1>2, <2>1 DEF AfterFiles, EINVAL
  <2>3. ASSUME NEW a, NEW e, Matches(a, e) PROVE Matches(a, e)'
    BY <1>2, <2>1, <2>3, MatchesStay
  <2>4. Answered(c)'
    BY <1>2, <1>5, <2>2, <2>3 DEF Answered, Closes
  <2>5. HandlesKept /\ DOMAIN handles' \subseteq Nat /\ handles' \in [DOMAIN handles' -> Tables]
    BY <2>1 DEF HandlesKept, IInv, ServerTypes
  <2> QED BY <1>2, <1>13, <1>14, <2>4, <2>5, QuietKeeps DEF Writes
<1>16. CASE ~(f.kind = "file" /\ target < 0)
  <2>1. /\ place \in Nat /\ handles' = [handles EXCEPT ![H].pos = place]
        /\ reply'.result = place
    BY <1>3, <1>9, <1>10, <1>13, <1>16
  <2>2. AfterFiles(c)' = due.files /\ due.files = [due.old EXCEPT ![c.fd].pos = place]
    BY <1>2, <1>12, <2>1, SMTT(30) DEF AfterFiles
  <2>3. /\ HandlesKept /\ DOMAIN handles' \subseteq Nat /\ handles' \in [DOMAIN handles' -> Tables]
        /\ handles'[H].pos = place
        /\ \A h \in DOMAIN handles : h # H => handles'[h] = handles[h]
    <3>1. handles[H].kind # "dir"
      BY <1>3, <1>6
    <3> QED BY <3>1, <1>6, <2>1, PlaceChanged DEF IInv
  <2>4. /\ due.files[c.fd].kind = f.kind /\ due.files[c.fd].ino = f.ino
        /\ due.files[c.fd].can = f.can /\ due.files[c.fd].pos = place
        /\ DOMAIN due.files = Fds /\ \A k \in Fds : k # c.fd => due.files[k] = due.old[k]
    <3>1. f \in [kind : {"file", "alias"}, ino : Inodes, pos : Nat, can : SUBSET Flags,
                 names : {<<>>}]
      BY <1>2, <1>3 DEF OpenFiles, Closed
    <3> QED BY <3>1, <1>2, <2>2
  <2>5. ASSUME NEW a, a = g_fds, NEW e, e = due.files PROVE Matches(a, e)'
    <3> DEFINE files == due.old
               k == c.fd
    <3>1. /\ a \in [Fds -> Int] /\ files \in [Fds -> OpenFiles] /\ Matches(a, files)
          /\ k \in Fds /\ a[k] >= 0 /\ left'.since = left.since
          /\ \A h \in DOMAIN handles : h # a[k] => handles'[h] = handles[h]
          /\ DOMAIN e = Fds /\ \A j \in Fds : j # k => e[j] = files[j]
          /\ e[k].kind = files[k].kind /\ e[k].ino = files[k].ino /\ e[k].can = files[k].can
          /\ e[k].kind # "dir" /\ handles'[a[k]].pos = e[k].pos
      BY <1>2, <1>3, <1>5, <2>3, <2>4, <2>5
    <3> HIDE DEF files, k
    <3> QED BY <3>1, <2>3, MatchesMoved
  <2>6. Answered(c)'
    BY <1>2, <2>2, <2>5 DEF Answered, Closes
  <2> QED BY <1>2, <1>13, <1>14, <2>3, <2>6, QuietKeeps DEF Writes
<1> QED BY <1>15, <1>16

LEMMA DreadExchange ==
    ASSUME IInv, NEW t \in Threads, Exchange(t), call[t].op = "udpfs_dread"
    PROVE  IInv' /\ UNCHANGED <<tree, data>>
<1> DEFINE c == call[1]
           H == g_fds[c.fd]
           f == due.old[c.fd]
           m == Message(c)
<1>1. call[t].op \in OnFiles
  BY DEF OnFiles
<1>2. /\ t = 1 /\ left.as = "ioman" /\ c \in Asked /\ c.fd \in Fds
      /\ Allowed(c) /\ Matches(g_fds, Come(c)) /\ due = Due(due.old, c) /\ Serve(m)
      /\ due.old \in [Fds -> OpenFiles] /\ f \in OpenFiles
      /\ g_fds \in [Fds -> Int] /\ H >= 0 /\ H \in Int
      /\ UNCHANGED <<g_fds, call, left, due, read_only>> /\ AfterTable(c)' = g_fds
      /\ c.op = "udpfs_dread"
  BY <1>1, OnOpenFile
<1>3. f.kind = "dir" /\ f.names \in Seq(Paths)
      /\ f \in [kind : {"dir"}, ino : {0}, pos : {0}, can : {{"DIR"}}, names : Seq(Paths)]
  BY <1>2, OpenFileParts DEF Allowed, OpenFiles, Closed
<1>4. Matches(g_fds, due.old)
  BY <1>2 DEF Come
<1>5. H \in DOMAIN handles /\ handles[H].kind = "dir" /\ handles[H].entries = f.names
  <2>1. IsOpen(H, f) /\ SamePlace(H, f)
    BY <1>2, <1>4 DEF Matches
  <2> QED BY <2>1, <1>3 DEF IsOpen, SamePlace
<1>6. m.op = "dread" /\ m.handle = H
  <2>1. Handle(c) = H
    BY <1>2, HandleOf DEF udpfs_device_ops, OnFiles
  <2>2. m = udpfs_core_dread(c)
    BY <1>2, MessageOf DEF udpfs_device_ops, OnFiles
  <2> QED BY <2>1, <2>2 DEF udpfs_core_dread
<1>7. _handle_dread(m) /\ IsDir(H)
  BY <1>2, <1>5, <1>6, Dispatch DEF IsDir
<1> HIDE DEF m
<1>8. /\ serving' = TRUE /\ UNCHANGED <<tree, data, next_handle, write>>
      /\ handles' = IF f.names = <<>> THEN handles
                    ELSE [handles EXCEPT ![H].entries = Tail(f.names)]
      /\ reply'.result \in {0, 1}
      /\ reply' \in [type : {reply'.type}, result : Int, data : {reply'.data}]
  <2>1. UNCHANGED <<tree, data, next_handle, write>> /\ serving' = TRUE
    BY <1>7 DEF _handle_dread, ServesOn, UnchangedFiles
  <2>2. CASE f.names = <<>>
    BY <2>1, <2>2, <1>5, <1>6, <1>7 DEF _handle_dread, _send_dread_reply, Reply
  <2>3. CASE f.names # <<>>
    <3>1. /\ handles' = [handles EXCEPT ![H].entries = Tail(@)]
          /\ \E r \in {0, 1} : \E d : reply' = [type |-> "DREAD_REPLY", result |-> r, data |-> d]
      BY <2>3, <1>5, <1>6, <1>7 DEF _handle_dread, _send_dread_reply, Reply
    <3>2. handles' = [handles EXCEPT ![H].entries = Tail(f.names)]
      BY <3>1, <1>5
    <3>3. PICK r \in {0, 1} : \E d : reply' = [type |-> "DREAD_REPLY", result |-> r, data |-> d]
      BY <3>1
    <3>4. reply'.result = r /\ reply' \in [type : {reply'.type}, result : Int, data : {reply'.data}]
      BY <3>3
    <3> QED BY <3>2, <3>4, <2>1, <2>3, SMTT(30)
  <2> QED BY <2>2, <2>3
<1>9. due.files = IF f.names = <<>> THEN due.old
                  ELSE [due.old EXCEPT ![c.fd].names = Tail(f.names)]
  <2>1. Due(due.old, c).files = IF due.old[c.fd].names = <<>> THEN due.old
                                ELSE [due.old EXCEPT ![c.fd].names = Tail(due.old[c.fd].names)]
    BY <1>2, DueDread
  <2> QED BY <2>1, <1>2
<1>10. AfterFiles(c)' = due.files
  BY <1>2, <1>8 DEF AfterFiles
<1>11. CASE f.names = <<>>
  <2>1. handles' = handles /\ due.files = due.old
    BY <1>8, <1>9, <1>11
  <2>2. ASSUME NEW a, NEW e, Matches(a, e) PROVE Matches(a, e)'
    BY <1>2, <2>1, <2>2, MatchesStay
  <2>3. Answered(c)'
    BY <1>2, <1>4, <1>10, <2>1, <2>2 DEF Answered, Closes
  <2>4. HandlesKept /\ DOMAIN handles' \subseteq Nat /\ handles' \in [DOMAIN handles' -> Tables]
    BY <2>1, SMTT(30) DEF HandlesKept, IInv, ServerTypes
  <2> QED BY <1>2, <1>8, <2>3, <2>4, QuietKeeps DEF Writes
<1>12. CASE f.names # <<>>
  <2> DEFINE l == Tail(f.names)
  <2>1. l \in Seq(Paths)
    BY <1>3, <1>12
  <2>2. handles' = [handles EXCEPT ![H].entries = l] /\ due.files = [due.old EXCEPT ![c.fd].names = l]
    BY <1>8, <1>9, <1>12
  <2> HIDE DEF l
  <2>3. /\ HandlesKept /\ DOMAIN handles' \subseteq Nat /\ handles' \in [DOMAIN handles' -> Tables]
        /\ handles'[H].entries = l
        /\ \A h \in DOMAIN handles : h # H => handles'[h] = handles[h]
    BY <1>5, <2>1, <2>2, EntriesChanged DEF IInv
  <2>4. /\ due.files[c.fd].kind = f.kind /\ due.files[c.fd].ino = f.ino
        /\ due.files[c.fd].can = f.can /\ due.files[c.fd].names = l
        /\ DOMAIN due.files = Fds /\ \A k \in Fds : k # c.fd => due.files[k] = due.old[k]
    BY <1>2, <1>3, <2>2
  <2>5. ASSUME NEW a, a = g_fds, NEW e, e = due.files PROVE Matches(a, e)'
    <3> DEFINE files == due.old
               k == c.fd
    <3>1. /\ a \in [Fds -> Int] /\ files \in [Fds -> OpenFiles] /\ Matches(a, files)
          /\ k \in Fds /\ a[k] >= 0 /\ left'.since = left.since
          /\ \A h \in DOMAIN handles : h # a[k] => handles'[h] = handles[h]
          /\ DOMAIN e = Fds /\ \A j \in Fds : j # k => e[j] = files[j]
          /\ e[k].kind = files[k].kind /\ e[k].ino = files[k].ino /\ e[k].can = files[k].can
          /\ files[k].kind = "dir" /\ handles'[a[k]].entries = e[k].names
      BY <1>2, <1>3, <1>4, <2>3, <2>4, <2>5
    <3> HIDE DEF files, k
    <3> QED BY <3>1, <2>3, MatchesListed
  <2>6. Answered(c)'
    BY <1>2, <1>10, <2>5 DEF Answered, Closes
  <2> QED BY <1>2, <1>8, <2>3, <2>6, QuietKeeps DEF Writes
<1> QED BY <1>11, <1>12

\* A handle is closed, and the slot of the console with it.
LEMMA CloseExchange ==
    ASSUME IInv, NEW t \in Threads, Exchange(t), call[t].op \in Closes
    PROVE  IInv' /\ UNCHANGED <<tree, data>>
<1> DEFINE c == call[1]
           fd == c.fd
           H == g_fds[fd]
           m == Message(c)
<1>1. t = 1 /\ left.as = "ioman" /\ c \in Asked /\ fd \in Fds /\ ~left.pc
      /\ call[t].op \in udpfs_device_ops /\ call[t].op \notin Writes \cup Reads \cup {"udpfs_read"}
      /\ call[t] # BdInit
  <2>1. call[t].op \in udpfs_device_ops /\ call[t].op \notin Writes \cup Reads \cup {"udpfs_read"}
    BY DEF udpfs_device_ops, Closes, Writes, Reads
  <2>2. t = 1 /\ left.as = "ioman" /\ c \in Asked /\ fd \in Fds
    BY <2>1, ExchangeFacts, CallOf
  <2> QED BY <2>1, <2>2, ExchangeFacts, CallFields
<1>2. /\ Allowed(c) /\ Matches(g_fds, Come(c)) /\ Serve(m) /\ due = Due(due.old, c)
      /\ UNCHANGED <<g_fds, call, left, due, read_only>> /\ at[1] = "send" /\ Busy(1)
      /\ due.old \in [Fds -> OpenFiles]
      /\ at' = [at EXCEPT ![1] = IF MoreChunks(c) THEN "send" ELSE "wait"]
  BY <1>1, ExchangeFacts DEF Sends
<1>3. g_fds \in [Fds -> Numbers] /\ g_fds \in [Fds -> Int] /\ H \in Int /\ H > 0
  <2>1. g_fds \in [Fds -> Numbers]
    BY DEF IInv, ClientTypes
  <2>2. H >= 0
    BY <1>2, <1>1 DEF Allowed
  <2> QED BY <2>1, <2>2, <1>1
<1>4. Matches(g_fds, due.old)
  <2>1. c.op # "udpfs_read"
    BY <1>1 DEF Closes
  <2> QED BY <2>1, <1>2 DEF Come
<1>5. H \in DOMAIN handles
  BY <1>1, <1>3, <1>4 DEF Matches, IsOpen
<1>6. m.op = "close" /\ m.handle = H
  <2>1. Handle(c) = H
    BY <1>1, HandleOf
  <2>2. m = udpfs_core_close(c)
    BY <1>1, MessageOf
  <2> QED BY <2>1, <2>2 DEF udpfs_core_close
<1>7. _handle_close(m)
  BY <1>2, <1>6, Dispatch
<1> HIDE DEF m
<1>8. /\ handles' = [h \in DOMAIN handles \ {H} |-> handles[h]]
      /\ reply' = [type |-> "CLOSE_REPLY", result |-> 0, data |-> <<>>]
      /\ serving' = TRUE /\ UNCHANGED <<tree, data, next_handle, write>>
  BY <1>3, <1>5, <1>6, <1>7
  DEF _handle_close, _free_handle, _send_close_reply, Reply, ServesOn, UnchangedFiles
<1>9. /\ DOMAIN handles' = DOMAIN handles \ {H}
      /\ \A h \in DOMAIN handles : h # H => handles'[h] = handles[h]
  BY <1>8
<1>10. ~MoreChunks(c) /\ at'[1] = "wait" /\ WriteInv' /\ ~Sends(t)'
  BY <1>1, NoMore
<1>11. ServerTypes' /\ TreeInv'
  <2>1. \A p : Kind(p)' = Kind(p)
    BY <1>8 DEF Kind
  <2>2. reply' \in [type : {reply'.type}, result : Int, data : {reply'.data}]
    BY <1>8
  <2>3. DOMAIN handles' \subseteq Nat /\ handles' \in [DOMAIN handles' -> Tables]
    BY <1>8, <1>9 DEF IInv, ServerTypes
  <2> QED BY <1>2, <1>8, <2>1, <2>2, <2>3 DEF IInv, ServerTypes, TreeInv
<1>12. TableInv'
  BY <1>3, <1>8, <1>9 DEF IInv, TableInv
<1>13. NoWriteInv'
  BY <1>8, <1>9, NoWriteStays
<1>14. ASSUME NEW h, h # H, NEW f, IsOpen(h, f) PROVE IsOpen(h, f)'
  BY <1>9, <1>14 DEF IsOpen
<1> DEFINE table == [g_fds EXCEPT ![fd] = -1]
<1>15. \A k \in Fds : table[k] = IF k = fd THEN -1 ELSE g_fds[k] BY <1>3
<1>16. \A k \in Fds : k # fd /\ g_fds[k] >= 0 => g_fds[k] # H
  BY <1>1, <1>3, <1>4 DEF Matches
<1>17. OpenInv'
  <2>1. Table = table /\ Table' = table BY <1>2, <1>10, <1>1 DEF Table, Busy
  <2>2. AreOpen(table, due.files) /\ AreOpen(table, due.old)
    BY <1>1, <1>2, <2>1 DEF IInv, OpenInv
  <2> HIDE DEF table
  <2>3. ASSUME NEW a, a = table, NEW files, AreOpen(a, files) PROVE AreOpen(a, files)'
    <3>1. ASSUME NEW k \in Fds, a[k] >= 0 PROVE IsOpen(a[k], files[k])'
      <4>1. IsOpen(a[k], files[k]) BY <2>3, <3>1 DEF AreOpen
      <4>2. a[k] # H BY <1>3, <1>15, <1>16, <2>3, <3>1
      <4> QED BY <4>1, <4>2, <1>14
    <3> QED BY <3>1 DEF AreOpen
  <2>4. AreOpen(Table, due.files)' /\ AreOpen(Table, due.old)'
    BY <1>2, <2>1, <2>2, <2>3
  <2> QED BY <1>1, <1>2, <2>4 DEF IInv, OpenInv
<1>18. Answered(c)'
  <2>1. AfterTable(c)' = table /\ AfterFiles(c)' = due.files
        /\ due.files = [due.old EXCEPT ![fd] = Closed]
    <3>1. c.op \in Closes /\ c.op \notin Opens \cup {"udpfs_read"}
      BY <1>1 DEF Closes, Opens
    <3>2. AfterTable(c)' = table BY <3>1, <1>2 DEF AfterTable
    <3>3. reply'.result = 0 BY <1>8
    <3>4. AfterFiles(c)' = due.files BY <3>1, <3>3, <1>2 DEF AfterFiles
    <3> QED BY <3>1, <3>2, <3>4, <1>2, DueClose
  <2>2. ASSUME NEW a, a = table, NEW e, e = due.files PROVE Matches(a, e)'
    <3>1. ASSUME NEW k \in Fds
          PROVE  IF a[k] < 0 THEN e[k] = Closed
                 ELSE a[k] # 0 /\ IsOpen(a[k], e[k])' /\ SamePlace(a[k], e[k])'
      <4>1. CASE k = fd
        BY <1>1, <1>2, <1>15, <2>1, <2>2, <4>1
      <4>2. CASE k # fd
        <5>1. a[k] = g_fds[k] /\ e[k] = due.old[k]
          BY <1>2, <1>15, <2>1, <2>2, <4>2
        <5>2. IF g_fds[k] < 0 THEN due.old[k] = Closed
              ELSE g_fds[k] # 0 /\ IsOpen(g_fds[k], due.old[k]) /\ SamePlace(g_fds[k], due.old[k])
          BY <1>4 DEF Matches
        <5>3. g_fds[k] >= 0 => g_fds[k] # H /\ g_fds[k] \in DOMAIN handles
          BY <1>3, <1>16, <4>2, <5>2 DEF IsOpen
        <5>4. g_fds[k] >= 0 => handles'[g_fds[k]] = handles[g_fds[k]] /\ g_fds[k] \in DOMAIN handles'
          BY <1>9, <5>3
        <5> QED BY <1>3, <5>1, <5>2, <5>4 DEF IsOpen, SamePlace
      <4> QED BY <4>1, <4>2
    <3>2. ASSUME NEW h \in DOMAIN handles', h >= left'.since PROVE \E k \in Fds : a[k] = h
      <4>1. h \in DOMAIN handles /\ h # H BY <1>9, <3>2
      <4>2. PICK k \in Fds : g_fds[k] = h
        BY <1>2, <1>4, <3>2, <4>1 DEF Matches
      <4> QED BY <4>1, <4>2, <1>15, <2>2
    <3>3. \A i, j \in Fds : a[i] >= 0 /\ a[i] = a[j] => i = j
      BY <1>4, <1>15, <2>2, <1>3 DEF Matches
    <3> QED BY <3>1, <3>2, <3>3 DEF Matches
  <2>3. reply'.result >= 0 /\ c.op # "udpfs_read" BY <1>1, <1>8
  <2> QED BY <1>2, <2>1, <2>2, <2>3 DEF Answered
<1>19. left.as = "ioman" => /\ call[1].op = "udpfs_read" => data' = data
                           /\ ~MoreChunks(call[1]) /\ Answered(call[1])'
  BY <1>10, <1>18, <1>8
<1>20. IInv' BY <1>1, <1>10, <1>11, <1>12, <1>13, <1>17, <1>19, ExchangeKeeps
<1> QED BY <1>20, <1>8

\* A file that is open has contents, and a place for a sector of it.
LEMMA PlaceOfSector ==
    ASSUME ServerTypes, NEW H \in DOMAIN handles, handles[H].kind # "dir", NEW k \in Nat
    PROVE  /\ Content(handles[H]) \in Seq(Int) /\ Len(Content(handles[H])) \in Nat
           /\ k * SectorUnits \in Nat
           /\ SeekTo(handles[H], k * SectorUnits) \in Nat
           /\ handles[H].ino \in Inodes /\ handles[H].kind \in {"file", "alias"}
           /\ handles[H].pos \in Nat
<1>1. handles[H] \in [kind : {"file", "alias"}, ino : Inodes, pos : Nat, mode : Modes,
                      entries : {<<>>}]
  BY DEF ServerTypes, Tables
<1>2. Content(handles[H]) \in Seq(Int)
  BY <1>1, FilesAssumption DEF Content, ServerTypes
<1>3. Len(Content(handles[H])) \in Nat BY <1>2, LenProperties
<1>4. k * SectorUnits \in Nat
  <2>1. ASSUME NEW a \in Nat, NEW b \in Nat PROVE a * b \in Nat
    BY SMTT(30)
  <2> QED BY <2>1, FilesAssumption
<1>5. ASSUME NEW n \in Nat PROVE SeekTo(handles[H], n) \in Nat
  BY <1>3, <1>5 DEF SeekTo, Larger, Smaller
<1> QED BY <1>1, <1>2, <1>3, <1>4, <1>5

LEMMA BreadExchange ==
    ASSUME IInv, NEW t \in Threads, Exchange(t), call[t].op \in Reads
    PROVE  IInv' /\ UNCHANGED <<tree, data>>
<1> DEFINE c == call[t]
           H == Handle(c)
           m == Message(c)
           k == c.sector + done
           n == Smaller(c.count - done, MaxSectorRead)
<1>1. /\ c.op \in FhiCalls \cup BdCalls /\ c.op \notin Writes \cup {"udpfs_bd_init"}
      /\ c \in Asked /\ left.as # "ioman" /\ Busy(t) /\ Serve(m) /\ done \in Nat
      /\ ~MoreChunks(c)
  <2>1. c.op \in FhiCalls \cup BdCalls /\ c.op \notin Writes \cup udpfs_device_ops \cup {"udpfs_bd_init"}
    BY DEF Reads, FhiCalls, BdCalls, Writes, udpfs_device_ops, Opens, Closes, OnNames, OnFiles
  <2> QED BY <2>1, ExchangeFacts, CallOf DEF MoreChunks
<1>2. c.sector \in Nat /\ c.count \in Nat /\ done < c.count
  BY <1>1, CallFields DEF IInv, CallsInv
<1>3. m.op = "bread" /\ m.handle = H /\ m.sector = k /\ m.count = n
  <2>1. m = udpfs_core_bread(c) BY <1>1, MessageOf
  <2> HIDE DEF m
  <2> QED BY <2>1 DEF udpfs_core_bread
<1>4. _handle_bread(m) BY <1>1, <1>3, Dispatch
<1> HIDE DEF m, H
<1>5. k \in Nat /\ n \in Nat BY <1>1, <1>2, InputsAssumption DEF Smaller
<1> HIDE DEF k, n
<1>6. CASE ~IsFile(H)
  <2>1. /\ reply' = [type |-> "RESULT_REPLY", result |-> EBADF, data |-> <<>>] /\ serving' = TRUE
        /\ UNCHANGED <<tree, data, handles, next_handle, write>>
    BY <1>3, <1>4, <1>6
    DEF _handle_bread, _send_read_result, Reply, ServesOn, UnchangedFiles, UnchangedHandles
  <2>2. reply' \in [type : {reply'.type}, result : Int, data : {reply'.data}]
    BY <2>1 DEF EBADF
  <2>3. HandlesKept /\ DOMAIN handles' \subseteq Nat /\ handles' \in [DOMAIN handles' -> Tables]
    BY <2>1 DEF HandlesKept, IInv, ServerTypes
  <2> QED BY <1>1, <2>1, <2>2, <2>3, QuietKeeps
<1>7. CASE IsFile(H) /\ ~Readable(handles[H])
  <2>1. Ends BY <1>3, <1>4, <1>7 DEF _handle_bread
  <2> QED BY <1>1, <2>1, EndsKeeps
<1>8. CASE IsFile(H) /\ Readable(handles[H])
  <2>1. H \in DOMAIN handles /\ handles[H].kind # "dir" BY <1>8 DEF IsFile
  <2> DEFINE h == handles[H]
             from == SeekTo(h, k * SectorUnits)
             bytes == ReadAt(Content(h), from, n * SectorUnits)
             p == from + Len(bytes)
  <2>2. /\ handles' = [handles EXCEPT ![H].pos = p]
        /\ reply' = [type |-> "RESULT_REPLY", result |-> Len(bytes), data |-> bytes]
        /\ serving' = TRUE /\ UNCHANGED <<tree, data, next_handle, write>>
    BY <1>3, <1>4, <1>8 DEF _handle_bread, _send_read_result, Reply, ServesOn, UnchangedFiles
  <2>3. from \in Nat /\ Content(h) \in Seq(Int)
    BY <1>5, <2>1, PlaceOfSector DEF IInv
  <2>4. n * SectorUnits \in Nat BY <1>5, <2>1, PlaceOfSector DEF IInv
  <2>5. Len(bytes) \in Nat
    <3>1. ASSUME NEW a \in Seq(Int), NEW b \in Nat, NEW e \in Nat PROVE Len(ReadAt(a, b, e)) \in Nat
      BY <3>1, ReadLength
    <3> QED BY <2>3, <2>4, <3>1
  <2>6. p \in Nat BY <2>3, <2>5
  <2>7. reply' \in [type : {reply'.type}, result : Int, data : {reply'.data}]
    BY <2>2, <2>5
  <2> HIDE DEF p
  <2>8. HandlesKept /\ DOMAIN handles' \subseteq Nat /\ handles' \in [DOMAIN handles' -> Tables]
    BY <2>1, <2>2, <2>6, PlaceChanged DEF IInv
  <2> QED BY <1>1, <2>2, <2>7, <2>8, QuietKeeps
<1> QED BY <1>6, <1>7, <1>8

\* What a call writes to, and the message it sends.
LEMMA WriteFacts ==
    ASSUME IInv, NEW t \in Threads, Exchange(t), call[t].op \in Writes
    PROVE  /\ call[t] \in Asked /\ call[t] # BdInit /\ call[t].fd \in Fds
           /\ call[t].data \in Seq(Int) /\ Len(call[t].data) \in Nat
           /\ call[t].op = "udpfs_write" => call[t].size = Len(call[t].data)
           /\ call[t].op # "udpfs_write" =>
                /\ call[t].sector \in Nat /\ call[t].count \in Nat
                /\ Len(call[t].data) = call[t].count * SectorUnits
           /\ Message(call[t]) = WriteMessage(call[t])
           /\ call[t].op \notin Reads \cup {"udpfs_read", "udpfs_bd_init"} \cup Closes \cup Opens
           /\ \/ call[t].op = "udpfs_write" /\ left.as = "ioman" /\ t = 1
              \/ call[t].op = "fhi_write" /\ left.as = "fhi"
              \/ call[t].op = "udpfs_bd_write" /\ left.as = "bd" /\ BlockDevice # 0
           /\ due = Due(due.old, call[t])
           /\ done' = done + 1 /\ done \in Nat
           /\ at[t] = "send" /\ link = "up" /\ serving /\ Busy(t) /\ Serve(Message(call[t]))
           /\ UNCHANGED <<link, g_fds, fhi, call, left, due, read_only>>
           /\ at' = [at EXCEPT ![t] = IF MoreChunks(call[t]) THEN "send" ELSE "wait"]
           /\ at'[t] = IF MoreChunks(call[t]) THEN "send" ELSE "wait"
           /\ \A u \in Threads : u # t => at'[u] # "send"
           /\ MoreChunks(call[t]) <=> done + 1 < total_chunks(call[t])
           /\ total_chunks(call[t]) \in Int
           /\ done = 0 => reply = NoReply
           /\ done > 0 =>
                /\ done < total_chunks(call[t])
                /\ IF reply = NoReply THEN write = Collected(call[t]) ELSE write = NoWrite
           /\ due.old \in [Fds -> OpenFiles]
<1> DEFINE c == call[t]
<1>1. /\ c.op \in udpfs_device_ops \cup FhiCalls \cup BdCalls /\ c.op # "udpfs_bd_init"
      /\ c.op \in {"udpfs_write", "fhi_write", "udpfs_bd_write"}
      /\ c.op \notin Reads \cup {"udpfs_read", "udpfs_bd_init"} \cup Closes \cup Opens
      /\ c.op \in Closes \cup OnFiles \cup FhiCalls \cup BdCalls
  BY DEF Writes, Reads, Closes, Opens, udpfs_device_ops, OnFiles, FhiCalls, BdCalls
<1>2. /\ c \in Asked /\ c # BdInit /\ Message(c) = WriteMessage(c)
  BY <1>1, ExchangeFacts, MessageOf
<1>3. /\ c.data \in Seq(Int) /\ c.fd \in Fds
      /\ c.op = "udpfs_write" => c.size = Len(c.data)
      /\ c.op # "udpfs_write" =>
           c.sector \in Nat /\ c.count \in Nat /\ Len(c.data) = c.count * SectorUnits
  BY <1>1, <1>2, CallFields DEF FhiCalls, BdCalls
<1>4. Len(c.data) \in Nat BY <1>3, LenProperties
<1>5. /\ done' = done + 1 /\ done \in Nat
      /\ at[t] = "send" /\ link = "up" /\ serving /\ Busy(t) /\ Serve(Message(c))
      /\ UNCHANGED <<link, g_fds, fhi, call, left, due, read_only>>
      /\ at' = [at EXCEPT ![t] = IF MoreChunks(c) THEN "send" ELSE "wait"]
      /\ due.old \in [Fds -> OpenFiles]
  BY ExchangeFacts
<1>6. due = Due(due.old, c) BY <1>2, <1>5, ExchangeFacts DEF Sends
<1>7. at \in [Threads -> {"idle", "lock", "send", "wait"}] /\ \A u \in Threads : u # t => ~Busy(u)
  BY <1>5, CallOf DEF IInv, ClientTypes
<1>8. /\ at'[t] = IF MoreChunks(c) THEN "send" ELSE "wait"
      /\ \A u \in Threads : u # t => at'[u] # "send"
  BY <1>5, <1>7 DEF Busy
<1>9. total_chunks(c) \in Int /\ (MoreChunks(c) <=> done + 1 < total_chunks(c))
  <2>1. ASSUME NEW a \in Nat, NEW k \in Nat \ {0} PROVE a \div k \in Int
    BY SMTT(30)
  <2>2. Len(c.data) + ChunkUnits - 1 \in Nat BY <1>4, InputsAssumption
  <2> QED BY <2>1, <2>2, InputsAssumption DEF total_chunks, MoreChunks
<1>10. /\ done = 0 => reply = NoReply
       /\ done > 0 =>
            /\ done < total_chunks(c)
            /\ IF reply = NoReply THEN write = Collected(c) ELSE write = NoWrite
  BY <1>2, <1>5 DEF IInv, WriteInv
<1>11. \/ c.op = "udpfs_write" /\ left.as = "ioman" /\ t = 1
       \/ c.op = "fhi_write" /\ left.as = "fhi"
       \/ c.op = "udpfs_bd_write" /\ left.as = "bd" /\ BlockDevice # 0
  <2>1. c.op = "udpfs_write" => c.op \in udpfs_device_ops
    BY DEF udpfs_device_ops, OnFiles
  <2>2. c.op = "fhi_write" => c.op \in FhiCalls BY DEF FhiCalls
  <2>3. c.op = "udpfs_bd_write" => c.op \in BdCalls /\ c.op \notin FhiCalls \cup udpfs_device_ops
    BY DEF FhiCalls, BdCalls, udpfs_device_ops, Opens, Closes, OnNames, OnFiles
  <2> QED BY <1>1, <1>5, <2>1, <2>2, <2>3, CallOf
<1> QED BY <1>1, <1>2, <1>3, <1>4, <1>5, <1>6, <1>8, <1>9, <1>10, <1>11

\* The file a call writes to is open, unless the server was started anew.
LEMMA WriteOpen ==
    ASSUME IInv, NEW t \in Threads, Exchange(t), call[t].op \in Writes, ~left.pc
    PROVE  /\ IsFile(Handle(call[t])) /\ Handle(call[t]) \in Int
           /\ handles[Handle(call[t])].ino =
                IF call[t].op = "udpfs_bd_write" THEN BlockDevice ELSE due.old[call[t].fd].ino
           /\ call[t].op # "udpfs_bd_write" =>
                /\ due.old[call[t].fd] \in OpenFiles
                /\ due.old[call[t].fd].kind = handles[Handle(call[t])].kind
           /\ call[t].op = "udpfs_write" =>
                /\ Matches(g_fds, due.old) /\ Handle(call[t]) = g_fds[call[t].fd]
                /\ g_fds[call[t].fd] >= 0 /\ g_fds \in [Fds -> Int]
                /\ handles[Handle(call[t])].pos = due.old[call[t].fd].pos
                /\ due.old[call[t].fd].kind = "file" =>
                     (handles[Handle(call[t])].mode \in {"ab", "a+b"}
                        <=> "APPEND" \in due.old[call[t].fd].can)
           /\ left.as = "ioman" => ~read_only
<1> DEFINE c == call[t]
           f == due.old[c.fd]
<1>1. /\ c \in Asked /\ c.fd \in Fds /\ at[t] = "send" /\ link = "up" /\ Busy(t)
      /\ \/ c.op = "udpfs_write" /\ left.as = "ioman" /\ t = 1
         \/ c.op = "fhi_write" /\ left.as = "fhi"
         \/ c.op = "udpfs_bd_write" /\ left.as = "bd" /\ BlockDevice # 0
      /\ due.old \in [Fds -> OpenFiles]
  BY WriteFacts
<1>2. g_fds \in [Fds -> Int] /\ fhi \in [Fds -> Int] /\ f \in OpenFiles
  BY <1>1 DEF IInv, ClientTypes
<1>3. CASE c.op = "udpfs_write"
  <2>1. Handle(c) = g_fds[c.fd] BY <1>3, HandleOf DEF udpfs_device_ops, OnFiles
  <2>2. Allowed(c) /\ Matches(g_fds, Come(c)) /\ left.as = "ioman"
    BY <1>1, <1>3, ExchangeFacts
  <2>3. Matches(g_fds, due.old) /\ g_fds[c.fd] >= 0 /\ "WR" \in f.can
    BY <1>3, <2>2 DEF Come, Allowed, OnFiles
  <2>4. f.kind \in {"file", "alias"} BY <1>2, <2>3, OpenFileParts
  <2>5. IsOpen(g_fds[c.fd], f) /\ SamePlace(g_fds[c.fd], f)
    BY <1>1, <1>2, <2>3 DEF Matches
  <2>6. /\ g_fds[c.fd] \in DOMAIN handles /\ handles[g_fds[c.fd]].kind = f.kind
        /\ handles[g_fds[c.fd]].ino = f.ino /\ handles[g_fds[c.fd]].pos = f.pos
        /\ f.kind = "file" => (handles[g_fds[c.fd]].mode \in {"ab", "a+b"} <=> "APPEND" \in f.can)
    BY <2>4, <2>5 DEF IsOpen, SamePlace
  <2>7. ~read_only BY <1>1, <2>3 DEF IInv, OpenInv
  <2> QED BY <1>1, <1>2, <1>3, <2>1, <2>3, <2>4, <2>6, <2>7 DEF IsFile
<1>4. CASE c.op = "fhi_write"
  <2>1. Handle(c) = fhi[c.fd] /\ left.as = "fhi"
    BY <1>1, <1>4, HandleOf DEF FhiCalls
  <2>2. fhi[c.fd] >= 0 BY <1>1, <2>1 DEF IInv, CallsInv, Busy
  <2>3. due.old = due.files BY <1>1, <2>1 DEF IInv, OpenInv
  <2>4. IsOpen(fhi[c.fd], f) /\ f.kind # "dir"
    BY <1>1, <1>2, <2>1, <2>2, <2>3 DEF IInv, OpenInv, AreOpen
  <2> QED BY <1>1, <1>2, <1>4, <2>1, <2>4 DEF IsFile, IsOpen
<1>5. CASE c.op = "udpfs_bd_write"
  <2>1. Handle(c) = 0 /\ BlockDevice # 0 /\ left.as = "bd"
    BY <1>1, <1>5, HandleOf DEF BdCalls
  <2> QED BY <1>5, <2>1 DEF IInv, TableInv, IsFile
<1> QED BY <1>1, <1>3, <1>4, <1>5

\* A chunk of a write that was refused.
LEMMA WriteDropped ==
    ASSUME IInv, NEW t \in Threads, Exchange(t), call[t].op \in Writes,
           UNCHANGED <<tree, data, handles, next_handle, write>>, serving' = TRUE,
           reply' \in [type : {reply'.type}, result : Int, data : {reply'.data}],
           reply' # NoReply, write = NoWrite, left.as # "ioman"
    PROVE  IInv' /\ UNCHANGED <<tree, data>>
<1>1. /\ UNCHANGED <<link, g_fds, fhi, call, left, due, read_only>> /\ call[t] # BdInit
      /\ due = Due(due.old, call[t]) /\ done' = done + 1 /\ done \in Nat
      /\ at'[t] = IF MoreChunks(call[t]) THEN "send" ELSE "wait"
      /\ \A u \in Threads : u # t => at'[u] # "send"
      /\ MoreChunks(call[t]) <=> done + 1 < total_chunks(call[t])
  BY WriteFacts
<1>2. ServerTypes' /\ TreeInv' /\ TableInv'
  <2>1. \A p : Kind(p)' = Kind(p) BY DEF Kind
  <2> QED BY <1>1, <2>1 DEF IInv, ServerTypes, TreeInv, TableInv
<1>3. NoWriteInv' BY NoWriteStays
<1>4. OpenInv'
  <2>1. StillOpen BY DEF StillOpen, IsOpen
  <2> QED BY <2>1, OpenStays
<1>5. WriteInv'
  <2> SUFFICES ASSUME NEW u \in Threads, at'[u] = "send"
               PROVE  /\ done' # 0 /\ done' < total_chunks(call[u])'
                      /\ IF reply' = NoReply THEN write' = Collected(call[u])' ELSE write' = NoWrite
    BY DEF WriteInv
  <2>1. u = t /\ MoreChunks(call[t]) BY <1>1
  <2>2. total_chunks(call[u])' = total_chunks(call[t])
    BY <1>1, <2>1 DEF total_chunks
  <2> QED BY <1>1, <2>1, <2>2
<1>6. due = Due(due.old, call[t])'
  <2>1. ASSUME NEW files, NEW c PROVE Due(files, c)' = Due(files, c)
    BY <1>1, DueSame DEF SameTrees
  <2> QED BY <1>1, <2>1
<1>7. IInv' BY <1>1, <1>2, <1>3, <1>4, <1>5, <1>6, ExchangeKeeps
<1> QED BY <1>7

\* The write that the server has after a chunk.
WithChunk(c) ==
    [handle |-> Handle(c), is_block |-> c.op # "udpfs_write",
     sector_nr |-> IF c.op = "udpfs_write" THEN 0 ELSE c.sector,
     sector_count |-> IF c.op = "udpfs_write" THEN 0 ELSE c.count,
     data |-> SubSeq(c.data, 1, done * ChunkUnits) \o Chunk(c, done),
     received_chunks |-> done + 1]

LEMMA ChunkJoined ==
    ASSUME IInv, NEW t \in Threads, Exchange(t), call[t].op \in Writes
    PROVE  /\ WithChunk(call[t]).data \in Seq(Int)
           /\ done + 1 >= total_chunks(call[t]) => WithChunk(call[t]).data = call[t].data
           /\ done + 1 < total_chunks(call[t]) =>
                WithChunk(call[t]).data = SubSeq(call[t].data, 1, (done + 1) * ChunkUnits)
<1> DEFINE c == call[t]
           L == Len(c.data)
           k == done
<1>1. /\ c.data \in Seq(Int) /\ L \in Nat /\ k \in Nat /\ (k > 0 => k < total_chunks(c))
  BY WriteFacts
<1>2. k * ChunkUnits <= L
  <2>1. CASE k = 0
    <3>1. 0 * ChunkUnits = 0 BY InputsAssumption
    <3> QED BY <2>1, <3>1, <1>1
  <2>2. CASE k > 0
    <3>1. k < (L + ChunkUnits - 1) \div ChunkUnits
      BY <1>1, <2>2 DEF total_chunks
    <3> HIDE DEF L, k
    <3>2. k * ChunkUnits < L /\ k * ChunkUnits \in Nat
      BY <3>1, <1>1, ChunkCount, InputsAssumption
    <3> QED BY <3>2, <1>1
  <2> QED BY <1>1, <2>1, <2>2
<1>3. /\ Chunk(c, k) \in Seq(Int)
      /\ k + 1 >= total_chunks(c) => SubSeq(c.data, 1, k * ChunkUnits) \o Chunk(c, k) = c.data
      /\ k + 1 < total_chunks(c) =>
           SubSeq(c.data, 1, k * ChunkUnits) \o Chunk(c, k) = SubSeq(c.data, 1, (k + 1) * ChunkUnits)
  <2> HIDE DEF c, k
  <2> QED BY <1>1, <1>2, ChunksJoin DEF L
<1>4. SubSeq(c.data, 1, k * ChunkUnits) \in Seq(Int)
  <2>1. k * ChunkUnits \in Nat
    <3>1. ASSUME NEW a \in Nat, NEW b \in Nat PROVE a * b \in Nat
      BY SMTT(30)
    <3> QED BY <3>1, <1>1, InputsAssumption
  <2> QED BY <1>1, <1>2, <2>1, SubSeqProperties
<1>5. WithChunk(c).data = SubSeq(c.data, 1, k * ChunkUnits) \o Chunk(c, k)
  BY DEF WithChunk
<1>6. WithChunk(c).data \in Seq(Int) BY <1>3, <1>4, <1>5, ConcatProperties
<1> QED BY <1>3, <1>5, <1>6

\* A chunk in its turn: the write goes on, or is made.
LEMMA ChunkTaken ==
    ASSUME IInv, NEW t \in Threads, Exchange(t), call[t].op \in Writes,
           TakeChunk(Collected(call[t]), Message(call[t]))
    PROVE  IF MoreChunks(call[t])
           THEN /\ write' = WithChunk(call[t]) /\ serving' = TRUE
                /\ UNCHANGED <<tree, data, handles, next_handle, reply>>
           ELSE Complete(WithChunk(call[t]))
<1> DEFINE c == call[t]
           m == Message(c)
           w == Collected(c)
<1>1. /\ m = WriteMessage(c) /\ done \in Nat /\ total_chunks(c) \in Int
      /\ MoreChunks(c) <=> done + 1 < total_chunks(c)
  BY WriteFacts
<1>2. m.chunk_nr = done /\ m.total_chunks = total_chunks(c) /\ m.data = Chunk(c, done)
  <2>1. m = WriteMessage(c) BY <1>1
  <2> HIDE DEF m
  <2> QED BY <2>1 DEF WriteMessage
<1>3. w.received_chunks = done BY DEF Collected
<1>4. [w EXCEPT !.data = @ \o m.data, !.received_chunks = @ + 1] = WithChunk(c)
  <2>1. ASSUME NEW v, v = [w EXCEPT !.data = @ \o m.data, !.received_chunks = @ + 1]
        PROVE  v = WithChunk(c)
    <3> DEFINE e == m.data
    <3>1. e = Chunk(c, done) BY <1>2
    <3>2. v = [w EXCEPT !.data = @ \o e, !.received_chunks = @ + 1] BY <2>1
    <3> HIDE DEF e
    <3> QED BY <3>1, <3>2 DEF Collected, WithChunk
  <2> QED BY <2>1
<1>5. WithChunk(c).received_chunks = done + 1 BY DEF WithChunk
<1>6. InTurn(w, m) BY <1>2, <1>3 DEF InTurn
<1> HIDE DEF m, w
<1>7. IF WithChunk(c).received_chunks >= m.total_chunks THEN Complete(WithChunk(c))
      ELSE Acked /\ ServesOn /\ write' = WithChunk(c) /\ UnchangedFiles /\ UnchangedHandles
  BY <1>4, <1>6 DEF TakeChunk, w, m
<1>8. WithChunk(c).received_chunks >= m.total_chunks <=> ~MoreChunks(c)
  BY <1>1, <1>2, <1>5
<1> QED BY <1>7, <1>8 DEF Acked, ServesOn, UnchangedFiles, UnchangedHandles

\* A chunk that is not the last.
LEMMA MoreSent ==
    ASSUME IInv, NEW t \in Threads, Exchange(t), call[t].op \in Writes, MoreChunks(call[t]),
           write' = WithChunk(call[t]), serving' = TRUE,
           UNCHANGED <<tree, data, handles, next_handle, reply>>,
           ~read_only, ~left.pc, reply = NoReply
    PROVE  IInv' /\ UNCHANGED <<tree, data>>
<1> DEFINE c == call[t]
<1>1. /\ UNCHANGED <<link, g_fds, fhi, call, left, due, read_only>> /\ c # BdInit
      /\ due = Due(due.old, c) /\ done' = done + 1 /\ done \in Nat
      /\ at'[t] = IF MoreChunks(c) THEN "send" ELSE "wait"
      /\ \A u \in Threads : u # t => at'[u] # "send"
      /\ MoreChunks(c) <=> done + 1 < total_chunks(c)
      /\ c.op # "udpfs_write" => c.sector \in Nat /\ c.count \in Nat
      /\ c.op # "udpfs_read"
      /\ left.as = "ioman" => c.op = "udpfs_write" /\ t = 1
  BY WriteFacts
<1>2. /\ WithChunk(c).data \in Seq(Int)
      /\ WithChunk(c).data = SubSeq(c.data, 1, (done + 1) * ChunkUnits)
  BY <1>1, ChunkJoined
<1>3. Handle(c) \in Int BY WriteOpen
<1>4. write' \in [handle : Int, is_block : BOOLEAN, sector_nr : Nat, sector_count : Nat,
                  data : Seq(Int), received_chunks : Nat]
  BY <1>1, <1>2, <1>3 DEF WithChunk
<1>5. ServerTypes' /\ TreeInv' /\ TableInv'
  <2>1. \A p : Kind(p)' = Kind(p) BY DEF Kind
  <2> QED BY <1>1, <1>4, <2>1 DEF IInv, ServerTypes, TreeInv, TableInv
<1>6. NoWriteInv' BY <1>1 DEF NoWriteInv
<1>7. OpenInv'
  <2>1. StillOpen BY DEF StillOpen, IsOpen
  <2> QED BY <2>1, OpenStays
<1>8. write' = Collected(c)'
  <2>1. Handle(c)' = Handle(c) BY <1>1 DEF Handle
  <2>2. Collected(c)' =
          [handle |-> Handle(c), is_block |-> c.op # "udpfs_write",
           sector_nr |-> IF c.op = "udpfs_write" THEN 0 ELSE c.sector,
           sector_count |-> IF c.op = "udpfs_write" THEN 0 ELSE c.count,
           data |-> SubSeq(c.data, 1, (done + 1) * ChunkUnits), received_chunks |-> done + 1]
    BY <1>1, <2>1 DEF Collected
  <2>3. WithChunk(c) =
          [handle |-> Handle(c), is_block |-> c.op # "udpfs_write",
           sector_nr |-> IF c.op = "udpfs_write" THEN 0 ELSE c.sector,
           sector_count |-> IF c.op = "udpfs_write" THEN 0 ELSE c.count,
           data |-> WithChunk(c).data, received_chunks |-> done + 1]
    BY DEF WithChunk
  <2> QED BY <1>2, <2>2, <2>3
<1>9. WriteInv'
  <2> SUFFICES ASSUME NEW u \in Threads, at'[u] = "send"
               PROVE  /\ done' # 0 /\ done' < total_chunks(call[u])'
                      /\ IF reply' = NoReply THEN write' = Collected(call[u])' ELSE write' = NoWrite
    BY DEF WriteInv
  <2>1. u = t BY <1>1
  <2>2. total_chunks(call[u])' = total_chunks(c) BY <1>1, <2>1 DEF total_chunks
  <2> QED BY <1>1, <1>8, <2>1, <2>2
<1>10. due = Due(due.old, c)'
  <2>1. ASSUME NEW files, NEW k PROVE Due(files, k)' = Due(files, k)
    BY <1>1, DueSame DEF SameTrees
  <2> QED BY <1>1, <2>1
<1>11. left.as = "ioman" => /\ call[1].op # "udpfs_read" /\ reply' = NoReply
                            /\ Matches(g_fds, Come(call[1]))'
  <2> SUFFICES ASSUME left.as = "ioman"
               PROVE  call[1].op # "udpfs_read" /\ reply' = NoReply /\ Matches(g_fds, Come(call[1]))'
    OBVIOUS
  <2>1. call[1].op # "udpfs_read" /\ reply' = NoReply BY <1>1
  <2>2. Come(call[1]) = due.old /\ Come(call[1])' = due.old
    BY <1>1, <2>1 DEF Come
  <2>3. Matches(g_fds, due.old) BY <2>2, ExchangeFacts
  <2>4. ASSUME NEW table, NEW files, Matches(table, files) PROVE Matches(table, files)'
    BY <1>1, <2>4, MatchesStay
  <2>5. Matches(g_fds, Come(call[1]))' BY <1>1, <2>2, <2>3, <2>4
  <2> QED BY <2>1, <2>5
<1>12. left.as = "ioman" => MoreChunks(call[1]) BY <1>1
<1>13. IInv' BY <1>1, <1>5, <1>6, <1>7, <1>9, <1>10, <1>11, <1>12, ExchangeKeeps
<1> QED BY <1>13

\* A write that is complete: its place, its bytes and its file, and what is
\* due of it.
WriteOf(c, from, new, ino) ==
    /\ from = WriteAt(WithChunk(c), handles[Handle(c)])
    /\ new = WriteData(WithChunk(c)) /\ ino = handles[Handle(c)].ino
IsDue(c, from, new, ino) ==
    /\ from \in Nat /\ new \in Seq(Int) /\ Len(new) \in Nat /\ ino \in Inodes
    /\ due.data = [data EXCEPT ![ino] = WrittenAt(data[ino], from, new)] /\ due.tree = tree
    /\ c.op = "udpfs_write" =>
         new = c.data /\ due.files = [due.old EXCEPT ![c.fd].pos = from + Len(new)]

\* Where the server writes what it has collected is where the call says.
LEMMA WritesDue ==
    ASSUME IInv, NEW t \in Threads, Exchange(t), call[t].op \in Writes, ~MoreChunks(call[t]),
           ~read_only, ~left.pc, handles[Handle(call[t])].kind = "file",
           NEW from, NEW new, NEW ino, WriteOf(call[t], from, new, ino)
    PROVE  IsDue(call[t], from, new, ino)
<1> DEFINE c == call[t]
           H == Handle(c)
           v == WithChunk(c)
           f == due.old[c.fd]
<1>0. from = WriteAt(v, handles[H]) /\ new = WriteData(v) /\ ino = handles[H].ino
  BY DEF WriteOf
<1>1. /\ c.data \in Seq(Int) /\ Len(c.data) \in Nat /\ due = Due(due.old, c)
      /\ c.op = "udpfs_write" => c.size = Len(c.data)
      /\ c.op # "udpfs_write" =>
           /\ c.sector \in Nat /\ c.count \in Nat /\ Len(c.data) = c.count * SectorUnits
      /\ c.op \notin Reads /\ c.op \in {"udpfs_write", "fhi_write", "udpfs_bd_write"}
      /\ done + 1 >= total_chunks(c)
  <2>1. MoreChunks(c) <=> done + 1 < total_chunks(c) BY WriteFacts
  <2>2. total_chunks(c) \in Int /\ done \in Nat BY WriteFacts
  <2>3. done + 1 >= total_chunks(c) BY <2>1, <2>2
  <2> QED BY <2>3, WriteFacts
<1>2. v.data = c.data BY <1>1, ChunkJoined
<1>3. /\ IsFile(H)
      /\ handles[H].ino = IF c.op = "udpfs_bd_write" THEN BlockDevice ELSE f.ino
      /\ c.op # "udpfs_bd_write" => f.kind = "file"
      /\ c.op = "udpfs_write" =>
           /\ handles[H].pos = f.pos
           /\ handles[H].mode \in {"ab", "a+b"} <=> "APPEND" \in f.can
  BY WriteOpen
<1>4. /\ handles[H].ino \in Inodes /\ handles[H].pos \in Nat
      /\ \A k \in Nat : k * SectorUnits \in Nat
  BY <1>3, PlaceOfSector DEF IInv, IsFile
<1>5. /\ v.is_block <=> c.op # "udpfs_write"
      /\ c.op # "udpfs_write" => v.sector_nr = c.sector /\ v.sector_count = c.count
  BY DEF WithChunk
<1>6. data[ino] \in Seq(Int) /\ Len(data[ino]) \in Nat
  BY <1>0, <1>4, LenProperties, SMTT(30) DEF IInv, ServerTypes
<1> HIDE DEF v, H
<1>7. CASE c.op = "udpfs_write"
  <2>1. from = WriteFrom(f) /\ new = c.data
    BY <1>0, <1>2, <1>3, <1>5, <1>7 DEF WriteAt, WriteData, WriteFrom
  <2>2. from \in Nat BY <1>0, <1>3, <1>4, <1>5, <1>6, <1>7 DEF WriteAt
  <2>3. /\ Due(due.old, c).tree = tree
        /\ Due(due.old, c).data = [data EXCEPT ![f.ino] = WrittenAt(data[f.ino], WriteFrom(f), c.data)]
        /\ Due(due.old, c).files = [due.old EXCEPT ![c.fd].pos = WriteFrom(f) + c.size]
    BY <1>7, DueWrite
  <2>4. ino = f.ino BY <1>0, <1>3, <1>7
  <2>5. due.data = [data EXCEPT ![ino] = WrittenAt(data[ino], from, new)] /\ due.tree = tree
    BY <1>1, <2>1, <2>3, <2>4
  <2>6. due.files = [due.old EXCEPT ![c.fd].pos = from + Len(new)]
    BY <1>1, <1>7, <2>1, <2>3
  <2>7. new \in Seq(Int) /\ Len(new) \in Nat /\ ino \in Inodes
    BY <1>0, <1>1, <1>4, <2>1
  <2> QED BY <1>7, <2>1, <2>2, <2>5, <2>6, <2>7 DEF IsDue
<1>8. CASE c.op # "udpfs_write"
  <2>1. from = c.sector * SectorUnits
    BY <1>0, <1>3, <1>5, <1>8 DEF WriteAt, SeekTo, H
  <2>2. new = SubSeq(c.data, 1, c.count * SectorUnits)
    <3>1. new = SubSeq(c.data, 1, Smaller(Len(c.data), c.count * SectorUnits))
      BY <1>0, <1>2, <1>5, <1>8 DEF WriteData
    <3> QED BY <3>1, <1>1, <1>8 DEF Smaller
  <2>3. from \in Nat BY <1>1, <1>4, <1>8, <2>1
  <2>4. new \in Seq(Int) /\ Len(new) \in Nat
    <3>1. new = c.data
      <4>1. SubSeq(c.data, 1, Len(c.data)) = c.data BY <1>1, SubSeqFull
      <4> QED BY <4>1, <1>1, <1>8, <2>2
    <3> QED BY <3>1, <1>1
  <2>5. c.op \in FhiCalls \cup BdCalls /\ (c.op \in FhiCalls <=> c.op # "udpfs_bd_write")
    BY <1>1, <1>8 DEF FhiCalls, BdCalls
  <2>6. ino = IF c.op \in FhiCalls THEN f.ino ELSE BlockDevice
    BY <1>0, <1>3, <2>5
  <2>7. data[ino] = IF c.op \in FhiCalls THEN Bytes(f) ELSE data[BlockDevice]
    BY <1>3, <2>5, <2>6 DEF Bytes
  <2>8. /\ Due(due.old, c).tree = tree
        /\ Due(due.old, c).data = [data EXCEPT ![ino] = WrittenAt(data[ino], from, new)]
    <3> DEFINE content == data[ino]
    <3> HIDE DEF content
    <3>1. /\ Due(due.old, c).tree = tree
          /\ Due(due.old, c).data = [data EXCEPT ![ino] = WrittenAt(content, c.sector * SectorUnits,
                                                            SubSeq(c.data, 1, c.count * SectorUnits))]
      <4>1. content = IF c.op \in FhiCalls THEN Bytes(f) ELSE data[BlockDevice]
        BY <2>7 DEF content
      <4> QED BY <4>1, <1>1, <2>5, <2>6, DueSectors
    <3> QED BY <3>1, <2>1, <2>2 DEF content
  <2> QED BY <1>0, <1>1, <1>4, <1>8, <2>3, <2>4, <2>8 DEF IsDue
<1> QED BY <1>7, <1>8

\* The last chunk: the write is made, whole.
LEMMA Completed ==
    ASSUME IInv, NEW t \in Threads, Exchange(t), call[t].op \in Writes, ~MoreChunks(call[t]),
           Complete(WithChunk(call[t])), ~read_only, ~left.pc, reply = NoReply
    PROVE  /\ IInv'
           /\ <<tree, data>>' # <<tree, data>> => <<tree, data>>' = <<due.tree, due.data>>
<1> DEFINE c == call[t]
           H == Handle(c)
           w == WithChunk(c)
<1>1. /\ IsFile(H) /\ H \in Int /\ w.handle = H
      /\ c.op = "udpfs_write" =>
           /\ Matches(g_fds, due.old) /\ H = g_fds[c.fd]
           /\ g_fds[c.fd] >= 0 /\ g_fds \in [Fds -> Int]
           /\ due.old[c.fd] \in OpenFiles /\ due.old[c.fd].kind = handles[H].kind
  BY WriteOpen DEF WithChunk
<1>2. /\ UNCHANGED <<link, g_fds, fhi, call, left, due, read_only>> /\ c # BdInit
      /\ c.op # "udpfs_bd_init" /\ c.op \notin Reads \cup {"udpfs_read"} \cup Closes \cup Opens
      /\ at'[t] = "wait" /\ (\A u \in Threads : u # t => at'[u] # "send")
      /\ due.old \in [Fds -> OpenFiles] /\ c.fd \in Fds
      /\ (left.as = "ioman" => c.op = "udpfs_write" /\ t = 1)
      /\ (w.is_block <=> c.op # "udpfs_write")
  BY WriteFacts DEF WithChunk
<1> HIDE DEF w
<1>3. CASE ~Writable(handles[H])
  <2>1. Ends BY <1>1, <1>3 DEF Complete, w
  <2>2. IInv' /\ UNCHANGED <<tree, data>> BY <1>2, <2>1, EndsKeeps
  <2> QED BY <2>2
<1>4. CASE Writable(handles[H])
  <2> DEFINE from == WriteAt(w, handles[H])
             new == WriteData(w)
             ino == handles[H].ino
  <2>1. H \in DOMAIN handles /\ handles[H].kind = "file" /\ handles[H].kind # "dir"
    BY <1>1, <1>4 DEF IsFile, Writable
  <2>2. /\ from \in Nat /\ new \in Seq(Int) /\ Len(new) \in Nat /\ ino \in Inodes
        /\ due.data = [data EXCEPT ![ino] = WrittenAt(data[ino], from, new)] /\ due.tree = tree
        /\ c.op = "udpfs_write" => due.files = [due.old EXCEPT ![c.fd].pos = from + Len(new)]
    <3>1. WriteOf(c, from, new, ino) BY DEF WriteOf, w
    <3> HIDE DEF from, new, ino, w
    <3>2. IsDue(c, from, new, ino) BY <2>1, <3>1, WritesDue
    <3> QED BY <3>2 DEF IsDue
  <2>3. /\ data' = [data EXCEPT ![ino] = WrittenAt(data[ino], from, new)]
        /\ handles' = [handles EXCEPT ![H].pos = from + Len(new)]
        /\ reply' = [type |-> "WRITE_DONE", result |-> IF w.is_block THEN 0 ELSE Len(new),
                     data |-> <<>>]
        /\ write' = w /\ serving' = TRUE /\ UNCHANGED <<tree, next_handle>>
    <3>1. Complete(w) BY DEF w
    <3> HIDE DEF H
    <3> QED BY <3>1, <1>1, <1>4 DEF Complete, _send_write_done, Reply, ServesOn
  <2>4. from + Len(new) \in Nat BY <2>2
  <2> DEFINE place == from + Len(new)
  <2> HIDE DEF from, new, ino
  <2>5. /\ HandlesKept
        /\ DOMAIN handles' \subseteq Nat /\ handles' \in [DOMAIN handles' -> Tables]
        /\ handles'[H].pos = place
        /\ \A h \in DOMAIN handles : h # H => handles'[h] = handles[h]
    <3> HIDE DEF place, H
    <3>1. place \in Nat /\ handles' = [handles EXCEPT ![H].pos = place]
      BY <2>3, <2>4 DEF place
    <3> QED BY <2>1, <3>1, PlaceChanged DEF IInv
  <2>6. data' \in [Inodes -> Seq(Int)]
    <3>1. data \in [Inodes -> Seq(Int)] BY DEF IInv, ServerTypes
    <3>2. WrittenAt(data[ino], from, new) \in Seq(Int)
      BY <3>1, <2>2, WrittenIsFile
    <3> QED BY <3>1, <3>2, <2>3
  <2>7. write' \in [handle : Int, is_block : BOOLEAN, sector_nr : Nat, sector_count : Nat,
                    data : Seq(Int), received_chunks : Nat]
    <3>1. w.data \in Seq(Int) BY ChunkJoined DEF w
    <3>2. c.op # "udpfs_write" => c.sector \in Nat /\ c.count \in Nat
      BY WriteFacts
    <3>3. done \in Nat BY WriteFacts
    <3> QED BY <1>1, <2>3, <3>1, <3>2, <3>3 DEF w, WithChunk
  <2>8. reply'.result \in Int /\ reply' # NoReply /\ reply'.result >= 0
        /\ reply' \in [type : {reply'.type}, result : Int, data : {reply'.data}]
    BY <2>2, <2>3 DEF NoReply
  <2>9. ServerTypes' /\ TreeInv'
    <3>1. \A p : Kind(p)' = Kind(p) BY <2>3 DEF Kind
    <3> QED BY <1>2, <2>3, <2>5, <2>6, <2>7, <2>8, <3>1 DEF IInv, ServerTypes, TreeInv
  <2>10. TableInv' BY <2>3, <2>5, TableKept DEF IInv
  <2>11. NoWriteInv' BY <1>2 DEF NoWriteInv
  <2>12. OpenInv' BY <2>5, KeptIsOpen, OpenStays
  <2>13. WriteInv' BY <1>2 DEF WriteInv
  <2>14. ~Sends(t)' BY <1>2 DEF Sends
  <2>15. left.as = "ioman" => /\ call[1].op # "udpfs_read" /\ ~MoreChunks(call[1])
                              /\ Answered(call[1])'
    <3> SUFFICES ASSUME left.as = "ioman"
                 PROVE  call[1].op # "udpfs_read" /\ ~MoreChunks(call[1]) /\ Answered(call[1])'
      OBVIOUS
    <3>1. t = 1 /\ c.op = "udpfs_write" BY <1>2
    <3>2. AfterTable(c)' = g_fds BY <1>2 DEF AfterTable
    <3>3. AfterFiles(c)' = due.files BY <1>2, <2>8, <3>1 DEF AfterFiles
    <3> DEFINE table == g_fds
               files == due.old
               k == c.fd
               after == due.files
    <3>4. /\ table \in [Fds -> Int] /\ files \in [Fds -> OpenFiles] /\ k \in Fds
          /\ Matches(table, files) /\ table[k] >= 0 /\ table[k] = H
          /\ files[k].kind = handles[H].kind /\ after = [files EXCEPT ![k].pos = place]
      BY <1>1, <1>2, <2>2, <3>1
    <3>5. left'.since = left.since BY <1>2
    <3>6. /\ DOMAIN after = Fds /\ \A i \in Fds : i # k => after[i] = files[i]
          /\ after[k].kind = files[k].kind /\ after[k].ino = files[k].ino
          /\ after[k].can = files[k].can /\ after[k].pos = place
      <4> HIDE DEF table, files, k, after, place, H
      <4>1. files[k] \in OpenFiles BY <3>4
      <4>2. files[k].kind = "file" BY <2>1, <3>4
      <4>3. files[k] \in [kind : {"file", "alias"}, ino : Inodes, pos : Nat,
                          can : SUBSET Flags, names : {<<>>}]
        BY <4>1, <4>2 DEF OpenFiles, Closed
      <4> QED BY <3>4, <4>3
    <3>7. after[k].kind # "dir" BY <2>1, <3>4, <3>6
    <3>8. \A h \in DOMAIN handles : h # table[k] => handles'[h] = handles[h]
      BY <2>5, <3>4
    <3>9. handles'[table[k]].pos = after[k].pos BY <2>5, <3>4, <3>6
    <3> HIDE DEF table, files, k, after, place, H
    <3>10. ASSUME NEW a, a = table, NEW e, e = after PROVE Matches(a, e)'
      <4>1. /\ a \in [Fds -> Int] /\ files \in [Fds -> OpenFiles] /\ k \in Fds
            /\ Matches(a, files) /\ a[k] >= 0 /\ left'.since = left.since
            /\ \A h \in DOMAIN handles : h # a[k] => handles'[h] = handles[h]
            /\ DOMAIN e = Fds /\ \A i \in Fds : i # k => e[i] = files[i]
            /\ e[k].kind = files[k].kind /\ e[k].ino = files[k].ino /\ e[k].can = files[k].can
            /\ e[k].kind # "dir" /\ handles'[a[k]].pos = e[k].pos
        BY <3>4, <3>5, <3>6, <3>7, <3>8, <3>9, <3>10
      <4> QED BY <4>1, <2>5, MatchesMoved
    <3>11. Answered(c)'
      <4>1. ASSUME NEW a, a = g_fds, NEW e, e = due.files PROVE Matches(a, e)'
        BY <3>10, <4>1 DEF table, after
      <4>2. c.op # "udpfs_read" /\ c.op \notin Closes BY <1>2
      <4> QED BY <1>2, <3>2, <3>3, <4>1, <4>2 DEF Answered
    <3> QED BY <3>1, <3>11
  <2>16. IInv'
    BY <1>2, <2>9, <2>10, <2>11, <2>12, <2>13, <2>14, <2>15, ExchangeKeeps
  <2>17. <<tree, data>>' = <<due.tree, due.data>> BY <2>2, <2>3
  <2> QED BY <2>16, <2>17
<1> QED BY <1>3, <1>4

\* What the server does with a message of a write.
LEMMA WriteServed ==
    ASSUME IInv, NEW t \in Threads, Exchange(t), call[t].op \in Writes
    PROVE  /\ done = 0 => StartWrite(WriteMessage(call[t]))
           /\ done > 0 => TakeChunk(write, WriteMessage(call[t]))
           /\ WriteMessage(call[t]).handle = Handle(call[t])
           /\ WriteMessage(call[t]).chunk_nr = done
           /\ done = 0 => NewWrite(WriteMessage(call[t])) = Collected(call[t])
<1> DEFINE c == call[t]
           m == WriteMessage(c)
<1>1. /\ Serve(m) /\ done \in Nat /\ c.op \in {"udpfs_write", "fhi_write", "udpfs_bd_write"}
      /\ c.data \in Seq(Int)
  BY WriteFacts DEF Writes
<1>2. /\ m.handle = Handle(c) /\ m.chunk_nr = done
      /\ m.op = IF done > 0 THEN "write_data" ELSE IF c.op = "udpfs_write" THEN "write" ELSE "bwrite"
      /\ m.sector = IF c.op = "udpfs_write" THEN 0 ELSE c.sector
      /\ m.count = IF c.op = "udpfs_write" THEN 0 ELSE c.count
  BY DEF WriteMessage
<1> HIDE DEF m
<1>3. done > 0 => TakeChunk(write, m)
  BY <1>1, <1>2, Dispatch DEF _handle_write_data
<1>4. done = 0 => StartWrite(m)
  BY <1>1, <1>2, Dispatch DEF _handle_write_req, _handle_bwrite_req
<1>5. ASSUME done = 0 PROVE NewWrite(m) = Collected(c)
  <2>1. SubSeq(c.data, 1, done * ChunkUnits) = <<>>
    <3>1. done * ChunkUnits = 0 BY <1>5, InputsAssumption
    <3> QED BY <3>1, <1>1
  <2>2. m.op = "bwrite" <=> c.op # "udpfs_write" BY <1>2, <1>5
  <2> QED BY <1>2, <1>5, <2>1, <2>2 DEF NewWrite, Collected
<1> QED BY <1>2, <1>3, <1>4, <1>5 DEF m

LEMMA WriteExchange ==
    ASSUME IInv, NEW t \in Threads, Exchange(t), call[t].op \in Writes
    PROVE  /\ IInv'
           /\ <<tree, data>>' # <<tree, data>> => <<tree, data>>' = <<due.tree, due.data>>
<1> DEFINE c == call[t]
           H == Handle(c)
           m == WriteMessage(c)
<1>1. /\ done \in Nat /\ Message(c) = m
      /\ done = 0 => reply = NoReply
      /\ done > 0 => IF reply = NoReply THEN write = Collected(c) ELSE write = NoWrite
      /\ left.as = "ioman" => c.op = "udpfs_write" /\ t = 1
      /\ left.pc => left.as = "fhi" /\ DOMAIN handles \subseteq {0} /\ write = NoWrite
      /\ left.as = "ioman" => reply = NoReply
      /\ left.as = "fhi" => c.op = "fhi_write"
  BY WriteFacts, ExchangeFacts
<1>2. /\ done = 0 => StartWrite(m)
      /\ done > 0 => TakeChunk(write, m)
      /\ m.handle = H /\ m.chunk_nr = done
      /\ done = 0 => NewWrite(m) = Collected(c)
  BY WriteServed
<1>3. /\ ~left.pc => IsFile(H)
      /\ ~left.pc /\ left.as = "ioman" => ~read_only
  BY WriteOpen
<1>4. left.pc => ~IsFile(H)
  <2> SUFFICES ASSUME left.pc PROVE ~IsFile(H)
    OBVIOUS
  <2>1. c.op \in FhiCalls /\ c.fd \in Fds BY <1>1, WriteFacts DEF FhiCalls
  <2>2. H = fhi[c.fd] /\ fhi \in [Fds -> Numbers]
    BY <2>1, HandleOf DEF IInv, ClientTypes
  <2> QED BY <1>1, <2>1, <2>2 DEF IsFile
<1>5. read_only \/ left.pc => write = NoWrite /\ left.as # "ioman"
  BY <1>1, <1>3 DEF IInv, NoWriteInv
<1>6. NoWrite.received_chunks = 0 /\ Collected(c).received_chunks = done
  BY DEF NoWrite, Collected
<1> HIDE DEF m, H
<1>7. CASE done = 0 /\ (read_only \/ left.pc)
  <2>1. WriteRefused(m) BY <1>2, <1>4, <1>7 DEF WriteRefused
  <2>2. /\ UNCHANGED <<tree, data, handles, next_handle, write>> /\ serving' = TRUE
        /\ reply' = [type |-> "WRITE_DONE", result |-> IF read_only THEN EACCES ELSE EBADF,
                     data |-> <<>>]
    BY <1>2, <1>7, <2>1 DEF StartWrite, _send_write_done, Reply, ServesOn, UnchangedFiles,
                            UnchangedHandles
  <2>3. reply' # NoReply /\ reply' \in [type : {reply'.type}, result : Int, data : {reply'.data}]
    BY <2>2 DEF NoReply, EACCES, EBADF
  <2> QED BY <1>5, <1>7, <2>2, <2>3, WriteDropped
<1>8. CASE done > 0 /\ reply # NoReply
  <2>1. write = NoWrite /\ left.as # "ioman" BY <1>1, <1>8
  <2>2. ~InTurn(write, m) BY <1>2, <1>6, <1>8, <2>1 DEF InTurn
  <2>3. /\ UNCHANGED <<tree, data, handles, next_handle, write>> /\ serving' = TRUE
        /\ reply' = reply
    BY <1>2, <1>8, <2>2 DEF TakeChunk, Acked, ServesOn, UnchangedFiles, UnchangedHandles
  <2>4. reply' # NoReply /\ reply' \in [type : {reply'.type}, result : Int, data : {reply'.data}]
    BY <1>8, <2>3 DEF IInv, ServerTypes
  <2> QED BY <2>1, <2>3, <2>4, WriteDropped
<1>9. CASE /\ done = 0 => ~(read_only \/ left.pc)
           /\ done > 0 => reply = NoReply
  <2>1. reply = NoReply BY <1>1, <1>9
  <2>2. ~read_only /\ ~left.pc BY <1>1, <1>5, <1>6, <1>9
  <2>3. TakeChunk(Collected(c), m)
    <3>1. CASE done = 0
      <4>1. ~WriteRefused(m) BY <1>2, <1>3, <2>2 DEF WriteRefused
      <4> QED BY <1>2, <3>1, <4>1 DEF StartWrite
    <3>2. CASE done > 0
      BY <1>1, <1>2, <2>1, <3>2
    <3> QED BY <1>1, <3>1, <3>2
  <2>4. IF MoreChunks(c)
        THEN /\ write' = WithChunk(c) /\ serving' = TRUE
             /\ UNCHANGED <<tree, data, handles, next_handle, reply>>
        ELSE Complete(WithChunk(c))
    BY <1>1, <2>3, ChunkTaken
  <2>5. CASE MoreChunks(c)
    BY <2>1, <2>2, <2>4, <2>5, MoreSent
  <2>6. CASE ~MoreChunks(c)
    BY <2>1, <2>2, <2>4, <2>6, Completed
  <2> QED BY <2>5, <2>6
<1> QED BY <1>1, <1>7, <1>8, <1>9

\* What an open is, and what the console has when it is sent.
LEMMA OpenFacts ==
    ASSUME IInv, NEW t \in Threads, Exchange(t), call[t].op \in Opens
    PROVE  /\ t = 1 /\ left.as = "ioman" /\ ~left.pc /\ call[1] \in Asked /\ call[1] # BdInit
           /\ call[1].path \in Names /\ Matches(g_fds, due.old) /\ due = Due(due.old, call[1])
           /\ FreeFds # {} /\ _alloc_fd \in Fds /\ g_fds[_alloc_fd] < 0
           /\ g_fds \in [Fds -> Numbers] /\ g_fds \in [Fds -> Int]
           /\ due.old \in [Fds -> OpenFiles]
           /\ _handle_open(udpfs_core_open(call[1]))
           /\ UNCHANGED <<g_fds, call, left, due, read_only>>
           /\ ~MoreChunks(call[1]) /\ WriteInv' /\ ~Sends(t)'
<1> DEFINE c == call[t]
<1>1. c.op \in udpfs_device_ops
      /\ c.op \notin Writes \cup Reads \cup {"udpfs_read", "udpfs_bd_init"}
  BY DEF udpfs_device_ops, Opens, Writes, Reads
<1>2. /\ Busy(t) /\ Serve(Message(c)) /\ c \in Asked /\ c # BdInit
      /\ UNCHANGED <<g_fds, call, left, due, read_only>> /\ at[t] = "send"
      /\ due.old \in [Fds -> OpenFiles]
  BY <1>1, ExchangeFacts, CallFields
<1>3. t = 1 /\ left.as = "ioman" BY <1>1, <1>2, CallOf
<1>4. Allowed(c) /\ Matches(g_fds, Come(c)) /\ ~left.pc BY <1>3, ExchangeFacts
<1>5. Come(c) = due.old /\ due = Due(due.old, c)
  BY <1>1, <1>2, ExchangeFacts DEF Come, Sends
<1>6. FreeFds # {} BY <1>4 DEF Allowed
<1>7. _alloc_fd \in Fds /\ g_fds[_alloc_fd] < 0 BY <1>6, FreeSlot
<1>8. g_fds \in [Fds -> Numbers] /\ g_fds \in [Fds -> Int]
  BY DEF IInv, ClientTypes
<1>9. c.path \in Names BY <1>2, CallFields
<1>10. _handle_open(udpfs_core_open(c))
  <2>1. Message(c) = udpfs_core_open(c) BY <1>1, MessageOf
  <2>2. udpfs_core_open(c).op = "open" BY DEF udpfs_core_open
  <2> QED BY <1>2, <2>1, <2>2, Dispatch
<1>11. ~MoreChunks(c) /\ WriteInv' /\ ~Sends(t)' BY <1>1, NoMore
<1> QED BY <1>2, <1>3, <1>4, <1>5, <1>6, <1>7, <1>8, <1>9, <1>10, <1>11

\* An open that fails, be it after the file was made.
LEMMA OpenFails ==
    ASSUME IInv, NEW t \in Threads, Exchange(t), call[t].op \in Opens,
           tree' \in [Paths -> Entries], data' \in [Inodes -> Seq(Int)], TreeInv',
           UNCHANGED <<handles, next_handle, write>>, serving' = TRUE,
           NEW e \in Int, e < 0, reply' = [type |-> "OPEN_REPLY", result |-> e, data |-> <<>>]
    PROVE  IInv'
<1> DEFINE c == call[1]
<1>1. /\ t = 1 /\ left.as = "ioman" /\ c # BdInit /\ Matches(g_fds, due.old)
      /\ UNCHANGED <<g_fds, call, left, due, read_only>>
      /\ ~MoreChunks(c) /\ WriteInv' /\ ~Sends(t)'
      /\ c.op \notin Closes \cup {"udpfs_read"}
  BY OpenFacts DEF Opens, Closes
<1>2. ServerTypes' BY <1>1 DEF IInv, ServerTypes
<1>3. TableInv' BY DEF IInv, TableInv
<1>4. NoWriteInv' BY NoWriteStays
<1>5. OpenInv'
  <2>1. StillOpen BY DEF StillOpen, IsOpen
  <2> QED BY <2>1, OpenStays
<1>6. Answered(c)'
  <2>1. AfterTable(c)' = g_fds
    <3>1. ~(reply'.result >= 0) BY SMT
    <3> QED BY <1>1, <3>1 DEF AfterTable
  <2>2. AfterFiles(c)' = due.old BY <1>1 DEF AfterFiles
  <2>3. ASSUME NEW a, a = g_fds, NEW f, f = due.old PROVE Matches(a, f)'
    <3>1. Matches(a, f) BY <1>1, <2>3
    <3> QED BY <1>1, <3>1, MatchesStay
  <2> QED BY <1>1, <2>1, <2>2, <2>3 DEF Answered
<1> QED BY <1>1, <1>2, <1>3, <1>4, <1>5, <1>6, ExchangeKeeps

\* An open that gives a handle, for the file that is due.
LEMMA OpenGives ==
    ASSUME IInv, NEW t \in Threads, Exchange(t), call[t].op \in Opens,
           tree' \in [Paths -> Entries], data' \in [Inodes -> Seq(Int)], TreeInv',
           NEW h \in Tables, _alloc_handle(h), write' = write, serving' = TRUE,
           reply' = [type |-> "OPEN_REPLY", result |-> next_handle, data |-> <<>>],
           NEW f, due.files = [due.old EXCEPT ![_alloc_fd] = f],
           h.kind = f.kind, h.ino = f.ino,
           f.kind = "file" => (h.mode \in {"ab", "a+b"} <=> "APPEND" \in f.can),
           f.kind = "dir" => h.entries = f.names,
           f.kind # "dir" => h.pos = f.pos
    PROVE  IInv'
<1> DEFINE c == call[1]
           n == next_handle
           slot == _alloc_fd
<1>1. /\ t = 1 /\ left.as = "ioman" /\ ~left.pc /\ c # BdInit /\ Matches(g_fds, due.old)
      /\ UNCHANGED <<g_fds, call, left, due, read_only>>
      /\ ~MoreChunks(c) /\ WriteInv' /\ ~Sends(t)'
      /\ c.op \in Opens /\ c.op \notin Closes \cup {"udpfs_read"}
      /\ slot \in Fds /\ g_fds[slot] < 0 /\ g_fds \in [Fds -> Int]
      /\ due.old \in [Fds -> OpenFiles]
  BY OpenFacts DEF Opens, Closes
<1>2. /\ n \in Nat \ {0} /\ DOMAIN handles \subseteq Nat /\ handles \in [DOMAIN handles -> Tables]
      /\ \A k \in DOMAIN handles : k < n
  BY DEF IInv, ServerTypes, TableInv
<1>3. /\ DOMAIN handles' = DOMAIN handles \cup {n} /\ next_handle' = n + 1
      /\ handles'[n] = h /\ (\A k \in DOMAIN handles : handles'[k] = handles[k])
      /\ handles' \in [DOMAIN handles' -> Tables] /\ n \notin DOMAIN handles
  BY <1>2 DEF _alloc_handle, NewHandle
<1>4. ServerTypes'
  <2>1. reply' \in [type : {reply'.type}, result : Int, data : {reply'.data}]
    BY <1>2
  <2>2. DOMAIN handles' \subseteq Nat /\ next_handle' \in Nat \ {0}
    BY <1>2, <1>3
  <2> QED BY <1>1, <1>3, <2>1, <2>2 DEF IInv, ServerTypes
<1>5. TableInv'
  <2>1. \A k \in DOMAIN handles' : k < next_handle' BY <1>2, <1>3
  <2>2. 0 \in DOMAIN handles' <=> 0 \in DOMAIN handles BY <1>2, <1>3
  <2>3. BlockDevice # 0 => handles'[0].kind = "file" /\ handles'[0].ino = BlockDevice
    BY <1>3 DEF IInv, TableInv
  <2> QED BY <2>1, <2>2, <2>3 DEF IInv, TableInv
<1>6. NoWriteInv' BY <1>1 DEF IInv, NoWriteInv
<1>7. OpenInv'
  <2>1. StillOpen BY <1>3 DEF StillOpen, IsOpen
  <2> QED BY <2>1, OpenStays
<1>8. Answered(c)'
  <2> DEFINE table == [g_fds EXCEPT ![slot] = n]
  <2>1. AfterTable(c)' = table
    <3>1. reply'.result >= 0 /\ reply'.result = n BY <1>2
    <3>2. _alloc_fd' = slot BY <1>1, AllocSame
    <3> QED BY <1>1, <3>1, <3>2 DEF AfterTable
  <2>2. AfterFiles(c)' = due.files
    <3>1. ~(reply'.result < 0) BY <1>2
    <3> QED BY <1>1, <3>1 DEF AfterFiles
  <2>3. ASSUME NEW a, a = table, NEW e, e = due.files PROVE Matches(a, e)'
    <3>1. \A k \in Fds : /\ a[k] = IF k = slot THEN n ELSE g_fds[k]
                         /\ e[k] = IF k = slot THEN f ELSE due.old[k]
      BY <1>1, <2>3
    <3>2. \A k \in Fds : g_fds[k] >= 0 => g_fds[k] \in DOMAIN handles
      BY <1>1 DEF Matches, IsOpen
    <3> HIDE DEF table, n, slot
    <3>3. ASSUME NEW k \in Fds
          PROVE  IF a[k] < 0 THEN e[k] = Closed
                 ELSE a[k] # 0 /\ IsOpen(a[k], e[k])' /\ SamePlace(a[k], e[k])'
      <4>1. CASE k = slot
        <5>1. a[k] = n /\ e[k] = f /\ ~(a[k] < 0) /\ a[k] # 0
          BY <1>2, <3>1, <4>1
        <5>2. a[k] \in DOMAIN handles' /\ handles'[a[k]] = h BY <1>3, <5>1
        <5> QED BY <5>1, <5>2 DEF IsOpen, SamePlace
      <4>2. CASE k # slot
        <5>1. a[k] = g_fds[k] /\ e[k] = due.old[k] BY <3>1, <4>2
        <5>2. IF g_fds[k] < 0 THEN due.old[k] = Closed
              ELSE g_fds[k] # 0 /\ IsOpen(g_fds[k], due.old[k]) /\ SamePlace(g_fds[k], due.old[k])
          BY <1>1 DEF Matches
        <5>3. g_fds[k] >= 0 => handles'[g_fds[k]] = handles[g_fds[k]] /\ g_fds[k] \in DOMAIN handles'
          BY <1>3, <3>2
        <5> QED BY <1>1, <5>1, <5>2, <5>3 DEF IsOpen, SamePlace
      <4> QED BY <4>1, <4>2
    <3>4. ASSUME NEW k \in DOMAIN handles', k >= left'.since PROVE \E i \in Fds : a[i] = k
      <4>1. CASE k = n
        BY <1>1, <3>1, <4>1
      <4>2. CASE k # n
        <5>1. k \in DOMAIN handles /\ k >= left.since BY <1>1, <1>3, <3>4, <4>2
        <5>2. PICK i \in Fds : g_fds[i] = k
          BY <1>1, <5>1 DEF Matches
        <5>3. i # slot BY <1>1, <1>2, <5>1, <5>2
        <5> QED BY <3>1, <5>2, <5>3
      <4> QED BY <4>1, <4>2
    <3>5. ASSUME NEW i \in Fds, NEW j \in Fds, a[i] >= 0, a[i] = a[j] PROVE i = j
      <4>1. \A k \in Fds : k # slot => a[k] # n
        <5>1. ASSUME NEW k \in Fds, k # slot, g_fds[k] = n PROVE FALSE
          BY <1>2, <1>3, <3>2, <5>1
        <5> QED BY <5>1, <3>1
      <4>2. CASE i = slot \/ j = slot
        BY <3>1, <3>5, <4>1, <4>2
      <4>3. CASE i # slot /\ j # slot
        <5>1. g_fds[i] >= 0 /\ g_fds[i] = g_fds[j] BY <3>1, <3>5, <4>3
        <5> QED BY <1>1, <5>1 DEF Matches
      <4> QED BY <4>2, <4>3
    <3> QED BY <3>3, <3>4, <3>5 DEF Matches
  <2> QED BY <1>1, <2>1, <2>2, <2>3 DEF Answered
<1> QED BY <1>1, <1>4, <1>5, <1>6, <1>7, <1>8, ExchangeKeeps

\* The mode an open has, for a file that is there or not.
LEMMA ModeOf ==
    ASSUME NEW flags \in SUBSET Flags, NEW exists \in BOOLEAN,
           "APPEND" \in flags =>
             "WR" \in flags /\ "TRUNC" \notin flags /\ ("RD" \in flags => "CREAT" \in flags)
    PROVE  /\ _flags_to_mode(flags, exists) \in Modes
           /\ _flags_to_mode(flags, exists) \in {"ab", "a+b"} <=> "APPEND" \in flags
           /\ exists /\ "TRUNC" \notin flags => _flags_to_mode(flags, exists) \notin {"wb", "w+b"}
<1> DEFINE mode == _flags_to_mode(flags, exists)
<1>1. CASE "RD" \in flags /\ "WR" \notin flags
  <2>1. flags \intersect {"RD", "WR"} = {"RD"} BY <1>1
  <2> QED BY <1>1, <2>1 DEF _flags_to_mode, Modes
<1>2. CASE "RD" \notin flags /\ "WR" \in flags
  <2>1. flags \intersect {"RD", "WR"} = {"WR"} /\ {"WR"} # {"RD"} BY <1>2
  <2>2. CASE "APPEND" \in flags
    <3>1. mode = "ab" BY <2>1, <2>2 DEF _flags_to_mode
    <3> QED BY <2>2, <3>1 DEF Modes
  <2>3. CASE "APPEND" \notin flags /\ "TRUNC" \in flags
    <3>1. mode = "wb" BY <2>1, <2>3 DEF _flags_to_mode
    <3> QED BY <2>3, <3>1 DEF Modes
  <2>4. CASE "APPEND" \notin flags /\ "TRUNC" \notin flags
    <3>1. CASE "CREAT" \in flags /\ ~exists /\ flags \intersect {"APPEND", "TRUNC"} = {}
      <4>1. mode = "wb" BY <2>1, <2>4, <3>1 DEF _flags_to_mode
      <4> QED BY <2>4, <3>1, <4>1 DEF Modes
    <3>2. CASE ~("CREAT" \in flags /\ ~exists /\ flags \intersect {"APPEND", "TRUNC"} = {})
      <4>1. mode = "r+b" BY <2>1, <2>4, <3>2 DEF _flags_to_mode
      <4> QED BY <2>4, <4>1 DEF Modes
    <3> QED BY <3>1, <3>2
  <2> QED BY <2>2, <2>3, <2>4
<1>3. CASE "RD" \in flags /\ "WR" \in flags
  <2>1. /\ flags \intersect {"RD", "WR"} = {"RD", "WR"} /\ {"RD", "WR"} # {"RD"}
        /\ {"RD", "WR"} # {"WR"} /\ {"RD", "WR"} \subseteq flags
    BY <1>3
  <2>2. CASE "CREAT" \in flags /\ "TRUNC" \in flags
    <3>1. mode = "w+b" BY <2>1, <2>2 DEF _flags_to_mode
    <3> QED BY <2>2, <3>1 DEF Modes
  <2>3. CASE "CREAT" \in flags /\ "TRUNC" \notin flags /\ "APPEND" \in flags
    <3>1. mode = "a+b" BY <2>1, <2>3 DEF _flags_to_mode
    <3> QED BY <2>3, <3>1 DEF Modes
  <2>4. CASE "CREAT" \in flags /\ "TRUNC" \notin flags /\ "APPEND" \notin flags
    <3>1. mode = IF exists THEN "r+b" ELSE "w+b"
      BY <2>1, <2>4 DEF _flags_to_mode
    <3> QED BY <2>4, <3>1 DEF Modes
  <2>5. CASE "CREAT" \notin flags
    <3>1. mode = "r+b" BY <2>1, <2>5 DEF _flags_to_mode
    <3> QED BY <1>3, <2>5, <3>1 DEF Modes
  <2> QED BY <2>2, <2>3, <2>4, <2>5
<1>4. CASE "RD" \notin flags /\ "WR" \notin flags
  <2>1. flags \intersect {"RD", "WR"} = {} /\ {} # {"RD"} /\ {} # {"WR"} /\ {} # {"RD", "WR"}
        /\ ~({"RD", "WR"} \subseteq flags)
    BY <1>4
  <2>2. mode = "rb" BY <2>1 DEF _flags_to_mode
  <2> QED BY <1>4, <2>2 DEF Modes
<1> QED BY <1>1, <1>2, <1>3, <1>4

\* A tree with a file more, and its directory.
LEMMA TreeMade ==
    ASSUME ServerTypes, TreeInv, NEW path \in Paths, NEW ino \in Inodes, Kind(path) # "dir",
           Kind(Parent[path]) # "file", tree' = MadeTree(path, ino)
    PROVE  /\ tree' \in [Paths -> Entries] /\ TreeInv'
           /\ Kind(path) = "file" /\ ino = tree[path].ino => tree' = tree
<1>1. /\ tree \in [Paths -> Entries] /\ Parent \in [Paths -> Names] /\ "" \notin Paths
      /\ Parent[path] # "" => Parent[Parent[path]] = ""
      /\ Parent[path] # path
  <2>1. /\ tree \in [Paths -> Entries] /\ Parent \in [Paths -> Names] /\ "" \notin Paths
        /\ \A p \in Paths : Parent[p] # "" => Parent[Parent[p]] = ""
    BY NamesAssumption DEF ServerTypes
  <2>2. ASSUME Parent[path] = path PROVE FALSE
    <3>1. Parent[path] # "" BY <2>1, <2>2
    <3>2. Parent[Parent[path]] = path BY <2>2
    <3> QED BY <2>1, <2>2, <3>1, <3>2
  <2> QED BY <2>1, <2>2
<1>2. \A p \in Paths :
        tree'[p] = IF p = path THEN [kind |-> "file", ino |-> ino]
                   ELSE IF p = Parent[path] THEN [kind |-> "dir", ino |-> 0] ELSE tree[p]
  BY DEF MadeTree
<1>3. tree' \in [Paths -> Entries]
  <2>1. [kind |-> "file", ino |-> ino] \in Entries /\ [kind |-> "dir", ino |-> 0] \in Entries
    BY DEF Entries
  <2> QED BY <1>1, <2>1 DEF MadeTree
<1>4. TreeInv'
  <2> SUFFICES ASSUME NEW p \in Paths, tree'[p].kind # "none"
               PROVE  Parent[p] = "" \/ tree'[Parent[p]].kind = "dir"
    BY DEF TreeInv, Kind
  <2>1. Parent[p] = "" \/ Parent[p] \in Paths BY <1>1 DEF Names
  <2>2. Kind(path) = tree[path].kind /\ tree[path].kind # "dir" BY <1>1 DEF Kind
  <2>3. CASE p = path
    <3>1. Parent[path] # "" => Parent[path] \in Paths /\ tree'[Parent[path]] = [kind |-> "dir", ino |-> 0]
      BY <1>1, <1>2, <2>1, <2>3
    <3>2. [kind |-> "dir", ino |-> 0].kind = "dir"
      OBVIOUS
    <3> QED BY <2>3, <3>1, <3>2
  <2>4. CASE p # path /\ p = Parent[path]
    BY <1>1, <2>4
  <2>5. CASE p # path /\ p # Parent[path] /\ Parent[p] # ""
    <3>1. tree[p].kind # "none" BY <1>2, <2>5
    <3>2. tree[Parent[p]].kind = "dir" BY <2>5, <3>1 DEF TreeInv, Kind
    <3>3. Parent[p] # path BY <2>2, <3>2
    <3>4. Parent[p] \in Paths BY <2>1, <2>5
    <3>5. tree'[Parent[p]] = IF Parent[p] = Parent[path] THEN [kind |-> "dir", ino |-> 0]
                             ELSE tree[Parent[p]]
      BY <1>2, <3>3, <3>4
    <3>6. [kind |-> "dir", ino |-> 0].kind = "dir"
      OBVIOUS
    <3> QED BY <3>2, <3>5, <3>6
  <2> QED BY <2>3, <2>4, <2>5
<1>5. ASSUME Kind(path) = "file", ino = tree[path].ino PROVE tree' = tree
  <2>1. tree[path] = [kind |-> "file", ino |-> ino]
    BY <1>1, <1>5 DEF Kind, Entries
  <2>2. Parent[path] # "" => tree[Parent[path]] = [kind |-> "dir", ino |-> 0]
    <3>1. tree[path].kind # "none" BY <2>1
    <3>2. Parent[path] # "" => tree[Parent[path]].kind = "dir" /\ Parent[path] \in Paths
      BY <1>1, <3>1 DEF TreeInv, Kind, Names
    <3> QED BY <1>1, <3>2 DEF Entries
  <2>3. \A p \in Paths : tree'[p] = tree[p] BY <1>1, <1>2, <2>1, <2>2
  <2>4. tree = [p \in Paths |-> tree[p]] /\ tree' = [p \in Paths |-> tree'[p]]
    BY <1>1, <1>3
  <2> QED BY <2>3, <2>4
<1> QED BY <1>3, <1>4, <1>5

LEMMA DueMade ==
    ASSUME NEW files, NEW c, c.op = "udpfs_open", ~Refuses(c), ~Keeps(c)
    PROVE  /\ Due(files, c).tree = MadeTree(c.path, MadeIno(c))
           /\ Due(files, c).data = [data EXCEPT ![MadeIno(c)] = <<>>]
<1>1. Due(files, c) = LocalOpen(files, _alloc_fd, c) BY DueOf
<1>2. LocalOpen(files, _alloc_fd, c) =
        [Result(files, 0, NoBuffer) EXCEPT
            !.tree = MadeTree(c.path, MadeIno(c)), !.data[MadeIno(c)] = <<>>,
            !.files[_alloc_fd] = MadeFile(c)]
  BY DEF LocalOpen
<1> QED BY <1>1, <1>2 DEF Result

\* A file of the server is opened, and made when it was not there.
LEMMA FileOpens ==
    ASSUME IInv, NEW t \in Threads, Exchange(t), call[t].op = "udpfs_open",
           NEW ino \in Inodes, Actual(call[t].path) = call[t].path,
           Kind(call[t].path) # "dir", Kind(Parent[call[t].path]) # "file",
           ino = MadeIno(call[t]), ~Refuses(call[t]),
           NEW mode, mode = _flags_to_mode(call[t].flags, Exists(call[t].path)),
           Opened(call[t].path, ino, mode),
           UNCHANGED write, serving' = TRUE,
           IF TableFull
           THEN /\ reply' = [type |-> "OPEN_REPLY", result |-> EMFILE, data |-> <<>>]
                /\ UNCHANGED <<handles, next_handle>>
           ELSE /\ _alloc_handle(FileHandle("file", ino, EndOf(call[t].path, ino, mode), mode, <<>>))
                /\ reply' = [type |-> "OPEN_REPLY", result |-> next_handle, data |-> <<>>]
    PROVE  /\ IInv'
           /\ <<tree, data>>' # <<tree, data>> => <<tree, data>>' = <<due.tree, due.data>>
<1> DEFINE c == call[t]
           path == c.path
           h == FileHandle("file", ino, EndOf(path, ino, mode), mode, <<>>)
<1>1. /\ t = 1 /\ c \in Asked /\ path \in Names /\ due = Due(due.old, c) /\ c.op \in Opens
      /\ ServerTypes /\ TreeInv
  BY OpenFacts DEF Opens, IInv
<1>2. c.flags \in SUBSET Flags /\ c.op = "udpfs_open" /\ ino = MadeIno(c) /\ ~Refuses(c)
  BY <1>1, CallFields
<1>3. "APPEND" \in c.flags =>
        "WR" \in c.flags /\ "TRUNC" \notin c.flags /\ ("RD" \in c.flags => "CREAT" \in c.flags)
  BY <1>1 DEF Asked, WellMade
<1>4. path \in Paths /\ Kind(path) \in {"none", "file"} /\ Shows(path) = Kind(path)
      /\ (Exists(path) <=> Kind(path) = "file") /\ Exists(path) \in BOOLEAN
  <2>1. path # "" BY DEF Kind
  <2> QED BY <1>1, <2>1, NameParts DEF Exists
<1> DEFINE exists == Exists(path)
<1>5. /\ mode \in Modes /\ (mode \in {"ab", "a+b"} <=> "APPEND" \in c.flags)
      /\ exists /\ "TRUNC" \notin c.flags => mode \notin {"wb", "w+b"}
  <2> DEFINE flags == c.flags
  <2>1. flags \in SUBSET Flags /\ exists \in BOOLEAN /\ mode = _flags_to_mode(flags, exists)
    BY <1>2, <1>4
  <2>2. "APPEND" \in flags =>
          "WR" \in flags /\ "TRUNC" \notin flags /\ ("RD" \in flags => "CREAT" \in flags)
    BY <1>3
  <2>3. /\ mode \in Modes /\ (mode \in {"ab", "a+b"} <=> "APPEND" \in flags)
        /\ exists /\ "TRUNC" \notin flags => mode \notin {"wb", "w+b"}
    <3> HIDE DEF flags, exists
    <3> QED BY <2>1, <2>2, ModeOf
  <2> QED BY <2>3
<1>6. /\ tree' = MadeTree(path, ino)
      /\ data' = IF mode \in {"wb", "w+b"} \/ ~exists THEN [data EXCEPT ![ino] = <<>>] ELSE data
  BY DEF Opened, MadeTree
<1>7. data \in [Inodes -> Seq(Int)] /\ data' \in [Inodes -> Seq(Int)]
  BY <1>1, <1>6 DEF ServerTypes
<1>8. /\ tree' \in [Paths -> Entries] /\ TreeInv'
      /\ exists => ino = tree[path].ino /\ tree' = tree
  <2>1. exists => ino = tree[path].ino /\ Kind(path) = "file"
    BY <1>4 DEF MadeIno
  <2>2. /\ tree' \in [Paths -> Entries] /\ TreeInv'
        /\ Kind(path) = "file" /\ ino = tree[path].ino => tree' = tree
    <3> HIDE DEF path, c
    <3>1. Kind(path) # "dir" /\ Kind(Parent[path]) # "file" BY DEF path, c
    <3> QED BY <1>1, <1>4, <1>6, <3>1, TreeMade
  <2> QED BY <2>1, <2>2
<1>9. <<tree, data>>' # <<tree, data>> => <<tree, data>>' = <<due.tree, due.data>>
  <2>1. Keeps(c) => exists /\ "TRUNC" \notin c.flags BY <1>4 DEF Keeps
  <2>2. CASE Keeps(c)
    BY <1>5, <1>6, <1>8, <2>1, <2>2
  <2>3. CASE ~Keeps(c)
    <3>1. due.tree = MadeTree(path, ino) /\ due.data = [data EXCEPT ![ino] = <<>>]
      <4> HIDE DEF c
      <4>1. /\ Due(due.old, c).tree = MadeTree(c.path, MadeIno(c))
            /\ Due(due.old, c).data = [data EXCEPT ![MadeIno(c)] = <<>>]
        <5>1. /\ c.op = "udpfs_open"
              /\ ~Refuses(c) /\ ~Keeps(c)
          BY <1>2, <2>3
        <5> QED BY <5>1, DueMade
      <4> QED BY <1>1, <1>2, <4>1
    <3>2. CASE mode \in {"wb", "w+b"} \/ ~exists
      BY <1>6, <3>1, <3>2
    <3>3. CASE ~(mode \in {"wb", "w+b"} \/ ~exists)
      BY <1>6, <1>8, <3>3
    <3> QED BY <3>2, <3>3
  <2> QED BY <2>2, <2>3
<1>10. CASE TableFull
  <2>1. UNCHANGED <<handles, next_handle, write>>
        /\ reply' = [type |-> "OPEN_REPLY", result |-> EMFILE, data |-> <<>>]
    BY <1>10
  <2> DEFINE e == EMFILE
  <2>2. e \in Int /\ e < 0 BY DEF EMFILE
  <2>3. reply' = [type |-> "OPEN_REPLY", result |-> e, data |-> <<>>] BY <2>1
  <2> HIDE DEF e
  <2>4. IInv' BY <1>1, <1>7, <1>8, <2>1, <2>2, <2>3, OpenFails
  <2> QED BY <1>9, <2>4
<1>11. CASE ~TableFull
  <2>1. /\ _alloc_handle(h)
        /\ reply' = [type |-> "OPEN_REPLY", result |-> next_handle, data |-> <<>>]
    BY <1>11
  <2>2. EndOf(path, ino, mode) = IF "APPEND" \in c.flags /\ exists THEN Len(data[ino]) ELSE 0
    BY <1>5 DEF EndOf
  <2>3. h.kind = "file" /\ h.ino = ino /\ h.mode = mode /\ h.pos = EndOf(path, ino, mode)
    BY DEF FileHandle
  <2>4. h \in Tables
    <3>1. EndOf(path, ino, mode) \in Nat BY <1>7, <2>2, LenProperties
    <3> QED BY <1>5, <3>1 DEF FileHandle, Tables
  <2> HIDE DEF h
  <2>5. CASE Keeps(c)
    <3> DEFINE f == KeptFile(c)
    <3>1. due.files = [due.old EXCEPT ![_alloc_fd] = f]
      <4> HIDE DEF c, f
      <4>1. Due(due.old, c).files = [due.old EXCEPT ![_alloc_fd] = KeptFile(c)]
        BY <1>2, <2>5, DueOpen
      <4> QED BY <1>1, <4>1 DEF f
    <3>2. exists BY <1>4, <2>5 DEF Keeps
    <3>3. f.kind = "file" /\ f.ino = ino /\ f.can = c.flags /\ f.pos = h.pos
      <4>1. ShownIno(path) = ino /\ ShownSize(path) = Len(data[ino]) /\ Shows(path) = "file"
        BY <1>4, <1>8, <3>2 DEF ShownIno, ShownSize
      <4>2. f.kind = Shows(path) /\ f.ino = ShownIno(path) /\ f.can = c.flags
            /\ f.pos = IF "APPEND" \in c.flags /\ Shows(path) = "file" THEN ShownSize(path) ELSE 0
        BY DEF KeptFile
      <4> QED BY <2>2, <2>3, <3>2, <4>1, <4>2
    <3> HIDE DEF f
    <3>4. IInv'
      <4>1. f.kind = "file" => (h.mode \in {"ab", "a+b"} <=> "APPEND" \in f.can)
        BY <1>5, <2>3, <3>3
      <4>2. h.kind = f.kind /\ h.ino = f.ino /\ (f.kind = "dir" => h.entries = f.names)
            /\ (f.kind # "dir" => h.pos = f.pos)
        BY <2>3, <3>3
      <4>3. write' = write /\ serving' = TRUE
        OBVIOUS
      <4> QED BY <1>1, <1>7, <1>8, <2>1, <2>4, <3>1, <4>1, <4>2, <4>3, OpenGives
    <3> QED BY <1>9, <3>4
  <2>6. CASE ~Keeps(c)
    <3> DEFINE f == MadeFile(c)
    <3>1. due.files = [due.old EXCEPT ![_alloc_fd] = f]
      <4> HIDE DEF c, f
      <4>1. Due(due.old, c).files = [due.old EXCEPT ![_alloc_fd] = MadeFile(c)]
        BY <1>2, <2>6, DueOpen
      <4> QED BY <1>1, <4>1 DEF f
    <3>2. ~("APPEND" \in c.flags /\ exists) BY <1>3, <2>6 DEF Keeps
    <3>3. f.kind = "file" /\ f.ino = ino /\ f.can = c.flags /\ f.pos = h.pos
      BY <2>2, <2>3, <3>2 DEF MadeFile
    <3> HIDE DEF f
    <3>4. IInv'
      <4>1. f.kind = "file" => (h.mode \in {"ab", "a+b"} <=> "APPEND" \in f.can)
        BY <1>5, <2>3, <3>3
      <4>2. h.kind = f.kind /\ h.ino = f.ino /\ (f.kind = "dir" => h.entries = f.names)
            /\ (f.kind # "dir" => h.pos = f.pos)
        BY <2>3, <3>3
      <4>3. write' = write /\ serving' = TRUE
        OBVIOUS
      <4> QED BY <1>1, <1>7, <1>8, <2>1, <2>4, <3>1, <4>1, <4>2, <4>3, OpenGives
    <3> QED BY <1>9, <3>4
  <2> QED BY <2>5, <2>6
<1> QED BY <1>10, <1>11

\* A file that is made is made to be written.
LEMMA MadeToWrite ==
    ASSUME NEW c \in Asked, c.op = "udpfs_open", "CREAT" \in c.flags
    PROVE  _flags_to_mode(c.flags, FALSE) # "rb"
<1>1. "WR" \in c.flags BY InputsAssumption DEF Asked, WellMade
<1>2. c.flags \intersect {"RD", "WR"} # {"RD"} BY <1>1
<1> QED BY <1>1, <1>2 DEF _flags_to_mode

LEMMA OpenExchange ==
    ASSUME IInv, NEW t \in Threads, Exchange(t), call[t].op \in Opens
    PROVE  /\ IInv'
           /\ <<tree, data>>' # <<tree, data>> => <<tree, data>>' = <<due.tree, due.data>>
<1> DEFINE c == call[t]
           path == c.path
           m == udpfs_core_open(c)
<1>1. /\ t = 1 /\ c \in Asked /\ path \in Names /\ due = Due(due.old, c) /\ c.op \in Opens
      /\ ServerTypes /\ TreeInv /\ _handle_open(m) /\ UNCHANGED read_only
  BY OpenFacts DEF IInv
<1>2. /\ m.op = "open" /\ m.path = path /\ (m.is_dir <=> c.op = "udpfs_dopen")
      /\ m.flags = IF c.op = "udpfs_dopen" THEN {} ELSE c.flags
  BY DEF udpfs_core_open
<1> HIDE DEF m
<1>3. serving' = TRUE /\ UNCHANGED write BY <1>1 DEF _handle_open, ServesOn
<1>4. ASSUME NEW e \in Int, e < 0, OpenRefused(m, e) PROVE IInv' /\ UNCHANGED <<tree, data>>
  <2>1. /\ UNCHANGED <<tree, data, handles, next_handle>>
        /\ reply' = [type |-> "OPEN_REPLY", result |-> e, data |-> <<>>]
    BY <1>4 DEF OpenRefused, _send_open_reply, Reply, UnchangedFiles, UnchangedHandles
  <2>2. tree' \in [Paths -> Entries] /\ data' \in [Inodes -> Seq(Int)] /\ TreeInv'
    <3>1. \A p : Kind(p)' = Kind(p) BY <2>1 DEF Kind
    <3> QED BY <1>1, <2>1, <3>1 DEF ServerTypes, TreeInv
  <2>3. IInv' BY <1>1, <1>3, <1>4, <2>1, <2>2, OpenFails
  <2> QED BY <2>1, <2>3
<1>5. \A e \in {ENOENT, EIO, EACCES, ENOTDIR, EISDIR, EMFILE} : e \in Int /\ e < 0
  BY DEF ENOENT, EIO, EACCES, ENOTDIR, EISDIR, EMFILE
<1>6. ASSUME NEW e \in {ENOENT, EIO, EACCES, ENOTDIR, EISDIR, EMFILE}, OpenRefused(m, e)
      PROVE  IInv' /\ UNCHANGED <<tree, data>>
  BY <1>4, <1>5, <1>6
<1>7. ASSUME NEW h \in Tables, _alloc_handle(h), _send_open_reply(NewHandle), UnchangedFiles,
             NEW f, due.files = [due.old EXCEPT ![_alloc_fd] = f],
             h.kind = f.kind, h.ino = f.ino, f.kind # "file",
             f.kind = "dir" => h.entries = f.names,
             f.kind # "dir" => h.pos = f.pos
      PROVE  IInv' /\ UNCHANGED <<tree, data>>
  <2>1. /\ UNCHANGED <<tree, data>>
        /\ reply' = [type |-> "OPEN_REPLY", result |-> next_handle, data |-> <<>>]
    BY <1>7 DEF _send_open_reply, Reply, UnchangedFiles, NewHandle
  <2>2. tree' \in [Paths -> Entries] /\ data' \in [Inodes -> Seq(Int)] /\ TreeInv'
    <3>1. \A p : Kind(p)' = Kind(p) BY <2>1 DEF Kind
    <3> QED BY <1>1, <2>1, <3>1 DEF ServerTypes, TreeInv
  <2>3. f.kind = "file" => (h.mode \in {"ab", "a+b"} <=> "APPEND" \in f.can)
    BY <1>7
  <2>4. IInv' BY <1>1, <1>3, <1>7, <2>1, <2>2, <2>3, OpenGives
  <2> QED BY <2>1, <2>4
<1>8. CASE ~RootDir
  <2>1. OpenRefused(m, EACCES) BY <1>1, <1>8 DEF _handle_open
  <2> QED BY <1>6, <2>1
<1>9. CASE RootDir /\ c.op = "udpfs_dopen"
  <2>1. OpenDirectory(m) BY <1>1, <1>2, <1>9 DEF _handle_open
  <2>2. CASE Kind(path) # "dir"
    <3>1. OpenRefused(m, ENOENT) \/ OpenRefused(m, ENOTDIR)
      BY <1>1, <1>2, <2>1, <2>2, NameParts DEF OpenDirectory
    <3> QED BY <1>6, <3>1
  <2>3. CASE Kind(path) = "dir" /\ TableFull
    <3>1. OpenRefused(m, EMFILE) BY <1>2, <2>1, <2>3 DEF OpenDirectory
    <3> QED BY <1>6, <3>1
  <2>4. CASE Kind(path) = "dir" /\ ~TableFull
    <3> DEFINE h == FileHandle("dir", 0, 0, "rb", SetToSeq(Children(path)))
               f == ListedDir(path)
    <3>1. _alloc_handle(h) /\ _send_open_reply(NewHandle) /\ UnchangedFiles
      BY <1>2, <2>1, <2>4 DEF OpenDirectory
    <3>2. Children(path) \in SUBSET Paths BY DEF Children
    <3> DEFINE list == SetToSeq(Children(path))
    <3>3. list \in Seq(Paths) BY <3>2, ListOfNames
    <3>4. /\ h.kind = "dir" /\ h.ino = 0 /\ h.entries = list
          /\ f.kind = "dir" /\ f.ino = 0 /\ f.names = list
      BY DEF FileHandle, ListedDir
    <3>5. h = [kind |-> "dir", ino |-> 0, pos |-> 0, mode |-> "rb", entries |-> list]
      BY DEF FileHandle
    <3> HIDE DEF list
    <3>6. h \in Tables BY <3>3, <3>5 DEF Tables
    <3>7. due.files = [due.old EXCEPT ![_alloc_fd] = f]
      <4> HIDE DEF c, f
      <4>1. Due(due.old, c).files = IF ~RootDir \/ Kind(c.path) # "dir" THEN due.old
                                    ELSE [due.old EXCEPT ![_alloc_fd] = ListedDir(c.path)]
        BY <1>9, DueDopen
      <4> QED BY <1>1, <1>9, <2>4, <4>1 DEF f
    <3> HIDE DEF h, f
    <3> QED BY <1>7, <3>1, <3>4, <3>6, <3>7
  <2> QED BY <2>2, <2>3, <2>4
<1>10. CASE RootDir /\ c.op = "udpfs_open"
  <2>1. IF read_only /\ "WR" \in c.flags THEN OpenRefused(m, EACCES)
        ELSE IF ~Exists(Actual(path)) /\ "CREAT" \notin c.flags THEN OpenRefused(m, ENOENT)
        ELSE IF Actual(path) # path THEN OpenCompressed(m)
        ELSE IF Kind(path) = "dir" THEN OpenRefused(m, EISDIR)
        ELSE IF Kind(Parent[path]) = "file" THEN OpenRefused(m, ENOTDIR)
        ELSE IF ~Exists(path) /\ _flags_to_mode(c.flags, FALSE) = "rb" THEN OpenMissing(m)
        ELSE \E ino \in IF Exists(path) THEN {tree[path].ino}
                        ELSE {i \in FreshInodes : i = NewInode} :
               OpenFile(m, ino, _flags_to_mode(c.flags, Exists(path)))
    BY <1>1, <1>2, <1>10 DEF _handle_open
  <2>2. CASE read_only /\ "WR" \in c.flags
    BY <1>6, <2>1, <2>2
  <2>3. CASE ~(read_only /\ "WR" \in c.flags) /\ ~Exists(Actual(path)) /\ "CREAT" \notin c.flags
    BY <1>6, <2>1, <2>3
  <2>4. CASE /\ ~(read_only /\ "WR" \in c.flags) /\ (Exists(Actual(path)) \/ "CREAT" \in c.flags)
             /\ Actual(path) # path
    <3>1. OpenCompressed(m) BY <2>1, <2>4
    <3>2. CASE ~Unpacks(Actual(path))
      <4>1. OpenRefused(m, EIO) BY <1>2, <3>1, <3>2 DEF OpenCompressed
      <4> QED BY <1>6, <4>1
    <3>3. CASE Unpacks(Actual(path)) /\ TableFull
      <4>1. OpenRefused(m, EMFILE) BY <1>2, <3>1, <3>3 DEF OpenCompressed
      <4> QED BY <1>6, <4>1
    <3>4. CASE Unpacks(Actual(path)) /\ ~TableFull
      <4> DEFINE ino == tree[Actual(path)].ino
                 h == FileHandle("alias", ino, 0, "rb", <<>>)
                 f == KeptFile(c)
      <4>1. _alloc_handle(h) /\ _send_open_reply(NewHandle) /\ UnchangedFiles
        BY <1>2, <3>1, <3>4 DEF OpenCompressed
      <4>2. Shows(path) = "alias" /\ ShownIno(path) \in Inodes
        BY <1>1, <2>4, <3>4, NameParts
      <4>3. ~Refuses(c) /\ Keeps(c) BY <1>10, <2>4, <4>2 DEF Refuses, Keeps
      <4>4. due.files = [due.old EXCEPT ![_alloc_fd] = f]
        <5> HIDE DEF c, f
        <5>1. Due(due.old, c).files = [due.old EXCEPT ![_alloc_fd] = KeptFile(c)]
          BY <1>10, <4>3, DueOpen
        <5> QED BY <1>1, <5>1 DEF f
      <4>5. ino = ShownIno(path) BY DEF ShownIno
      <4> HIDE DEF ino
      <4>6. /\ h.kind = "alias" /\ h.ino = ino /\ h.pos = 0
            /\ f.kind = "alias" /\ f.ino = ino /\ f.pos = 0
        BY <4>2, <4>5 DEF FileHandle, KeptFile
      <4>7. h \in Tables BY <4>2, <4>5 DEF FileHandle, Tables, Modes
      <4> HIDE DEF h, f
      <4> QED BY <1>7, <4>1, <4>4, <4>6, <4>7
    <3> QED BY <3>2, <3>3, <3>4
  <2>5. CASE /\ ~(read_only /\ "WR" \in c.flags) /\ (Exists(Actual(path)) \/ "CREAT" \in c.flags)
             /\ Actual(path) = path
    <3>1. CASE Kind(path) = "dir"
      BY <1>6, <2>1, <2>5, <3>1
    <3>2. CASE Kind(path) # "dir" /\ Kind(Parent[path]) = "file"
      BY <1>6, <2>1, <2>5, <3>2
    <3>3. CASE Kind(path) # "dir" /\ Kind(Parent[path]) # "file"
      <4> DEFINE mode == _flags_to_mode(c.flags, Exists(path))
      <4>1. PICK ino \in IF Exists(path) THEN {tree[path].ino}
                         ELSE {i \in FreshInodes : i = NewInode} : OpenFile(m, ino, mode)
        <5>1. ~Exists(path) => _flags_to_mode(c.flags, FALSE) # "rb"
          BY <1>1, <2>5, MadeToWrite, <1>10
        <5> QED BY <2>1, <2>5, <3>3, <5>1
      <4>2. path \in Paths /\ Shows(path) = Kind(path) /\ Kind(path) \in {"none", "file"}
            /\ (Kind(path) = "file" => tree[path].ino \in Inodes)
        <5>1. path # "" BY <3>3 DEF Kind
        <5> QED BY <1>1, <2>5, <3>3, <5>1, NameParts
      <4>3. ino \in Inodes
        <5>1. FreshInodes \subseteq Inodes BY <1>1 DEF FreshInodes, ServerTypes
        <5> QED BY <4>1, <4>2, <5>1 DEF Exists
      <4>4. ino = MadeIno(c) BY <4>1 DEF MadeIno
      <4>5. ~Refuses(c) BY <1>10, <2>5, <3>3, <4>2 DEF Refuses, Exists
      <4> HIDE DEF mode
      <4>6. /\ Opened(path, ino, mode)
            /\ IF TableFull
               THEN /\ reply' = [type |-> "OPEN_REPLY", result |-> EMFILE, data |-> <<>>]
                    /\ UNCHANGED <<handles, next_handle>>
               ELSE /\ _alloc_handle(FileHandle("file", ino, EndOf(path, ino, mode), mode, <<>>))
                    /\ reply' = [type |-> "OPEN_REPLY", result |-> next_handle, data |-> <<>>]
        <5>1. OpenFile(m, ino, mode) BY <4>1
        <5> QED BY <5>1, <1>2 DEF OpenFile, _send_open_reply, Reply, UnchangedHandles, NewHandle
      <4>7. mode = _flags_to_mode(c.flags, Exists(path)) BY DEF mode
      <4> QED BY <1>3, <1>10, <2>5, <3>3, <4>3, <4>4, <4>5, <4>6, <4>7, FileOpens
    <3> QED BY <3>1, <3>2, <3>3
  <2> QED BY <2>2, <2>3, <2>4, <2>5
<1> QED BY <1>1, <1>8, <1>9, <1>10 DEF Opens

-----------------------------------------------------------------------------
(* All steps.                                                              *)

\* A message: the invariant stays, and the files are changed to what is due
\* or not at all.
LEMMA Exchanged ==
    ASSUME IInv, NEW t \in Threads, Exchange(t)
    PROVE  /\ IInv'
           /\ <<tree, data>>' # <<tree, data>> => <<tree, data>>' = <<due.tree, due.data>>
<1> DEFINE c == call[t]
<1>1. c.op \in udpfs_device_ops \cup FhiCalls \cup BdCalls \cup {"udpfs_bd_init"}
  BY ExchangeFacts
<1>2. \/ c.op \in OnNames \cup {"udpfs_bd_init"} \/ c.op \in Opens \/ c.op \in Closes
      \/ c.op \in Reads \/ c.op \in Writes
      \/ c.op = "udpfs_read" \/ c.op = "udpfs_lseek64" \/ c.op = "udpfs_dread"
  BY <1>1 DEF udpfs_device_ops, OnFiles, FhiCalls, BdCalls, Reads, Writes
<1>3. CASE c.op \in OnNames \cup {"udpfs_bd_init"}
  BY <1>3, NamesKeep
<1>4. CASE c.op \in Opens
  BY <1>4, OpenExchange
<1>5. CASE c.op \in Closes
  BY <1>5, CloseExchange
<1>6. CASE c.op \in Reads
  BY <1>6, BreadExchange
<1>7. CASE c.op \in Writes
  BY <1>7, WriteExchange
<1>8. CASE c.op = "udpfs_read"
  BY <1>8, ReadExchange
<1>9. CASE c.op = "udpfs_lseek64"
  BY <1>9, SeekExchange
<1>10. CASE c.op = "udpfs_dread"
  BY <1>10, DreadExchange
<1> QED BY <1>2, <1>3, <1>4, <1>5, <1>6, <1>7, <1>8, <1>9, <1>10

LEMMA InitHolds ==
    ASSUME Init
    PROVE  IInv
<1>1. /\ read_only \in BOOLEAN /\ tree = Tree0 /\ data = Data0
      /\ handles = BlockDeviceHandle /\ next_handle = 1
      /\ write = NoWrite /\ reply = NoReply /\ serving = TRUE
      /\ link = "down" /\ g_fds = [fd \in Fds |-> -1] /\ fhi = [fd \in Fds |-> -1]
      /\ bd = 0 /\ g_sema = 1 /\ done = 0
      /\ at = [t \in Threads |-> "idle"] /\ call = [t \in Threads |-> Idle]
      /\ left.as = "off" /\ left.since = 1 /\ left.pc = FALSE
      /\ due = [res |-> 0, got |-> NoBuffer, tree |-> tree, data |-> data,
                files |-> [fd \in Fds |-> Closed], old |-> [fd \in Fds |-> Closed]]
  BY DEF Init, ServerInit, ClientInit
<1>2. left \in [plan : {left.plan}, as : {left.as}, ops : {left.ops}, calls : {left.calls},
                faults : {left.faults}, since : Nat, pc : BOOLEAN]
  BY DEF Init, ClientInit
<1>3. ServerTypes
  <2>1. write \in [handle : Int, is_block : BOOLEAN, sector_nr : Nat, sector_count : Nat,
                   data : Seq(Int), received_chunks : Nat]
    BY <1>1 DEF NoWrite
  <2>2. reply \in [type : {reply.type}, result : Int, data : {reply.data}]
    BY <1>1 DEF NoReply
  <2>3. DOMAIN handles \subseteq Nat /\ handles \in [DOMAIN handles -> Tables]
    <3> DEFINE m == IF read_only THEN "rb" ELSE "r+b"
               d == [kind |-> "file", ino |-> BlockDevice, pos |-> 0, mode |-> m, entries |-> <<>>]
    <3>1. handles = [h \in IF BlockDevice = 0 THEN {} ELSE {0} |-> d]
      BY <1>1 DEF BlockDeviceHandle, FileHandle
    <3>2. m \in Modes BY DEF Modes
    <3> HIDE DEF m
    <3>3. BlockDevice # 0 => d \in Tables BY <3>2, FilesAssumption DEF Tables
    <3> HIDE DEF d
    <3>4. CASE BlockDevice = 0
      BY <3>1, <3>4
    <3>5. CASE BlockDevice # 0
      BY <3>1, <3>3, <3>5
    <3> QED BY <3>4, <3>5
  <2>4. tree \in [Paths -> Entries] /\ data \in [Inodes -> Seq(Int)]
    BY <1>1, FilesAssumption
  <2>5. next_handle \in Nat \ {0} BY <1>1
  <2>6. serving \in BOOLEAN /\ read_only \in BOOLEAN BY <1>1
  <2> QED BY <2>1, <2>2, <2>3, <2>4, <2>5, <2>6 DEF ServerTypes
<1>4. ClientTypes
  <2>1. Closed \in OpenFiles BY DEF OpenFiles
  <2>2. due \in [res : {due.res}, got : {due.got}, tree : {due.tree}, data : {due.data},
                 files : [Fds -> OpenFiles], old : [Fds -> OpenFiles]]
    BY <1>1, <2>1
  <2> QED BY <1>1, <1>2, <2>2 DEF ClientTypes
<1>5. TreeInv BY <1>1, FilesAssumption DEF TreeInv, Kind
<1>6. TableInv BY <1>1 DEF TableInv, BlockDeviceHandle, FileHandle
<1>7. NoWriteInv BY <1>1 DEF NoWriteInv
<1>8. \A t \in Threads : at[t] = "idle" /\ ~Busy(t) BY <1>1 DEF Busy
<1>9. CallsInv /\ BdReply /\ DueInv /\ WriteInv /\ MatchInv
  <2>1. CallsInv
    <3>1. at[2] = "idle" /\ at[1] # "lock" /\ ~(Busy(1) /\ Busy(2))
      BY <1>8 DEF Threads
    <3>2. left.as # "fhi" BY <1>1
    <3> QED BY <1>8, <3>1, <3>2 DEF CallsInv
  <2>2. BdReply /\ DueInv /\ WriteInv
    BY <1>8 DEF BdReply, DueInv, WriteInv, Sends
  <2>3. MatchInv BY <1>1 DEF MatchInv
  <2> QED BY <2>1, <2>2, <2>3
<1>10. OpenInv
  <2>1. \A fd \in Fds : due.files[fd] = Closed /\ due.old[fd] = Closed BY <1>1
  <2> QED BY <1>1, <2>1 DEF OpenInv, Closed
<1> QED BY <1>3, <1>4, <1>5, <1>6, <1>7, <1>9, <1>10 DEF IInv

\* A step that takes no message does nothing to the files.
LEMMA FilesStay ==
    ASSUME Next, \A t \in Threads : ~Exchange(t)
    PROVE  UNCHANGED <<tree, data>>
<1>1. UnchangedServer => UNCHANGED <<tree, data>> BY DEF UnchangedServer
<1>2. ASSUME NEW c \in Inputs, CallFile(c) \/ CallBd(c) PROVE UNCHANGED <<tree, data>>
  BY <1>1, <1>2 DEF CallFile, CallBd
<1>3. ASSUME NEW t \in Threads, NEW c \in Inputs, CallFhi(t, c) PROVE UNCHANGED <<tree, data>>
  BY <1>1, <1>3 DEF CallFhi
<1>4. ASSUME NEW t \in Threads, FhiLock(t) PROVE UNCHANGED <<tree, data>>
  BY <1>1, <1>4 DEF FhiLock
<1>5. ASSUME NEW t \in Threads, Dropped(t) PROVE UNCHANGED <<tree, data>>
  BY <1>5 DEF Dropped, serverVars
<1>6. ASSUME NEW t \in Threads, NoAnswer(t) \/ Lost(t) PROVE UNCHANGED <<tree, data>>
  BY <1>1, <1>6 DEF NoAnswer, Lost, Fails
<1>7. ASSUME NEW t \in Threads, Took(t) PROVE UNCHANGED <<tree, data>>
  BY <1>1, <1>7 DEF Took
<1>8. ASSUME NEW t \in Threads,
             \/ TakeOpen(t) \/ TakeClose(t) \/ TakeValue(t) \/ TakeRead(t)
             \/ TakeSectors(t) \/ TakeWritten(t)
      PROVE  UNCHANGED <<tree, data>>
  BY <1>7, <1>8 DEF TakeOpen, TakeClose, TakeValue, TakeRead, TakeSectors, TakeWritten
<1>9. ASSUME NEW t \in Threads, TakeCapacity(t) PROVE UNCHANGED <<tree, data>>
  BY <1>1, <1>9 DEF TakeCapacity
<1>10. ASSUME Boot PROVE UNCHANGED <<tree, data>>
  BY <1>1, <1>10 DEF Boot
<1>11. ASSUME PcRestarts PROVE UNCHANGED <<tree, data>>
  BY <1>11 DEF PcRestarts, ServerRestart
<1> QED BY <1>2, <1>3, <1>4, <1>5, <1>6, <1>8, <1>9, <1>10, <1>11 DEF Next

LEMMA StepKeeps ==
    ASSUME IInv, Next
    PROVE  IInv'
<1>1. ASSUME NEW c \in Inputs, CallFile(c) \/ CallBd(c) PROVE IInv'
  BY <1>1, CallFileKeeps, CallBdKeeps
<1>2. ASSUME NEW t \in Threads, NEW c \in Inputs, CallFhi(t, c) PROVE IInv'
  BY <1>2, CallFhiKeeps
<1>3. ASSUME NEW t \in Threads, FhiLock(t) PROVE IInv'
  BY <1>3, FhiLockKeeps
<1>4. ASSUME NEW t \in Threads, Exchange(t) PROVE IInv'
  BY <1>4, Exchanged
<1>5. ASSUME NEW t \in Threads, Dropped(t) PROVE IInv'
  BY <1>5, DroppedKeeps
<1>6. ASSUME NEW t \in Threads, NoAnswer(t) \/ Lost(t) PROVE IInv'
  BY <1>6, NoAnswerKeeps, LostKeeps
<1>7. ASSUME NEW t \in Threads, TakeOpen(t) \/ TakeClose(t) \/ TakeValue(t) \/ TakeRead(t)
      PROVE  IInv'
  BY <1>7, TakeOpenKeeps, TakeCloseKeeps, TakeValueKeeps, TakeReadKeeps
<1>8. ASSUME NEW t \in Threads, TakeSectors(t) \/ TakeWritten(t) \/ TakeCapacity(t) PROVE IInv'
  BY <1>8, TakeSectorsKeeps, TakeWrittenKeeps, TakeCapacityKeeps
<1>9. Boot => IInv' BY BootKeeps
<1>10. PcRestarts => IInv' BY PcRestartsKeeps
<1> QED BY <1>1, <1>2, <1>3, <1>4, <1>5, <1>6, <1>7, <1>8, <1>9, <1>10 DEF Next

\* The invariant of the files, the handles and the calls under way, for
\* every server, every history and files of any size.
THEOREM ServerAndConsole == Spec => []IInv
<1>1. Init => IInv BY InitHolds
<1>2. IInv /\ [Next]_vars => IInv'
  <2> SUFFICES ASSUME IInv, [Next]_vars PROVE IInv'
    OBVIOUS
  <2>1. CASE Next
    BY <2>1, StepKeeps
  <2>2. CASE UNCHANGED vars
    <3>1. UNCHANGED <<tree, data, handles, next_handle, write, reply, serving, read_only, link,
                      g_fds, fhi, bd, g_sema, at, call, done, got, ret, left, due>>
      BY <2>2 DEF vars, serverVars, clientVars
    <3>2. ServerTypes' /\ TreeInv' /\ TableInv'
      BY <3>1, ServerStays DEF UnchangedServer
    <3>3. ASSUME NEW files, NEW c PROVE Due(files, c)' = Due(files, c)
      BY <3>1, DueSame DEF SameTrees
    <3>4. ClientTypes' BY <3>1 DEF IInv, ClientTypes
    <3>5. NoWriteInv' /\ CallsInv' /\ BdReply'
      BY <3>1 DEF IInv, NoWriteInv, CallsInv, BdReply, Busy
    <3>6. DueInv' BY <3>1, <3>3 DEF IInv, DueInv, Sends
    <3>7. WriteInv' BY <3>1 DEF IInv, WriteInv, Collected, Handle, total_chunks
    <3>8. OpenInv' BY <3>1 DEF IInv, OpenInv, AreOpen, IsOpen, Table, Busy
    <3>9. MatchInv'
      <4>1. ASSUME NEW table, NEW files PROVE Matches(table, files)' <=> Matches(table, files)
        BY <3>1 DEF Matches, IsOpen, SamePlace
      <4>2. ASSUME NEW c PROVE Come(c)' = Come(c) /\ AfterTable(c)' = AfterTable(c)
                               /\ AfterFiles(c)' = AfterFiles(c)
        BY <3>1 DEF Come, Moved, AfterTable, AfterFiles, _alloc_fd, FreeFds
      <4>3. ASSUME NEW c PROVE Allowed(c)' <=> Allowed(c)
        BY <3>1 DEF Allowed, Bytes, FreeFds
      <4>4. ASSUME NEW c PROVE Answered(c)' <=> Answered(c)
        BY <3>1, <4>1, <4>2 DEF Answered, ReadEnds, Bytes
      <4>5. Matches(g_fds, due.files)' <=> Matches(g_fds, due.files)
        BY <3>1, <4>1
      <4>6. Matches(g_fds, Come(call[1]))' <=> Matches(g_fds, Come(call[1]))
        BY <3>1, <4>1, <4>2
      <4>7. (Allowed(call[1])' <=> Allowed(call[1])) /\ (Answered(call[1])' <=> Answered(call[1]))
        BY <3>1, <4>3, <4>4
      <4> QED BY <3>1, <4>5, <4>6, <4>7 DEF IInv, MatchInv, Busy
    <3> QED BY <3>2, <3>4, <3>5, <3>6, <3>7, <3>8, <3>9 DEF IInv
  <2> QED BY <2>1, <2>2
<1> QED BY <1>1, <1>2, PTL DEF Spec

\* Between two calls the console's handles are those of its files on the
\* server, at the caller's place, and the server has no others of this stage:
\* HandlesMatch, of udpfs_ioman.c and udpfs_fhi.c with udpfs_server.py.
THEOREM HandlesAreTheirs == Spec => []HandlesMatch
<1>1. IInv => HandlesMatch
  <2> SUFFICES ASSUME IInv, Orderly, link = "up", ~left.pc
               PROVE  /\ left.as = "ioman" =>
                           /\ \A fd \in Fds :
                                IF g_fds[fd] < 0 THEN due.files[fd] = Closed
                                ELSE /\ SameFile(g_fds[fd], due.files[fd])
                                     /\ SamePlace(g_fds[fd], due.files[fd])
                           /\ \A h \in DOMAIN handles :
                                h >= left.since => \E fd \in Fds : g_fds[fd] = h
                      /\ left.as = "fhi" =>
                           \A fd \in Fds : fhi[fd] >= 0 => SameFile(fhi[fd], due.files[fd])
    BY DEF HandlesMatch
  <2>1. \A h, f : IsOpen(h, f) => SameFile(h, f) BY DEF IsOpen, SameFile
  <2>2. CASE left.as = "ioman"
    <3>1. Matches(g_fds, due.files) BY <2>2 DEF IInv, MatchInv, Orderly, Threads
    <3> QED BY <2>1, <2>2, <3>1 DEF Matches
  <2>3. CASE left.as = "fhi"
    BY <2>1, <2>3 DEF IInv, OpenInv, AreOpen
  <2> QED BY <2>2, <2>3
<1> QED BY <1>1, ServerAndConsole, PTL

\* A file on the server changes in one step, to what the call under way
\* makes of it: OnlyWholeWrites, of udpfs_server.py's write handlers with
\* the chunks of udpfs_core.c.
THEOREM WritesAreWhole == Spec => OnlyWholeWrites
<1>1. IInv /\ [Next]_vars =>
        [<<tree, data>>' # <<tree, data>> =>
           /\ \E t \in Threads : at[t] = "send"
           /\ <<tree, data>>' = <<due.tree, due.data>>]_vars
  <2> SUFFICES ASSUME IInv, Next, <<tree, data>>' # <<tree, data>>
               PROVE  /\ \E t \in Threads : at[t] = "send"
                      /\ <<tree, data>>' = <<due.tree, due.data>>
    OBVIOUS
  <2>1. PICK t \in Threads : Exchange(t)
    BY FilesStay
  <2>2. at[t] = "send" BY <2>1 DEF Exchange
  <2> QED BY <2>1, <2>2, Exchanged
<1> QED BY <1>1, ServerAndConsole, PTL DEF Spec, OnlyWholeWrites

-----------------------------------------------------------------------------
(* What the calls return.                                                  *)

\* The calls that may change a file.
Changes == {"udpfs_open", "udpfs_mkdir", "udpfs_remove", "udpfs_rmdir"} \union Writes
AsDue == tree = due.tree /\ data = due.data

\* Where a call may fail that would not on local files.
Excused == due.res < 0 \/ TableFull \/ left.pc

\* What is in the buffer of a read is what is due, as far as it got. A part
\* of a block read that comes short leaves what it does not have.
Filled(c) ==
    /\ c.op = "udpfs_read" => done <= Len(due.got) /\ got = SubSeq(due.got, 1, done)
    /\ c.op \in Reads =>
         /\ got \in Seq(Int) /\ Len(got) = done * SectorUnits
         /\ \A i \in 1 .. Len(got) : i <= Len(due.got) => got[i] = due.got[i]
    /\ c.op \notin Reads \union {"udpfs_read"} => got = NoBuffer

PartUnits(c) == Smaller(c.count - done, MaxSectorRead) * SectorUnits

\* A reply that reports success is what is due.
Replied(c) ==
    /\ AsDue
    /\ c.op \in Opens => due.res = 0 /\ due.got = NoBuffer
    /\ c.op \in OnNames \union {"udpfs_lseek64", "udpfs_dread"} =>
         /\ reply.result = due.res /\ reply.data = due.got
         /\ SubSeq(due.got, 1, Len(due.got)) = due.got
    /\ c.op = "udpfs_read" =>
         /\ due.got \in Seq(Int) /\ due.res = Len(due.got)
         /\ done + reply.result <= Len(due.got)
         /\ reply.data = SubSeq(due.got, done + 1, done + reply.result)
         /\ ReadEnds(c) => done + reply.result = Len(due.got)
    /\ c.op \in Reads =>
         /\ due.got \in Seq(Int) /\ due.res = c.count /\ Len(due.got) <= c.count * SectorUnits
         /\ reply.data \in Seq(Int)
         /\ \A i \in 1 .. PartUnits(c) : done * SectorUnits + i <= Len(due.got) =>
              i <= Len(reply.data) /\ reply.data[i] = due.got[done * SectorUnits + i]
    /\ c.op \in Writes =>
         /\ due.got = NoBuffer
         /\ due.res = IF c.op = "udpfs_write" THEN reply.result ELSE c.count
    /\ c = BdInit => reply.data[2] \div SectorUnits = due.res

\* What is known of a call whose messages are under way.
Answers(t) ==
    /\ call[t].op \notin Changes => AsDue
    /\ call[t].op \in Closes => due.res = 0 /\ due.got = NoBuffer
    /\ call[t] = BdInit => due.res = DeviceSectors /\ due.got = NoBuffer
    /\ Filled(call[t])
    /\ reply # NoReply /\ reply.result < 0 /\ call[t] # BdInit => Excused
    /\ at[t] = "send" /\ reply # NoReply => reply.result < 0 /\ call[t] # BdInit
    /\ at[t] = "wait" /\ reply # NoReply /\ reply.result >= 0 => Replied(call[t])

AnswerInv ==
    /\ left.plan \in Seq(Stages)
    /\ \A t \in Threads : Busy(t) => Answers(t)

\* What is due of a close.
LEMMA AnswerOfClose ==
    ASSUME NEW files, NEW c, c.op \in Closes
    PROVE  Due(files, c).res = 0 /\ Due(files, c).got = NoBuffer
<1>1. Due(files, c) = [Result(files, 0, NoBuffer) EXCEPT !.files[c.fd] = Closed]
  BY DueOf
<1>2. Due(files, c) = [res |-> 0, got |-> NoBuffer, tree |-> tree, data |-> data,
                       files |-> [files EXCEPT ![c.fd] = Closed], old |-> files]
  BY <1>1 DEF Result
<1> QED BY <1>2

\* What is due of an open: a slot, or a refusal.
LEMMA AnswerOfOpen ==
    ASSUME NEW files, NEW c, c.op \in Opens
    PROVE  /\ Due(files, c).got = NoBuffer
           /\ c.op = "udpfs_open" => Due(files, c).res = IF Refuses(c) THEN EIO ELSE 0
           /\ c.op = "udpfs_dopen" =>
                Due(files, c).res = IF ~RootDir \/ Kind(c.path) # "dir" THEN EIO ELSE 0
<1>1. CASE c.op = "udpfs_open"
  <2>1. Due(files, c) = LocalOpen(files, _alloc_fd, c) BY <1>1, DueOf
  <2>2. LocalOpen(files, _alloc_fd, c).got = NoBuffer
        /\ LocalOpen(files, _alloc_fd, c).res = IF Refuses(c) THEN EIO ELSE 0
    BY DEF LocalOpen, Result
  <2> QED BY <1>1, <2>1, <2>2
<1>2. CASE c.op = "udpfs_dopen"
  <2>1. Due(files, c) = LocalDopen(files, _alloc_fd, c) BY <1>2, DueOf
  <2>2. /\ LocalDopen(files, _alloc_fd, c).got = NoBuffer
        /\ LocalDopen(files, _alloc_fd, c).res =
             IF ~RootDir \/ Kind(c.path) # "dir" THEN EIO ELSE 0
    BY DEF LocalDopen, Result
  <2> QED BY <1>2, <2>1, <2>2
<1> QED BY <1>1, <1>2 DEF Opens

\* What is due of a read: the bytes at the position.
LEMMA AnswerOfRead ==
    ASSUME NEW files, NEW c, c.op = "udpfs_read",
           NEW g, g = ReadAt(Bytes(files[c.fd]), files[c.fd].pos, c.size)
    PROVE  Due(files, c).res = Len(g) /\ Due(files, c).got = g
<1>1. Due(files, c) = [Result(files, Len(g), g) EXCEPT
                         !.files[c.fd].pos = files[c.fd].pos + Len(g)]
  BY DueOf DEF LocalRead
<1>2. Due(files, c) = [res |-> Len(g), got |-> g, tree |-> tree, data |-> data,
                       files |-> [files EXCEPT ![c.fd].pos = files[c.fd].pos + Len(g)],
                       old |-> files]
  BY <1>1 DEF Result
<1> QED BY <1>2

\* What is due of a write of a file.
LEMMA AnswerOfWrite ==
    ASSUME NEW files, NEW c, c.op = "udpfs_write"
    PROVE  Due(files, c).res = c.size /\ Due(files, c).got = NoBuffer
<1> DEFINE ino == files[c.fd].ino
           from == WriteFrom(files[c.fd])
           w == WrittenAt(data[ino], from, c.data)
<1>1. Due(files, c) = [Result(files, c.size, NoBuffer) EXCEPT
                         !.data[ino] = w, !.files[c.fd].pos = from + c.size]
  BY DueOf DEF LocalWrite
<1> HIDE DEF ino, from, w
<1>2. Due(files, c) = [res |-> c.size, got |-> NoBuffer, tree |-> tree,
                       data |-> [data EXCEPT ![ino] = w],
                       files |-> [files EXCEPT ![c.fd].pos = from + c.size], old |-> files]
  BY <1>1 DEF Result
<1> QED BY <1>2

\* What is due of a seek.
LEMMA AnswerOfSeek ==
    ASSUME NEW files, NEW c, c.op = "udpfs_lseek64", NEW pos, pos = SeekPlace(files[c.fd], c)
    PROVE  /\ Due(files, c).res = IF pos < 0 THEN EINVAL ELSE pos
           /\ Due(files, c).got = NoBuffer
<1>1. Due(files, c) = IF pos < 0 THEN Result(files, EINVAL, NoBuffer)
                      ELSE [Result(files, pos, NoBuffer) EXCEPT !.files[c.fd].pos = pos]
  BY DueOf DEF LocalSeek
<1>2. CASE pos < 0
  BY <1>1, <1>2 DEF Result
<1>3. CASE ~(pos < 0)
  <2>1. Due(files, c) = [res |-> pos, got |-> NoBuffer, tree |-> tree, data |-> data,
                         files |-> [files EXCEPT ![c.fd].pos = pos], old |-> files]
    BY <1>1, <1>3 DEF Result
  <2> QED BY <2>1, <1>3
<1> QED BY <1>2, <1>3

\* What is due of the next entry of a list.
LEMMA AnswerOfDread ==
    ASSUME NEW files, NEW c, c.op = "udpfs_dread", NEW names, names = files[c.fd].names
    PROVE  /\ names = <<>> => Due(files, c).res = 0 /\ Due(files, c).got = NoBuffer
           /\ names # <<>> =>
                /\ Due(files, c).res = IF Exists(Head(names)) THEN 1 ELSE 0
                /\ Due(files, c).got =
                     IF ~Exists(Head(names)) THEN NoBuffer
                     ELSE IF IsCompressed(Head(names)) /\ Unpacks(Head(names))
                     THEN <<AliasOf(Head(names)), "file", Len(Unpacked[tree[Head(names)].ino])>>
                     ELSE <<Head(names), Kind(Head(names)),
                            IF Kind(Head(names)) = "dir" THEN 0
                            ELSE Len(data[tree[Head(names)].ino])>>
<1>1. CASE names = <<>>
  <2>3. files[c.fd].names = <<>> BY <1>1
  <2>4. Due(files, c) = LocalDread(files, c) BY DueOf
  <2>1. Due(files, c) = Result(files, 0, NoBuffer)
    BY <2>3, <2>4, ZenonT(60) DEF LocalDread
  <2>2. Due(files, c).res = 0 /\ Due(files, c).got = NoBuffer BY <2>1 DEF Result
  <2> QED BY <2>2, <1>1
<1>2. CASE names # <<>>
  <2> DEFINE name == Head(names)
             r == IF Exists(name) THEN 1 ELSE 0
             g == IF ~Exists(name) THEN NoBuffer
                  ELSE IF IsCompressed(name) /\ Unpacks(name)
                  THEN <<AliasOf(name), "file", Len(Unpacked[tree[name].ino])>>
                  ELSE <<name, Kind(name),
                         IF Kind(name) = "dir" THEN 0 ELSE Len(data[tree[name].ino])>>
  <2>1. Due(files, c) = [Result(files, r, g) EXCEPT !.files[c.fd].names = Tail(names)]
    BY <1>2, DueOf DEF LocalDread
  <2> HIDE DEF r, g
  <2>2. Due(files, c) = [res |-> r, got |-> g, tree |-> tree, data |-> data,
                         files |-> [files EXCEPT ![c.fd].names = Tail(names)], old |-> files]
    BY <2>1 DEF Result
  <2>3. Due(files, c).res = r /\ Due(files, c).got = g BY <2>2
  <2> QED BY <2>3, <1>2 DEF r, g
<1> QED BY <1>1, <1>2

\* What is due of sectors read or written.
LEMMA AnswerOfSectors ==
    ASSUME NEW files, NEW c, c.op \in FhiCalls \cup BdCalls,
           NEW content, content = IF c.op \in FhiCalls THEN Bytes(files[c.fd]) ELSE data[BlockDevice]
    PROVE  /\ c.op \in Reads =>
                /\ Due(files, c).res = c.count
                /\ Due(files, c).got = ReadAt(content, c.sector * SectorUnits, c.count * SectorUnits)
           /\ c.op \notin Reads => Due(files, c).got = NoBuffer
           /\ c.op \notin Reads => Due(files, c).res = IF read_only THEN EACCES ELSE c.count
<1> DEFINE ino == IF c.op \in FhiCalls THEN files[c.fd].ino ELSE BlockDevice
           W == WrittenAt(content, c.sector * SectorUnits, SubSeq(c.data, 1, c.count * SectorUnits))
           g == ReadAt(content, c.sector * SectorUnits, c.count * SectorUnits)
<1>1. Due(files, c) = Sectors(files, ino, content, c, c.count)
  BY DueOf DEF FhiCalls, BdCalls
<1> HIDE DEF ino
<1>2. CASE c.op \in Reads
  <2>1. Due(files, c) = Result(files, c.count, g)
    BY <1>1, <1>2 DEF Sectors, Reads
  <2> HIDE DEF g
  <2>2. Due(files, c).res = c.count /\ Due(files, c).got = g BY <2>1 DEF Result
  <2> QED BY <1>2, <2>2 DEF g
<1>3. CASE c.op \notin Reads /\ read_only
  <2>1. Due(files, c) = Result(files, EACCES, NoBuffer)
    BY <1>1, <1>3 DEF Sectors, Reads, FhiCalls, BdCalls
  <2>2. Due(files, c).res = EACCES /\ Due(files, c).got = NoBuffer
    BY <2>1 DEF Result
  <2> QED BY <2>2, <1>3
<1>4. CASE c.op \notin Reads /\ ~read_only
  <2>1. Due(files, c) = [Result(files, c.count, NoBuffer) EXCEPT !.data[ino] = W]
    BY <1>1, <1>4 DEF Sectors, Reads
  <2> HIDE DEF W
  <2>2. Due(files, c) = [res |-> c.count, got |-> NoBuffer, tree |-> tree,
                         data |-> [data EXCEPT ![ino] = W], files |-> files, old |-> files]
    BY <2>1 DEF Result
  <2> QED BY <2>2, <1>4
<1> QED BY <1>2, <1>3, <1>4

\* Nobody else has a message under way.
LEMMA NoOther ==
    ASSUME IInv, NEW t \in Threads, Busy(t), NEW u \in Threads, u # t
    PROVE  ~Busy(u)
BY DEF IInv, CallsInv, Threads

\* Steps that leave what a call has come to.
LEMMA SameAnswers ==
    ASSUME AnswerInv, UNCHANGED <<tree, data, handles, done, got, reply, due>>,
           left'.plan = left.plan, left'.pc = left.pc,
           \A u \in Threads : Busy(u)' => at'[u] = at[u] /\ call'[u] = call[u]
    PROVE  AnswerInv'
<1>1. TableFull' = TableFull /\ (Excused' <=> Excused) /\ (AsDue' <=> AsDue)
  BY DEF TableFull, Excused, AsDue
<1>2. ASSUME NEW c
      PROVE  /\ Filled(c)' <=> Filled(c)
             /\ Replied(c)' <=> Replied(c)
  BY <1>1 DEF Filled, Replied, ReadEnds, PartUnits
<1>3. ASSUME NEW u \in Threads, Busy(u)' PROVE Answers(u)'
  <2> DEFINE c == call[u]
  <2>1. at'[u] = at[u] /\ call'[u] = c /\ Busy(u) BY <1>3 DEF Busy
  <2>2. Answers(u) BY <2>1 DEF AnswerInv
  <2>4. /\ Filled(call[u])' <=> Filled(c)
        /\ Replied(call[u])' <=> Replied(c)
    BY <2>1, <1>2 DEF Filled, Replied, ReadEnds, PartUnits
  <2> QED BY <2>1, <2>2, <2>4, <1>1 DEF Answers
<1> QED BY <1>3 DEF AnswerInv

\* A call that starts.
LEMMA StartAnswers ==
    ASSUME IInv, IInv', AnswerInv, NEW t \in Threads, NEW c \in Asked, Starts(t, c),
           \A u \in Threads : ~Busy(u),
           c.op = "udpfs_read" => "RD" \in due.files[c.fd].can,
           UnchangedServer, left'.plan = left.plan
    PROVE  AnswerInv'
<1> DEFINE d == Due(due.files, c)
<1>1. /\ at' = [at EXCEPT ![t] = "send"] /\ call' = [call EXCEPT ![t] = c]
      /\ done' = 0 /\ got' = NoBuffer /\ reply' = NoReply /\ due' = d
      /\ UNCHANGED <<tree, data>>
  BY DEF Starts, UnchangedServer
<1>2. at \in [Threads -> {"idle", "lock", "send", "wait"}]
      /\ call \in [Threads -> Asked \union {Idle, BdInit}] /\ due.files \in [Fds -> OpenFiles]
  BY DEF IInv, ClientTypes
<1>3. c # BdInit /\ c.op \in udpfs_device_ops \cup FhiCalls \cup BdCalls
  BY CallFields
<1>4. c.op \notin Changes => d.tree = tree /\ d.data = data
  <2> SUFFICES ASSUME c.op \notin Changes PROVE d.tree = tree /\ d.data = data
    OBVIOUS
  <2>1. CASE c.op \in Closes
    BY <2>1, DueClose
  <2>2. CASE c.op = "udpfs_read"
    BY <2>2, DueRead
  <2>3. CASE c.op = "udpfs_lseek64"
    BY <2>3, DueSeek
  <2>4. CASE c.op = "udpfs_dread"
    BY <2>4, DueDread
  <2>5. CASE c.op = "udpfs_dopen"
    BY <2>5, DueDopen
  <2>6. CASE c.op \in Reads
    <3>1. c.op \in FhiCalls \cup BdCalls BY <2>6 DEF Reads, FhiCalls, BdCalls
    <3> DEFINE content == IF c.op \in FhiCalls THEN Bytes(due.files[c.fd]) ELSE data[BlockDevice]
               ino == IF c.op \in FhiCalls THEN due.files[c.fd].ino ELSE BlockDevice
               g == ReadAt(content, c.sector * SectorUnits, c.count * SectorUnits)
    <3>2. d = Sectors(due.files, ino, content, c, c.count)
      BY <3>1, DueOf DEF FhiCalls, BdCalls
    <3>3. Sectors(due.files, ino, content, c, c.count) = Result(due.files, c.count, g)
      BY <2>6 DEF Sectors, Reads
    <3> HIDE DEF d, ino, content, g
    <3> QED BY <3>2, <3>3 DEF Result
  <2>7. CASE c.op = "udpfs_getstat"
    <3>1. d = LocalStat(due.files, c) BY <2>7, DueOf
    <3>2. LocalStat(due.files, c).tree = tree /\ LocalStat(due.files, c).data = data
      BY DEF LocalStat, Result
    <3> QED BY <3>1, <3>2
  <2> HIDE DEF d
  <2> QED BY <1>3, <2>1, <2>2, <2>3, <2>4, <2>5, <2>6, <2>7
           DEF Changes, Writes, Reads, udpfs_device_ops, Opens, Closes, OnNames, OnFiles,
               FhiCalls, BdCalls
<1>5. c.op \in Closes => d.res = 0 /\ d.got = NoBuffer BY AnswerOfClose
<1>6. c.op = "udpfs_read" => Len(d.got) \in Nat /\ SubSeq(d.got, 1, 0) = <<>>
  <2> SUFFICES ASSUME c.op = "udpfs_read" PROVE Len(d.got) \in Nat /\ SubSeq(d.got, 1, 0) = <<>>
    OBVIOUS
  <2> DEFINE f == due.files[c.fd]
             g == ReadAt(Bytes(f), f.pos, c.size)
  <2>1. c.fd \in Fds /\ c.size \in Nat BY CallFields DEF OnFiles
  <2>2. f \in OpenFiles /\ f.kind \in {"file", "alias"} /\ f.pos \in Nat
    BY <1>2, <2>1, OpenFileParts
  <2>3. Bytes(f) \in Seq(Int) BY <2>2, BytesType DEF IInv
  <2>4. g \in Seq(Int) BY <2>1, <2>2, <2>3, ReadLength
  <2>5. d.got = g BY AnswerOfRead
  <2> HIDE DEF g, d
  <2> QED BY <2>4, <2>5
<1> HIDE DEF d
<1>7. ASSUME NEW u \in Threads, Busy(u)' PROVE Answers(u)'
  <2>1. u = t BY <1>1, <1>2, <1>7 DEF Busy
  <2>2. call'[u] = c /\ at'[u] = "send" BY <2>1, <1>1, <1>2
  <2>3. Filled(call[u])'
    <3>1. SectorUnits \in Nat BY FilesAssumption
    <3>5. 0 * SectorUnits = 0 BY <3>1
    <3>2. <<>> \in Seq(Int) /\ Len(<<>>) = 0
      OBVIOUS
    <3>3. got' = <<>> BY <1>1 DEF NoBuffer
    <3>4. "udpfs_read" \notin Reads BY DEF Reads
    <3> QED BY <2>2, <1>1, <1>6, <3>5, <3>2, <3>3, <3>4 DEF Filled
  <2> QED BY <2>2, <2>3, <1>1, <1>3, <1>4, <1>5 DEF Answers, AsDue
<1> QED BY <1>7 DEF AnswerInv

\* A call that returns leaves nobody with a message under way.
LEMMA ReturnAnswers ==
    ASSUME IInv, AnswerInv, NEW t \in Threads, \A u \in Threads : u # t => ~Busy(u),
           NEW res, Returns(t, res), left'.plan = left.plan
    PROVE  AnswerInv'
<1>1. at' = [at EXCEPT ![t] = "idle"] /\ at \in [Threads -> {"idle", "lock", "send", "wait"}]
  BY DEF Returns, IInv, ClientTypes
<1>2. \A u \in Threads : ~Busy(u)' BY <1>1 DEF Busy
<1> QED BY <1>2 DEF AnswerInv

\* The calls.
LEMMA CallFileAnswers ==
    ASSUME IInv, IInv', AnswerInv, NEW c \in Inputs, CallFile(c)
    PROVE  AnswerInv'
<1>1. c \in Asked BY InputsAssumption DEF Asked
<1>2. /\ left.as = "ioman" /\ at[1] = "idle" /\ IomanAllows(c) /\ UnchangedServer
  BY DEF CallFile, MayCall
<1>3. left'.plan = left.plan /\ left'.pc = left.pc
  BY DEF CallFile, Spends, IInv, ClientTypes
<1>4. \A u \in Threads : ~Busy(u) BY <1>2 DEF IInv, CallsInv, Busy, Threads
<1>5. CASE UNCHANGED <<at, call, done, got, reply, due>>
  BY <1>2, <1>3, <1>5, SameAnswers DEF UnchangedServer
<1>6. CASE Starts(1, c)
  <2>1. c.op = "udpfs_read" => "RD" \in due.files[c.fd].can
    BY <1>2 DEF IomanAllows
  <2>2. 1 \in Threads BY DEF Threads
  <2> DEFINE one == 1
  <2>3. Starts(one, c) /\ one \in Threads BY <1>6, <2>2
  <2> HIDE DEF one
  <2> QED BY <1>1, <1>2, <1>3, <1>4, <2>1, <2>3, StartAnswers
<1> QED BY <1>5, <1>6 DEF CallFile, ReturnsAtOnce

\* A call on the block device, cut off at its end.
LEMMA CallBdAnswers ==
    ASSUME IInv, IInv', AnswerInv, NEW c \in Inputs, CallBd(c)
    PROVE  AnswerInv'
<1>1. c \in Asked BY InputsAssumption DEF Asked
<1>2. /\ left.as = "bd" /\ c.op \in BdCalls /\ at[1] = "idle" /\ bd > 0 /\ UnchangedServer
  BY DEF CallBd, MayCall
<1>3. left'.plan = left.plan /\ left'.pc = left.pc
  BY DEF CallBd, Spends, IInv, ClientTypes
<1>4. \A u \in Threads : ~Busy(u) BY <1>2 DEF IInv, CallsInv, Busy, Threads
<1>5. CASE UNCHANGED <<at, call, done, got, reply, due>>
  BY <1>2, <1>3, <1>5, SameAnswers DEF UnchangedServer
<1>6. CASE Starts(1, Clamped(c)) /\ ~(c.sector >= bd)
  <2>1. bd \in Sizes /\ c.sector \in Nat
    BY <1>1, <1>2, CallFields DEF IInv, ClientTypes
  <2> DEFINE k == Clamped(c)
             one == 1
  <2>2. k \in Asked /\ k.op \in BdCalls BY <1>1, <1>2, <1>6, <2>1, ClampedAsked
  <2>3. Starts(one, k) /\ one \in Threads BY <1>6 DEF Threads
  <2> HIDE DEF k, one
  <2>4. k.op # "udpfs_read" BY <2>2 DEF BdCalls
  <2> QED BY <1>2, <1>3, <1>4, <2>2, <2>3, <2>4, StartAnswers
<1> QED BY <1>5, <1>6 DEF CallBd, ReturnsAtOnce

\* A call of the game that waits for the semaphore.
LEMMA CallFhiAnswers ==
    ASSUME IInv, IInv', AnswerInv, NEW t \in Threads, NEW c \in Inputs, CallFhi(t, c)
    PROVE  AnswerInv'
<1>1. UnchangedServer /\ UNCHANGED <<done, got, reply, due>> /\ at[t] = "idle"
  BY DEF CallFhi, MayCall, ReturnsAtOnce
<1>2. left'.plan = left.plan /\ left'.pc = left.pc
  BY DEF CallFhi, Spends, IInv, ClientTypes
<1>3. \/ UNCHANGED <<at, call>>
      \/ at' = [at EXCEPT ![t] = "lock"] /\ call' = [call EXCEPT ![t] = c]
  BY DEF CallFhi, ReturnsAtOnce
<1>4. at \in [Threads -> {"idle", "lock", "send", "wait"}]
      /\ call \in [Threads -> Asked \union {Idle, BdInit}]
  BY DEF IInv, ClientTypes
<1>5. \A u \in Threads : Busy(u)' => at'[u] = at[u] /\ call'[u] = call[u]
  BY <1>3, <1>4 DEF Busy
<1> QED BY <1>1, <1>2, <1>5, SameAnswers DEF UnchangedServer

\* A call of the game that has it.
LEMMA FhiLockAnswers ==
    ASSUME IInv, IInv', AnswerInv, NEW t \in Threads, FhiLock(t)
    PROVE  AnswerInv'
<1>1. at[t] = "lock" /\ g_sema = 1 /\ UnchangedServer /\ left' = left
  BY DEF FhiLock
<1>2. left.as = "fhi" BY <1>1 DEF IInv, CallsInv, Threads
<1>3. \A u \in Threads : ~Busy(u) BY <1>1, <1>2 DEF IInv, CallsInv
<1>4. CASE ~udpfs_core_is_connected
  <2> DEFINE zero == 0
  <2>1. Returns(t, zero) BY <1>4 DEF FhiLock
  <2> HIDE DEF zero
  <2> QED BY <1>1, <1>3, <2>1, ReturnAnswers
<1>5. CASE udpfs_core_is_connected
  <2> DEFINE k == call[t]
  <2>1. Starts(t, k) /\ k.op \in FhiCalls
    BY <1>1, <1>2, <1>5 DEF FhiLock, IInv, CallsInv
  <2>2. k \in Asked
    <3>1. k \in Asked \union {Idle, BdInit} BY DEF IInv, ClientTypes
    <3>2. k # Idle /\ k # BdInit BY <2>1 DEF Idle, BdInit, FhiCalls
    <3> QED BY <3>1, <3>2
  <2> HIDE DEF k
  <2>3. k.op # "udpfs_read" BY <2>1 DEF FhiCalls
  <2> QED BY <1>1, <1>3, <2>1, <2>2, <2>3, StartAnswers
<1> QED BY <1>4, <1>5

\* A new stage has at most the question for the size of the block device.
LEMMA BootAnswers ==
    ASSUME IInv, AnswerInv, Boot
    PROVE  AnswerInv'
<1>1. left.plan \in Seq(Stages) /\ left.plan # <<>> /\ left'.plan = Tail(left.plan)
  BY DEF AnswerInv, Boot
<1>2. left'.plan \in Seq(Stages) BY <1>1
<1> DEFINE F == IF HandedOver(Head(left.plan).as) THEN due.files ELSE [fd \in Fds |-> Closed]
           C == [fd \in Fds |-> Closed]
<1>3. /\ due'.res = DeviceSectors /\ due'.got = NoBuffer /\ due'.tree = tree /\ due'.data = data
      /\ UNCHANGED <<tree, data>> /\ got' = NoBuffer /\ reply' = NoReply
  <2>1. due \in [res : {due.res}, got : {due.got}, tree : {due.tree}, data : {due.data},
                 files : [Fds -> OpenFiles], old : [Fds -> OpenFiles]]
    BY DEF IInv, ClientTypes
  <2>2. due' = [due EXCEPT !.res = DeviceSectors, !.got = NoBuffer, !.tree = tree, !.data = data,
                           !.files = F, !.old = C]
    BY DEF Boot
  <2> HIDE DEF F, C
  <2>3. due' = [res |-> DeviceSectors, got |-> NoBuffer, tree |-> tree, data |-> data,
                files |-> F, old |-> C]
    BY <2>1, <2>2
  <2> QED BY <2>3 DEF Boot, UnchangedServer
<1>4. \A u \in Threads : Busy(u)' => call'[u] = BdInit
  <2>1. PICK c \in {IF Head(left.plan).as = "bd" /\ serving THEN BdInit ELSE Idle} :
           /\ call' = [t \in Threads |-> IF t = 1 THEN c ELSE Idle]
           /\ at' = [t \in Threads |-> IF t = 1 /\ c # Idle THEN "send" ELSE "idle"]
    BY DEF Boot, BdInit
  <2> QED BY <2>1 DEF Busy
<1>5. ASSUME NEW u \in Threads, Busy(u)' PROVE Answers(u)'
  <2>1. call'[u] = BdInit /\ BdInit.op = "udpfs_bd_init"
    BY <1>4, <1>5 DEF BdInit
  <2>2. BdInit.op \notin Reads \cup {"udpfs_read"} \cup Closes
    BY <2>1 DEF Reads, Closes
  <2>3. Filled(call[u])' BY <2>1, <2>2, <1>3 DEF Filled
  <2> QED BY <2>1, <2>2, <2>3, <1>3 DEF Answers, AsDue, DeviceSectors
<1> QED BY <1>2, <1>5 DEF AnswerInv

\* The server is started anew: what it was to answer it does not.
LEMMA PcAnswers ==
    ASSUME IInv, AnswerInv, PcRestarts
    PROVE  AnswerInv'
<1>1. /\ reply' = NoReply /\ UNCHANGED <<tree, data, at, call, done, got, due>>
      /\ left'.plan = left.plan
  BY DEF PcRestarts, ServerRestart, IInv, ClientTypes
<1>2. ASSUME NEW u \in Threads, Busy(u)' PROVE Answers(u)'
  <2>1. Busy(u) /\ Answers(u) BY <1>1, <1>2 DEF AnswerInv, Busy
  <2>2. Filled(call[u])' <=> Filled(call[u]) BY <1>1 DEF Filled
  <2> QED BY <2>1, <2>2, <1>1 DEF Answers, AsDue
<1> QED BY <1>1, <1>2 DEF AnswerInv

\* A chunk that is dropped: the write was refused.
LEMMA DroppedAnswers ==
    ASSUME IInv, IInv', AnswerInv, NEW t \in Threads, Dropped(t)
    PROVE  AnswerInv'
<1>1. /\ at[t] = "send" /\ reply # NoReply
      /\ UNCHANGED <<tree, data, handles, reply, call, got, left, due>>
      /\ at' = [at EXCEPT ![t] = IF MoreChunks(call[t]) THEN "send" ELSE "wait"]
      /\ done' = IF call[t].op \in Writes THEN done + 1 ELSE done
  BY DEF Dropped, Sent, serverVars
<1>2. at \in [Threads -> {"idle", "lock", "send", "wait"}]
  BY DEF IInv, ClientTypes
<1>3. Busy(t) /\ Answers(t) /\ reply.result < 0 /\ call[t] # BdInit
  BY <1>1 DEF Busy, AnswerInv, Answers
<1>4. Excused' /\ (AsDue' <=> AsDue)
  BY <1>1, <1>3 DEF Excused, TableFull, AsDue, Answers
<1>5. ASSUME NEW u \in Threads, Busy(u)' PROVE Answers(u)'
  <2>1. u = t
    <3>1. u # t => at'[u] = at[u] BY <1>1, <1>2
    <3> QED BY <3>1, <1>3, <1>5, NoOther DEF Busy
  <2>2. Filled(call[t])'
    <3>1. call[t].op \in Writes => call[t].op \notin Reads \cup {"udpfs_read"}
      BY DEF Writes, Reads
    <3> QED BY <3>1, <1>1, <1>3 DEF Filled, Answers
  <2>3. reply'.result < 0 /\ reply.result \in Int
    BY <1>1, <1>3 DEF IInv, ServerTypes
  <2> QED BY <2>1, <2>2, <2>3, <1>1, <1>3, <1>4 DEF Answers
<1> QED BY <1>1, <1>5 DEF AnswerInv

\* A call that fails returns.
LEMMA FailAnswers ==
    ASSUME IInv, AnswerInv, NEW t \in Threads, NoAnswer(t) \/ Lost(t)
    PROVE  AnswerInv'
<1>1. Busy(t) /\ Fails(t) BY DEF NoAnswer, Lost, Busy
<1>2. left'.plan = left.plan BY DEF NoAnswer, Lost, IInv, ClientTypes
<1>3. \A u \in Threads : u # t => ~Busy(u) BY <1>1, NoOther
<1> DEFINE res == Failure(t)
<1>4. Returns(t, res) BY <1>1 DEF Fails
<1> HIDE DEF res
<1> QED BY <1>2, <1>3, <1>4, ReturnAnswers

-----------------------------------------------------------------------------
(* What a message comes back with.                                         *)

\* A part of what a read is to have: n bytes after the first d of size.
PartOfRead(B, p, d, size, n) ==
    /\ B \in Seq(Int) /\ p \in Nat /\ d \in Nat /\ size \in Nat /\ n \in Nat
    /\ d < size /\ n <= size - d /\ (d > 0 => p + d <= Len(B))
IsPartOfRead(g, r, d, size, n) ==
    /\ g \in Seq(Int) /\ r \in Seq(Int)
    /\ d + Len(r) <= Len(g) /\ r = SubSeq(g, d + 1, d + Len(r))
    /\ Len(r) < n \/ d + Len(r) = size => d + Len(r) = Len(g)

\* The next part of a read is where the server reads from its position.
LEMMA ReadParts ==
    ASSUME NEW B, NEW p, NEW d, NEW size, NEW n, PartOfRead(B, p, d, size, n)
    PROVE  IsPartOfRead(ReadAt(B, p, size), ReadAt(B, p + d, n), d, size, n)
<1> DEFINE q == p + d
           g == ReadAt(B, p, size)
           r == ReadAt(B, q, n)
<1>0. /\ B \in Seq(Int) /\ p \in Nat /\ d \in Nat /\ size \in Nat /\ n \in Nat
      /\ d < size /\ n <= size - d /\ (d > 0 => p + d <= Len(B)) /\ q \in Nat /\ q = p + d
  BY DEF PartOfRead
<1>10. g = ReadAt(B, p, size) /\ r = ReadAt(B, q, n)
  OBVIOUS
<1> HIDE DEF q, g, r
<1>1. /\ g \in Seq(Int) /\ Len(g) = IF p < Len(B) THEN Smaller(size, Len(B) - p) ELSE 0
  BY <1>0, <1>10, ReadLength
<1>3. r \in Seq(Int) /\ Len(r) = IF q < Len(B) THEN Smaller(n, Len(B) - q) ELSE 0
  BY <1>0, <1>10, ReadLength
<1>4. Len(B) \in Nat /\ Len(g) \in Nat /\ Len(r) \in Nat
  BY <1>0, <1>10, <1>1, <1>3, LenProperties
<1>5. /\ d + Len(r) <= Len(g)
      /\ Len(r) < n \/ d + Len(r) = size => d + Len(r) = Len(g)
  <2> DEFINE lb == Len(B)
             lg == Len(g)
             lr == Len(r)
  <2>1. /\ lb \in Nat /\ lg \in Nat /\ lr \in Nat
        /\ lg = IF p < lb THEN Smaller(size, lb - p) ELSE 0
        /\ lr = IF q < lb THEN Smaller(n, lb - q) ELSE 0
        /\ d > 0 => q <= lb
    BY <1>0, <1>10, <1>1, <1>3, <1>4
  <2> HIDE DEF lb, lg, lr
  <2>2. /\ d + lr <= lg
        /\ lr < n \/ d + lr = size => d + lr = lg
    BY <1>0, <1>10, <2>1, SMTT(30) DEF Smaller
  <2> QED BY <1>0, <1>10, <2>2 DEF lb, lg, lr
<1>6. ASSUME NEW i \in 1 .. Len(g) PROVE g[i] = B[p + i]
  <2> DEFINE z == Smaller(p + size, Len(B))
             a == p + 1
  <2>1. g = SubSeq(B, a, z) BY <1>0, <1>10 DEF ReadAt
  <2>2. a \in Nat /\ z \in Nat /\ z <= Len(B) /\ i <= z - a + 1
    BY <1>0, <1>10, <1>1, <1>4, SMTT(30) DEF Smaller
  <2>3. a \in 1 .. Len(B) + 1 /\ z \in a - 1 .. Len(B)
    BY <1>0, <1>10, <2>2, <1>4, <1>1, SMTT(30) DEF Smaller
  <2> HIDE DEF z, a
  <2>4. g[i] = B[a + i - 1] BY <1>0, <1>10, <2>1, <2>2, <2>3
  <2>5. a + i - 1 = p + i BY <1>0, <1>10 DEF a
  <2> QED BY <1>0, <1>10, <2>4, <2>5
<1>7. ASSUME NEW i \in 1 .. Len(r) PROVE r[i] = B[q + i]
  <2> DEFINE z == Smaller(q + n, Len(B))
             a == q + 1
  <2>1. r = SubSeq(B, a, z) BY <1>0, <1>10 DEF ReadAt
  <2>2. a \in Nat /\ z \in Nat /\ z <= Len(B) /\ i <= z - a + 1
    BY <1>0, <1>10, <1>3, <1>4, SMTT(30) DEF Smaller
  <2>3. a \in 1 .. Len(B) + 1 /\ z \in a - 1 .. Len(B)
    BY <1>0, <1>10, <2>2, <1>3, <1>4, SMTT(30) DEF Smaller
  <2> HIDE DEF z, a
  <2>4. r[i] = B[a + i - 1] BY <1>0, <1>10, <2>1, <2>2, <2>3
  <2>5. a + i - 1 = q + i BY <1>0, <1>10 DEF a
  <2> QED BY <1>0, <1>10, <2>4, <2>5
<1>8. r = SubSeq(g, d + 1, d + Len(r))
  <2> DEFINE s == SubSeq(g, d + 1, d + Len(r))
             L == Len(r)
  <2>1. s \in Seq(Int) /\ Len(s) = L /\ \A i \in 1 .. L : s[i] = g[d + i]
    BY <1>0, <1>10, <1>1, <1>4, <1>5, SMTT(30)
  <2> HIDE DEF s
  <2>2. \A i \in 1 .. L : s[i] = r[i]
    <3> SUFFICES ASSUME NEW i \in 1 .. L PROVE s[i] = r[i]
      OBVIOUS
    <3>1. d + i \in 1 .. Len(g) /\ p + (d + i) = q + i
      BY <1>0, <1>10, <1>4, <1>5
    <3>2. g[d + i] = B[p + (d + i)] BY <1>0, <1>10, <1>6, <3>1
    <3> QED BY <1>0, <1>10, <2>1, <3>1, <3>2, <1>7
  <2>3. r = s
    <3>1. \A i \in 1 .. Len(r) : r[i] = s[i] BY <1>0, <1>10, <2>2
    <3> QED BY <1>0, <1>10, <2>1, <3>1, <1>3, SeqEqual
  <2> QED BY <1>0, <1>10, <2>3 DEF s
<1> QED BY <1>0, <1>10, <1>1, <1>3, <1>5, <1>8 DEF IsPartOfRead, g, r, q

\* A part of what a block read is to have: from where a file handle goes, as
\* far as the file goes.
PartOfSectors(B, p, d, size, n, from) ==
    /\ B \in Seq(Int) /\ p \in Nat /\ d \in Nat /\ size \in Nat /\ n \in Nat /\ from \in Nat
    /\ from = p + d \/ from = Larger(0, Smaller(p + d, Len(B)))
IsPartOfSectors(g, r, d, size, n) ==
    /\ g \in Seq(Int) /\ r \in Seq(Int) /\ Len(g) <= size
    /\ \A i \in 1 .. n : d + i <= Len(g) => i <= Len(r) /\ r[i] = g[d + i]

\* The next part of a block read is where the server goes first.
LEMMA SectorParts ==
    ASSUME NEW B, NEW p, NEW d, NEW size, NEW n, NEW from,
           PartOfSectors(B, p, d, size, n, from)
    PROVE  IsPartOfSectors(ReadAt(B, p, size), ReadAt(B, from, n), d, size, n)
<1> DEFINE g == ReadAt(B, p, size)
           r == ReadAt(B, from, n)
<1>0. /\ B \in Seq(Int) /\ p \in Nat /\ d \in Nat /\ size \in Nat /\ n \in Nat /\ from \in Nat
      /\ from = p + d \/ from = Larger(0, Smaller(p + d, Len(B)))
  BY DEF PartOfSectors
<1>10. g = ReadAt(B, p, size) /\ r = ReadAt(B, from, n)
  OBVIOUS
<1> HIDE DEF g, r
<1>1. /\ g \in Seq(Int) /\ Len(g) = IF p < Len(B) THEN Smaller(size, Len(B) - p) ELSE 0
      /\ Len(g) <= size
  BY <1>0, <1>10, ReadLength
<1>2. r \in Seq(Int) /\ Len(r) = IF from < Len(B) THEN Smaller(n, Len(B) - from) ELSE 0
  BY <1>0, <1>10, ReadLength
<1>3. Len(B) \in Nat /\ Len(g) \in Nat /\ Len(r) \in Nat
  BY <1>0, <1>10, <1>1, <1>2, LenProperties
<1>4. ASSUME NEW i \in 1 .. n, d + i <= Len(g) PROVE i <= Len(r) /\ r[i] = g[d + i]
  <2>1. p + d < Len(B) /\ p + d + i <= Len(B) /\ from = p + d
    BY <1>0, <1>10, <1>1, <1>3, <1>4, SMTT(30) DEF Smaller, Larger
  <2>2. i <= Len(r) BY <1>0, <1>10, <1>2, <1>3, <2>1 DEF Smaller
  <2>3. r[i] = B[from + i]
    <3> DEFINE z == Smaller(from + n, Len(B))
               a == from + 1
    <3>1. r = SubSeq(B, a, z) BY <1>0, <1>10 DEF ReadAt
    <3>2. a \in 1 .. Len(B) + 1 /\ z \in a - 1 .. Len(B) /\ i <= z - a + 1
      BY <1>0, <1>10, <1>3, <2>1, SMTT(30) DEF Smaller
    <3> HIDE DEF z, a
    <3>3. r[i] = B[a + i - 1] BY <1>0, <1>10, <3>1, <3>2
    <3>4. a + i - 1 = from + i BY <1>0, <1>10 DEF a
    <3> QED BY <1>0, <1>10, <3>3, <3>4
  <2>4. g[d + i] = B[p + (d + i)]
    <3> DEFINE z == Smaller(p + size, Len(B))
               a == p + 1
               j == d + i
    <3>1. g = SubSeq(B, a, z) BY <1>0, <1>10 DEF ReadAt
    <3>2. a \in 1 .. Len(B) + 1 /\ z \in a - 1 .. Len(B) /\ j \in 1 .. z - a + 1
      BY <1>0, <1>10, <1>1, <1>3, <1>4, <2>1, SMTT(30) DEF Smaller
    <3> HIDE DEF z, a, j
    <3>3. g[j] = B[a + j - 1] BY <1>0, <1>10, <3>1, <3>2
    <3>4. a + j - 1 = p + (d + i) BY <1>0, <1>10 DEF a, j
    <3> QED BY <1>0, <1>10, <3>3, <3>4 DEF j
  <2>5. from + i = p + (d + i) BY <1>0, <1>10, <2>1
  <2> QED BY <1>0, <1>10, <2>2, <2>3, <2>4, <2>5
<1> QED BY <1>0, <1>10, <1>1, <1>2, <1>4 DEF IsPartOfSectors, g, r

\* A call that changes nothing leaves the files as they are to be.
LEMMA ExchangeAsDue ==
    ASSUME IInv, AnswerInv, NEW t \in Threads, Exchange(t), call[t].op \notin Changes
    PROVE  AsDue'
<1>1. Answers(t) /\ UNCHANGED due BY ExchangeFacts DEF AnswerInv
<1>2. AsDue BY <1>1 DEF Answers
<1>3. <<tree, data>>' # <<tree, data>> => <<tree, data>>' = <<due.tree, due.data>>
  BY Exchanged
<1> QED BY <1>1, <1>2, <1>3 DEF AsDue

\* What is left to show of an exchange.
LEMMA ExchangeAnswers ==
    ASSUME IInv, AnswerInv, NEW t \in Threads, Exchange(t),
           reply' # NoReply /\ reply'.result < 0 /\ call[t] # BdInit => Excused',
           at'[t] = "send" /\ reply' # NoReply => reply'.result < 0 /\ call[t] # BdInit,
           at'[t] = "wait" /\ reply' # NoReply /\ reply'.result >= 0 => Replied(call[t])'
    PROVE  AnswerInv'
<1>1. /\ Busy(t) /\ UNCHANGED <<call, got, left, due>>
      /\ at' = [at EXCEPT ![t] = IF MoreChunks(call[t]) THEN "send" ELSE "wait"]
      /\ done' = IF call[t].op \in Writes THEN done + 1 ELSE done
  BY ExchangeFacts
<1>2. at \in [Threads -> {"idle", "lock", "send", "wait"}]
  BY DEF IInv, ClientTypes
<1>3. Answers(t) BY <1>1 DEF AnswerInv
<1>4. Filled(call[t])'
  <2>1. call[t].op \in Writes => call[t].op \notin Reads \cup {"udpfs_read"}
    BY DEF Writes, Reads
  <2> QED BY <2>1, <1>1, <1>3 DEF Filled, Answers
<1>5. ASSUME NEW u \in Threads, Busy(u)' PROVE Answers(u)'
  <2>1. u = t
    <3>1. u # t => at'[u] = at[u] BY <1>1, <1>2
    <3> QED BY <3>1, <1>1, <1>5, NoOther DEF Busy
  <2>2. call[t].op \notin Changes => AsDue' BY ExchangeAsDue
  <2>3. /\ call[t].op \in Closes => due.res = 0 /\ due.got = NoBuffer
        /\ call[t] = BdInit => due.res = DeviceSectors /\ due.got = NoBuffer
    BY <1>3 DEF Answers
  <2>4. DeviceSectors' = DeviceSectors BY DEF DeviceSectors
  <2> QED BY <1>1, <1>4, <2>1, <2>2, <2>3, <2>4 DEF Answers
<1> QED BY <1>1, <1>5 DEF AnswerInv

\* The server ends, or keeps its answer for later.
LEMMA QuietAnswers ==
    ASSUME IInv, AnswerInv, NEW t \in Threads, Exchange(t),
           UNCHANGED <<reply, handles>>
    PROVE  AnswerInv'
<1>1. UNCHANGED <<left, due>> /\ at[t] = "send" /\ Answers(t)
  BY ExchangeFacts DEF AnswerInv
<1>2. reply # NoReply => reply.result < 0 /\ call[t] # BdInit /\ Excused
  BY <1>1 DEF Answers
<1>3. reply.result \in Int BY DEF IInv, ServerTypes
<1>4. Excused => Excused' BY <1>1 DEF Excused, TableFull
<1>5. reply' # NoReply => ~(reply'.result >= 0) BY <1>2, <1>3
<1> QED BY <1>2, <1>4, <1>5, ExchangeAnswers

\* A close is answered with success.
LEMMA CloseAnswers ==
    ASSUME IInv, IInv', AnswerInv, NEW t \in Threads, Exchange(t), call[t].op \in Closes
    PROVE  AnswerInv'
<1> DEFINE c == call[t]
<1>1. /\ c.op \in udpfs_device_ops
      /\ c.op \notin Writes \cup Reads \cup {"udpfs_read", "udpfs_bd_init"} \cup Changes
      /\ c.op \notin OnNames \cup {"udpfs_lseek64", "udpfs_dread"} \cup Opens
  BY DEF udpfs_device_ops, Closes, Writes, Reads, Changes, OnNames, Opens
<1>2. t = 1 /\ left.as = "ioman" /\ link = "up" /\ UNCHANGED <<call, left, link>> /\ c # BdInit
  BY <1>1, ExchangeFacts, CallOf, CallFields
<1>3. at'[t] = "wait" BY <1>1, NoMore
<1>4. reply' # NoReply => reply'.result >= 0 /\ reply'.result \in Int
  <2>1. reply' # NoReply => Answered(call[1])' BY <1>2, <1>3 DEF IInv, MatchInv
  <2>2. reply'.result \in Int BY DEF IInv, ServerTypes
  <2> QED BY <1>2, <2>1, <2>2 DEF Answered
<1>5. AsDue' BY <1>1, ExchangeAsDue
<1>6. Replied(call[t])' BY <1>1, <1>2, <1>5 DEF Replied
<1>7. ~(reply' # NoReply /\ reply'.result < 0) BY <1>4
<1> QED BY <1>3, <1>6, <1>7, ExchangeAnswers

\* A seek ends where it would on a local file.
LEMMA SeekAnswers ==
    ASSUME IInv, AnswerInv, NEW t \in Threads, Exchange(t), call[t].op = "udpfs_lseek64"
    PROVE  AnswerInv'
<1> DEFINE c == call[1]
           H == g_fds[c.fd]
           f == due.old[c.fd]
           m == Message(c)
<1>1. call[t].op \in OnFiles BY DEF OnFiles
<1>2. /\ t = 1 /\ left.as = "ioman" /\ c \in Asked /\ c.fd \in Fds
      /\ Allowed(c) /\ Matches(g_fds, Come(c)) /\ due = Due(due.old, c) /\ Serve(m)
      /\ due.old \in [Fds -> OpenFiles] /\ f \in OpenFiles
      /\ g_fds \in [Fds -> Int] /\ H >= 0 /\ H \in Int
      /\ UNCHANGED <<g_fds, call, left, due, read_only>> /\ AfterTable(c)' = g_fds
      /\ c.op = "udpfs_lseek64"
  BY <1>1, OnOpenFile
<1>3. f.kind \in {"file", "alias"} /\ f.pos \in Nat /\ f.can \in SUBSET Flags
  BY <1>2, OpenFileParts DEF Allowed
<1>4. Bytes(f) \in Seq(Int) /\ Len(Bytes(f)) \in Nat
  BY <1>2, <1>3, BytesType DEF IInv
<1>5. Matches(g_fds, due.old) BY <1>2 DEF Come
<1>6. /\ H \in DOMAIN handles /\ handles[H].kind = f.kind /\ handles[H].ino = f.ino
      /\ handles[H].pos = f.pos
  <2>1. IsOpen(H, f) /\ SamePlace(H, f) BY <1>2, <1>5 DEF Matches
  <2> QED BY <2>1, <1>3 DEF IsOpen, SamePlace
<1>7. m.op = "lseek" /\ m.handle = H /\ m.offset = c.offset /\ m.whence = c.whence
  <2>1. Handle(c) = H BY <1>2, HandleOf DEF udpfs_device_ops, OnFiles
  <2>2. m = udpfs_core_lseek(c) BY <1>2, MessageOf DEF udpfs_device_ops, OnFiles
  <2> QED BY <2>1, <2>2 DEF udpfs_core_lseek
<1>8. _handle_lseek(m) /\ IsFile(H) /\ Content(handles[H]) = Bytes(f)
  BY <1>2, <1>3, <1>6, <1>7, Dispatch DEF IsFile, Content, Bytes
<1> HIDE DEF m
<1> DEFINE target == SeekTarget(f, c)
           place == SeekPlace(f, c)
<1>9. target \in Int /\ place \in Int BY <1>2, <1>3, SeekType DEF IInv
<1>10. /\ f.kind = "alias" => place >= 0 /\ place = SeekTo(handles[H], target)
       /\ f.kind = "file" => place = target /\ place = SeekTo(handles[H], target)
  <2>1. f.kind = "alias" => place = Larger(0, Smaller(target, Len(Bytes(f))))
    BY DEF SeekPlace
  <2>2. f.kind # "alias" => place = target BY DEF SeekPlace
  <2>3. SeekTo(handles[H], target) =
          IF f.kind = "alias" THEN Larger(0, Smaller(target, Len(Bytes(f)))) ELSE target
    BY <1>6, <1>8 DEF SeekTo
  <2> QED BY <2>1, <2>2, <2>3, <1>4, <1>9 DEF Larger, Smaller
<1>11. target = m.offset + CASE m.whence = "SET" -> 0
                             [] m.whence = "CUR" -> handles[H].pos
                             [] m.whence = "END" -> Len(Content(handles[H]))
  BY <1>6, <1>7, <1>8 DEF SeekTarget
<1>12. due.res = (IF place < 0 THEN EINVAL ELSE place) /\ due.got = NoBuffer
  <2> HIDE DEF c
  <2>1. /\ Due(due.old, c).res = IF place < 0 THEN EINVAL ELSE place
        /\ Due(due.old, c).got = NoBuffer
    <3>1. c.op = "udpfs_lseek64" /\ place = SeekPlace(due.old[c.fd], c) BY <1>2
    <3> HIDE DEF place
    <3> QED BY <3>1, AnswerOfSeek
  <2> QED BY <1>2, <2>1
<1> HIDE DEF target, place
<1>13. IF f.kind = "file" /\ target < 0
       THEN reply' = [type |-> "LSEEK_REPLY", result |-> EINVAL, data |-> <<>>]
       ELSE reply' = [type |-> "LSEEK_REPLY", result |-> place, data |-> <<>>]
  <2>1. \E h \in {handles[H]} :
          \E to \in {m.offset + CASE m.whence = "SET" -> 0
                                  [] m.whence = "CUR" -> h.pos
                                  [] m.whence = "END" -> Len(Content(h))} :
            IF h.kind = "file" /\ to < 0
            THEN _send_lseek_reply(EINVAL) /\ UNCHANGED handles
            ELSE /\ handles' = [handles EXCEPT ![m.handle].pos = SeekTo(h, to)]
                 /\ _send_lseek_reply(SeekTo(h, to))
    BY <1>7, <1>8 DEF _handle_lseek
  <2>2. IF f.kind = "file" /\ target < 0
        THEN _send_lseek_reply(EINVAL)
        ELSE _send_lseek_reply(SeekTo(handles[H], target))
    BY <2>1, <1>6, <1>11
  <2>3. place = SeekTo(handles[H], target) BY <1>3, <1>10
  <2> QED BY <2>2, <2>3, SMTT(30) DEF _send_lseek_reply, Reply
<1>14. f.kind = "file" /\ target < 0 <=> place < 0 BY <1>3, <1>9, <1>10
<1>15. reply'.result = due.res /\ reply'.data = due.got
  BY <1>12, <1>13, <1>14 DEF NoBuffer
<1>16. SubSeq(due.got, 1, Len(due.got)) = due.got BY <1>12 DEF NoBuffer
<1>17. AsDue' BY <1>2, ExchangeAsDue DEF Changes, Writes
<1>18. Replied(call[t])'
  <2>1. /\ c.op \notin Opens \cup {"udpfs_read"} \cup Reads \cup Writes
        /\ c # BdInit
    BY <1>2, CallFields DEF Opens, Reads, Writes
  <2> QED BY <2>1, <1>2, <1>15, <1>16, <1>17 DEF Replied
<1>19. at'[t] = "wait" BY <1>2, NoMore DEF Writes
<1>20. reply'.result < 0 => Excused' BY <1>2, <1>15 DEF Excused
<1> QED BY <1>18, <1>19, <1>20, ExchangeAnswers

\* One element and two more are three.
LEMMA OneThenTwo ==
    ASSUME NEW a, NEW b, NEW d
    PROVE  <<a>> \o <<b, d>> = <<a, b, d>>
<1> DEFINE S == {a, b, d}
           x == <<a>>
           y == <<b, d>>
           z == <<a, b, d>>
           w == x \o y
<1>1. /\ x \in Seq(S) /\ y \in Seq(S) /\ z \in Seq(S)
      /\ Len(x) = 1 /\ Len(y) = 2 /\ Len(z) = 3
      /\ x[1] = a /\ y[1] = b /\ y[2] = d /\ z[1] = a /\ z[2] = b /\ z[3] = d
  OBVIOUS
<1> HIDE DEF x, y, z, S
<1>2. /\ w \in Seq(S) /\ Len(w) = 3
      /\ \A i \in 1 .. 3 : w[i] = IF i <= 1 THEN x[i] ELSE y[i - 1]
  <2>1. /\ w \in Seq(S) /\ Len(w) = Len(x) + Len(y)
        /\ \A i \in 1 .. Len(x) + Len(y) : w[i] = IF i <= Len(x) THEN x[i] ELSE y[i - Len(x)]
    BY <1>1, ConcatProperties
  <2> QED BY <1>1, <2>1
<1> HIDE DEF w
<1>3. w[1] = a /\ w[2] = b /\ w[3] = d BY <1>1, <1>2
<1>4. \A i \in 1 .. Len(w) : w[i] = z[i] BY <1>1, <1>2, <1>3
<1>5. w = z BY <1>1, <1>2, <1>4, SeqEqual
<1> QED BY <1>5 DEF w, x, y, z

\* An entry of a list is the one that is next.
LEMMA DreadAnswers ==
    ASSUME IInv, AnswerInv, NEW t \in Threads, Exchange(t), call[t].op = "udpfs_dread"
    PROVE  AnswerInv'
<1> DEFINE c == call[1]
           H == g_fds[c.fd]
           f == due.old[c.fd]
           m == Message(c)
           names == f.names
<1>1. call[t].op \in OnFiles BY DEF OnFiles
<1>2. /\ t = 1 /\ left.as = "ioman" /\ c \in Asked /\ c.fd \in Fds
      /\ Allowed(c) /\ Matches(g_fds, Come(c)) /\ due = Due(due.old, c) /\ Serve(m)
      /\ due.old \in [Fds -> OpenFiles] /\ f \in OpenFiles
      /\ g_fds \in [Fds -> Int] /\ H >= 0 /\ H \in Int
      /\ UNCHANGED <<g_fds, call, left, due, read_only>>
      /\ c.op = "udpfs_dread"
  BY <1>1, OnOpenFile
<1>3. f.kind = "dir" /\ names \in Seq(Paths)
  BY <1>2, OpenFileParts DEF Allowed, OpenFiles, Closed
<1>4. Matches(g_fds, due.old) BY <1>2 DEF Come
<1>5. H \in DOMAIN handles /\ handles[H].kind = "dir" /\ handles[H].entries = names
  <2>1. IsOpen(H, f) /\ SamePlace(H, f) BY <1>2, <1>4 DEF Matches
  <2> QED BY <2>1, <1>3 DEF IsOpen, SamePlace
<1>6. m.op = "dread" /\ m.handle = H
  <2>1. Handle(c) = H BY <1>2, HandleOf DEF udpfs_device_ops, OnFiles
  <2>2. m = udpfs_core_dread(c) BY <1>2, MessageOf DEF udpfs_device_ops, OnFiles
  <2> QED BY <2>1, <2>2 DEF udpfs_core_dread
<1>7. _handle_dread(m) /\ IsDir(H) BY <1>2, <1>5, <1>6, Dispatch DEF IsDir
<1> HIDE DEF m
<1> DEFINE e == Head(names)
           g == IF ~Exists(e) THEN NoBuffer
                ELSE IF IsCompressed(e) /\ Unpacks(e)
                THEN <<AliasOf(e), "file", Len(Unpacked[tree[e].ino])>>
                ELSE <<e, Kind(e), IF Kind(e) = "dir" THEN 0 ELSE Len(data[tree[e].ino])>>
<1>8. /\ names = <<>> => due.res = 0 /\ due.got = NoBuffer
      /\ names # <<>> => due.res = (IF Exists(e) THEN 1 ELSE 0) /\ due.got = g
  <2> DEFINE k == c
             files == due.old
  <2>1. k.op = "udpfs_dread" /\ names = files[k.fd].names /\ due = Due(files, k)
    BY <1>2
  <2> HIDE DEF k, names, files
  <2> QED BY <2>1, AnswerOfDread
<1>9. reply'.result = due.res /\ reply'.data = due.got
  <2>1. CASE names = <<>>
    <3>1. reply' = [type |-> "DREAD_REPLY", result |-> 0, data |-> <<>>]
      BY <2>1, <1>5, <1>6, <1>7 DEF _handle_dread, _send_dread_reply, Reply
    <3> QED BY <2>1, <3>1, <1>8 DEF NoBuffer
  <2>2. CASE names # <<>>
    <3> DEFINE Answer(x) ==
                 IF ~Exists(x) THEN _send_dread_reply(0, <<>>)
                 ELSE IF IsCompressed(x) /\ Unpacks(x)
                 THEN _send_dread_reply(1, <<_transform_compressed_name(x)>> \o _get_compressed_stat(x))
                 ELSE _send_dread_reply(1, <<x>> \o _stat_to_bytes(x))
    <3>1. \E entry \in {Head(handles[m.handle].entries)} : Answer(entry)
      BY <2>2, <1>5, <1>6, <1>7 DEF _handle_dread
    <3>2. Head(handles[m.handle].entries) = e BY <1>5, <1>6
    <3>3. Answer(e) BY <3>1, <3>2
    <3> HIDE DEF e
    <3>4. CASE ~Exists(e)
      <4>1. reply' = [type |-> "DREAD_REPLY", result |-> 0, data |-> <<>>]
        BY <3>3, <3>4 DEF _send_dread_reply, Reply
      <4>2. due.res = 0 /\ due.got = NoBuffer BY <2>2, <3>4, <1>8
      <4> QED BY <4>1, <4>2 DEF NoBuffer
    <3>5. CASE Exists(e) /\ IsCompressed(e) /\ Unpacks(e)
      <4> DEFINE a == AliasOf(e)
                 n == Len(Unpacked[tree[e].ino])
                 d == <<_transform_compressed_name(e)>> \o _get_compressed_stat(e)
      <4>1. reply' = [type |-> "DREAD_REPLY", result |-> 1, data |-> d]
        BY <3>3, <3>5 DEF _send_dread_reply, Reply
      <4>2. _transform_compressed_name(e) = a /\ _get_compressed_stat(e) = <<"file", n>>
        BY <3>5 DEF _transform_compressed_name, _get_compressed_stat
      <4>3. d = <<a>> \o <<"file", n>> BY <4>2
      <4>4. due.res = 1 /\ due.got = <<a, "file", n>> BY <2>2, <3>5, <1>8
      <4> HIDE DEF a, n, d
      <4>5. d = <<a, "file", n>> BY <4>3, OneThenTwo
      <4> QED BY <4>1, <4>4, <4>5
    <3>6. CASE Exists(e) /\ ~(IsCompressed(e) /\ Unpacks(e))
      <4> DEFINE k == Kind(e)
                 n == IF Kind(e) = "dir" THEN 0 ELSE Len(data[tree[e].ino])
                 d == <<e>> \o _stat_to_bytes(e)
      <4>1. reply' = [type |-> "DREAD_REPLY", result |-> 1, data |-> d]
        BY <3>3, <3>6 DEF _send_dread_reply, Reply
      <4>2. k = "dir" \/ k = "file"
        <5>1. e \in Names
          <6>1. e \in Paths BY <2>2, <1>3 DEF e
          <6> QED BY <6>1 DEF Names
        <5>2. k \in {"none", "dir", "file"} BY <5>1, NameParts DEF IInv
        <5> QED BY <3>6, <5>2 DEF Exists
      <4>3. _stat_to_bytes(e) = <<k, n>> BY <4>2 DEF _stat_to_bytes
      <4>4. due.res = 1 /\ due.got = <<e, k, n>> BY <2>2, <3>6, <1>8
      <4>5. d = <<e>> \o <<k, n>> BY <4>3
      <4> HIDE DEF k, n, d
      <4>6. d = <<e, k, n>> BY <4>5, OneThenTwo
      <4> QED BY <4>1, <4>4, <4>6
    <3> QED BY <3>4, <3>5, <3>6
  <2> QED BY <2>1, <2>2
<1> HIDE DEF names, e, g
<1>10. reply'.result \in {0, 1} BY <1>8, <1>9
<1>11. SubSeq(due.got, 1, Len(due.got)) = due.got
  <2>1. ASSUME NEW a, NEW b, NEW d PROVE SubSeq(<<a, b, d>>, 1, Len(<<a, b, d>>)) = <<a, b, d>>
    <3>1. <<a, b, d>> \in Seq({a, b, d})
      OBVIOUS
    <3> QED BY <3>1, SubSeqFull
  <2>2. SubSeq(NoBuffer, 1, Len(NoBuffer)) = NoBuffer BY DEF NoBuffer
  <2>3. \/ due.got = NoBuffer \/ \E a, b, d : due.got = <<a, b, d>>
    BY <1>8 DEF g
  <2> QED BY <2>1, <2>2, <2>3
<1>12. AsDue' BY <1>2, ExchangeAsDue DEF Changes, Writes
<1>13. Replied(call[t])'
  <2>1. /\ c.op \notin Opens \cup {"udpfs_read"} \cup Reads \cup Writes
        /\ c # BdInit
    BY <1>2, CallFields DEF Opens, Reads, Writes
  <2> QED BY <2>1, <1>2, <1>9, <1>11, <1>12 DEF Replied
<1>14. at'[t] = "wait" BY <1>2, NoMore DEF Writes
<1>15. ~(reply'.result < 0) BY <1>10
<1> QED BY <1>13, <1>14, <1>15, ExchangeAnswers

\* A part of a read is the next of what is due.
LEMMA ReadAnswers ==
    ASSUME IInv, AnswerInv, NEW t \in Threads, Exchange(t), call[t].op = "udpfs_read"
    PROVE  AnswerInv'
<1> DEFINE c == call[1]
           H == g_fds[c.fd]
           f == due.old[c.fd]
           B == Bytes(f)
           p == f.pos
           cs == c.size
           m == Message(c)
<1>1. call[t].op \in OnFiles BY DEF OnFiles
<1>2. /\ t = 1 /\ left.as = "ioman" /\ c \in Asked /\ c.fd \in Fds
      /\ Allowed(c) /\ Matches(g_fds, Come(c)) /\ due = Due(due.old, c) /\ Serve(m)
      /\ due.old \in [Fds -> OpenFiles] /\ f \in OpenFiles
      /\ g_fds \in [Fds -> Int] /\ H >= 0 /\ H \in Int /\ done \in Nat
      /\ UNCHANGED <<g_fds, call, left, due, read_only>>
      /\ c.op = "udpfs_read"
  BY <1>1, OnOpenFile
<1>3. done' = done BY <1>2, OnOpenFile, <1>1 DEF Writes
<1>4. cs \in Nat BY <1>2, CallFields
<1>5. /\ "RD" \in f.can /\ done < cs /\ (done > 0 => p + done <= Len(B))
  BY <1>2 DEF Allowed
<1>6. f.kind \in {"file", "alias"} /\ p \in Nat BY <1>2, <1>5, OpenFileParts
<1>7. B \in Seq(Int) BY <1>2, <1>6, BytesType, SMTT(30) DEF IInv
<1>8. /\ H \in DOMAIN handles /\ handles[H].kind = f.kind /\ handles[H].ino = f.ino
      /\ handles[H].pos = p + done
  <2> DEFINE come == Come(c)
  <2>1. come = [due.old EXCEPT ![c.fd].pos = @ + done] BY <1>2 DEF Come, Moved
  <2>2. come[c.fd] = [f EXCEPT !.pos = p + done] BY <2>1, <1>2
  <2>3. f \in [kind : {"file", "alias"}, ino : Inodes, pos : Nat, can : SUBSET Flags,
               names : {<<>>}]
    BY <1>2, <1>6 DEF OpenFiles, Closed
  <2>4. /\ come[c.fd].kind = f.kind /\ come[c.fd].ino = f.ino /\ come[c.fd].pos = p + done
    BY <2>2, <2>3
  <2>5. IsOpen(H, come[c.fd]) /\ SamePlace(H, come[c.fd]) BY <1>2 DEF Matches
  <2> HIDE DEF come
  <2> QED BY <2>4, <2>5, <1>6 DEF IsOpen, SamePlace
<1> DEFINE n == Smaller(cs - done, MaxRead)
<1>9. m.op = "read" /\ m.handle = H /\ m.size = n
  <2>1. Handle(c) = H BY <1>2, HandleOf DEF udpfs_device_ops, OnFiles
  <2>2. m = udpfs_core_read(c) BY <1>2, MessageOf DEF udpfs_device_ops, OnFiles
  <2> QED BY <2>1, <2>2 DEF udpfs_core_read
<1>10. n \in Nat /\ n <= cs - done
  BY <1>4, <1>5, <1>2, InputsAssumption DEF Smaller
<1>11. _handle_read(m) /\ IsFile(H) /\ Content(handles[H]) = B
  BY <1>2, <1>6, <1>8, <1>9, Dispatch DEF IsFile, Content, Bytes
<1>12. at'[t] = "wait" BY <1>2, NoMore DEF Writes
<1> HIDE DEF m
<1>13. CASE ~Readable(handles[H])
  <2>1. Ends BY <1>9, <1>11, <1>13 DEF _handle_read
  <2> QED BY <2>1, QuietAnswers DEF Ends
<1>14. CASE Readable(handles[H])
  <2> DEFINE r == ReadAt(B, p + done, n)
             g == ReadAt(B, p, cs)
  <2>1. reply' = [type |-> "RESULT_REPLY", result |-> Len(r), data |-> r]
    <3>1. \E h \in {handles[H]} : \E got_ \in {ReadAt(Content(h), h.pos, n)} :
            _send_read_result(Len(got_), got_)
      BY <1>9, <1>11, <1>14 DEF _handle_read
    <3>2. _send_read_result(Len(r), r) BY <3>1, <1>8, <1>11
    <3> QED BY <3>2 DEF _send_read_result, Reply
  <2>2. due.res = Len(g) /\ due.got = g
    <3> DEFINE k == c
               files == due.old
    <3>1. k.op = "udpfs_read" /\ g = ReadAt(Bytes(files[k.fd]), files[k.fd].pos, k.size)
          /\ due = Due(files, k)
      BY <1>2
    <3> HIDE DEF k, files, g
    <3> QED BY <3>1, AnswerOfRead
  <2>3. /\ g \in Seq(Int) /\ r \in Seq(Int)
        /\ done + Len(r) <= Len(g) /\ r = SubSeq(g, done + 1, done + Len(r))
        /\ Len(r) < n \/ done + Len(r) = cs => done + Len(r) = Len(g)
    <3>1. PartOfRead(B, p, done, cs, n)
      <4> HIDE DEF B, p, cs, n
      <4> QED BY <1>2, <1>4, <1>5, <1>6, <1>7, <1>10 DEF PartOfRead
    <3>2. IsPartOfRead(g, r, done, cs, n)
      <4> HIDE DEF B, p, cs, n
      <4> QED BY <3>1, ReadParts
    <3> HIDE DEF g, r, cs, n
    <3> QED BY <3>2 DEF IsPartOfRead
  <2>4. Len(r) \in Nat BY <2>3, LenProperties
  <2> HIDE DEF r, g
  <2>5. reply'.result = Len(r) /\ reply'.data = r /\ ~(reply'.result < 0)
    BY <2>1, <2>4
  <2>6. AsDue' BY <1>2, ExchangeAsDue DEF Changes, Writes
  <2>7. ReadEnds(c)' => done + Len(r) = Len(g)
    <3>1. ReadEnds(c)' => Len(r) < n \/ done + Len(r) = cs
      BY <2>5, <1>2, <1>3 DEF ReadEnds
    <3> QED BY <3>1, <2>3
  <2>8. Replied(call[t])'
    <3>1. /\ c.op \notin Opens \cup OnNames \cup {"udpfs_lseek64", "udpfs_dread"} \cup Reads \cup Writes
          /\ c # BdInit
      BY <1>2, CallFields DEF Opens, OnNames, Reads, Writes
    <3>2. /\ due.got \in Seq(Int) /\ due.res = Len(due.got)
          /\ done + reply'.result <= Len(due.got)
          /\ reply'.data = SubSeq(due.got, done + 1, done + reply'.result)
          /\ ReadEnds(c)' => done + reply'.result = Len(due.got)
      BY <2>2, <2>3, <2>5, <2>7
    <3> QED BY <3>1, <3>2, <1>2, <1>3, <2>6 DEF Replied
  <2> QED BY <1>12, <2>5, <2>8, ExchangeAnswers
<1> QED BY <1>13, <1>14

\* A part of a block read is the next of what is due.
LEMMA BreadAnswers ==
    ASSUME IInv, AnswerInv, NEW t \in Threads, Exchange(t), call[t].op \in Reads
    PROVE  AnswerInv'
<1> DEFINE c == call[t]
           f == due.old[c.fd]
           H == Handle(c)
           m == Message(c)
           k == c.sector + done
           n == Smaller(c.count - done, MaxSectorRead)
<1>1. /\ c.op \in FhiCalls \cup BdCalls /\ c.op \notin Writes \cup {"udpfs_bd_init"}
      /\ c.op \notin Changes \cup Opens \cup OnNames \cup {"udpfs_lseek64", "udpfs_dread", "udpfs_read"}
      /\ c \in Asked /\ c # BdInit /\ left.as \in {"fhi", "bd"} /\ Busy(t) /\ Serve(m) /\ done \in Nat
      /\ due = Due(due.old, c) /\ due.old \in [Fds -> OpenFiles] /\ c.fd \in Fds
      /\ UNCHANGED <<call, left, due, read_only>> /\ (c.op \in FhiCalls <=> left.as = "fhi")
      /\ (left.as = "bd" => BlockDevice # 0)
  <2>1. /\ c.op \in FhiCalls \cup BdCalls /\ c.op \notin Writes \cup {"udpfs_bd_init"}
        /\ c.op \notin Changes \cup Opens \cup OnNames \cup {"udpfs_lseek64", "udpfs_dread", "udpfs_read"}
        /\ c.op \notin udpfs_device_ops
    BY DEF Reads, FhiCalls, BdCalls, Writes, Changes, Opens, OnNames, udpfs_device_ops, Closes, OnFiles
  <2>2. /\ c \in Asked /\ c # BdInit /\ Busy(t) /\ Serve(m) /\ done \in Nat /\ at[t] = "send"
        /\ due.old \in [Fds -> OpenFiles] /\ UNCHANGED <<call, left, due, read_only>>
    BY <2>1, ExchangeFacts
  <2>3. due = Due(due.old, c) BY <2>2, ExchangeFacts DEF Sends
  <2>4. /\ left.as \in {"fhi", "bd"} /\ (c.op \in FhiCalls <=> left.as = "fhi")
        /\ (left.as = "bd" => BlockDevice # 0)
    <3>1. c.op \in BdCalls => c.op \notin FhiCalls BY DEF BdCalls, FhiCalls
    <3> QED BY <2>1, <2>2, <3>1, CallOf
  <2> QED BY <2>1, <2>2, <2>3, <2>4, CallFields
<1>2. c.sector \in Nat /\ c.count \in Nat /\ done < c.count
  BY <1>1, CallFields DEF IInv, CallsInv
<1>3. m.op = "bread" /\ m.handle = H /\ m.sector = k /\ m.count = n
  <2>1. m = udpfs_core_bread(c) BY <1>1, MessageOf
  <2> HIDE DEF m
  <2> QED BY <2>1 DEF udpfs_core_bread
<1>4. _handle_bread(m) BY <1>1, <1>3, Dispatch
<1>5. at'[t] = "wait" /\ done' = done BY <1>1, NoMore
<1>6. AsDue' BY <1>1, ExchangeAsDue
<1> DEFINE content == IF c.op \in FhiCalls THEN Bytes(f) ELSE data[BlockDevice]
<1>7. ~left.pc =>
        /\ IsFile(H) /\ Content(handles[H]) = content
  <2> SUFFICES ASSUME ~left.pc PROVE IsFile(H) /\ Content(handles[H]) = content
    OBVIOUS
  <2>1. CASE left.as = "fhi"
    <3>1. Handle(c) = fhi[c.fd] /\ fhi \in [Fds -> Int] /\ c.op \in FhiCalls
      BY <1>1, <2>1, HandleOf DEF IInv, ClientTypes
    <3>2. fhi[c.fd] >= 0 BY <1>1, <2>1 DEF IInv, CallsInv, Busy
    <3>3. due.old = due.files BY <1>1, <2>1 DEF IInv, OpenInv
    <3>4. IsOpen(fhi[c.fd], f) /\ f.kind # "dir"
      BY <1>1, <2>1, <3>1, <3>2, <3>3 DEF IInv, OpenInv, AreOpen
    <3> QED BY <3>1, <3>4 DEF IsFile, IsOpen, Content, Bytes
  <2>2. CASE left.as = "bd"
    <3>1. Handle(c) = 0 /\ c.op \notin FhiCalls BY <1>1, <2>2, HandleOf
    <3> QED BY <1>1, <2>2, <3>1 DEF IInv, TableInv, IsFile, Content
  <2> QED BY <1>1, <2>1, <2>2
<1> HIDE DEF m, H
<1>8. CASE ~IsFile(H)
  <2>1. reply' = [type |-> "RESULT_REPLY", result |-> EBADF, data |-> <<>>]
    BY <1>3, <1>4, <1>8 DEF _handle_bread, _send_read_result, Reply
  <2>2. Excused' BY <1>1, <1>7, <1>8 DEF Excused
  <2>3. ~(reply'.result >= 0) BY <2>1 DEF EBADF
  <2> QED BY <1>5, <2>2, <2>3, ExchangeAnswers
<1>9. CASE IsFile(H) /\ ~Readable(handles[H])
  <2>1. Ends BY <1>3, <1>4, <1>9 DEF _handle_bread
  <2> QED BY <2>1, QuietAnswers DEF Ends
<1>10. CASE IsFile(H) /\ Readable(handles[H])
  <2>1. ~left.pc
    <3> SUFFICES ASSUME left.pc PROVE FALSE
      OBVIOUS
    <3>1. left.as = "fhi" /\ DOMAIN handles \subseteq {0} BY ExchangeFacts
    <3>2. H = fhi[c.fd] /\ fhi[c.fd] \in Int \ {0}
      BY <1>1, <3>1, HandleOf DEF H, IInv, ClientTypes
    <3> QED BY <1>10, <3>1, <3>2 DEF IsFile
  <2>2. Content(handles[H]) = content /\ H \in DOMAIN handles /\ handles[H].kind # "dir"
    BY <1>7, <1>10, <2>1 DEF IsFile
  <2> DEFINE h == handles[H]
             from == SeekTo(h, k * SectorUnits)
             size == n * SectorUnits
             r == ReadAt(content, from, size)
             p == c.sector * SectorUnits
             d == done * SectorUnits
             all == c.count * SectorUnits
             g == ReadAt(content, p, all)
  <2>3. reply' = [type |-> "RESULT_REPLY", result |-> Len(r), data |-> r]
    <3>1. \E x \in {h} : \E y \in {SeekTo(x, k * SectorUnits)} :
            \E z \in {ReadAt(Content(x), y, size)} : _send_read_result(Len(z), z)
      BY <1>3, <1>4, <1>10 DEF _handle_bread
    <3>2. _send_read_result(Len(r), r) BY <2>2, <3>1
    <3> QED BY <3>2 DEF _send_read_result, Reply
  <2>4. k \in Nat /\ n \in Nat /\ c.count \in Nat
    BY <1>1, <1>2, InputsAssumption DEF Smaller
  <2>5. /\ content \in Seq(Int) /\ from \in Nat /\ size \in Nat /\ p \in Nat /\ d \in Nat
        /\ all \in Nat /\ k * SectorUnits \in Nat
    <3>1. ServerTypes BY DEF IInv
    <3>2. \A x \in Nat : x * SectorUnits \in Nat BY <2>2, <3>1, PlaceOfSector
    <3>3. from \in Nat /\ Content(handles[H]) \in Seq(Int)
      BY <2>2, <2>4, <3>1, PlaceOfSector
    <3> QED BY <1>1, <1>2, <2>2, <2>4, <3>2, <3>3
  <2>6. k * SectorUnits = p + d
    <3>1. ASSUME NEW x \in Nat, NEW y \in Nat, NEW z \in Nat PROVE (x + y) * z = x * z + y * z
      BY SMTT(30)
    <3> DEFINE x == c.sector
               y == done
               z == SectorUnits
    <3>2. x \in Nat /\ y \in Nat /\ z \in Nat BY <1>1, <1>2, FilesAssumption
    <3> HIDE DEF x, y, z
    <3>3. (x + y) * z = x * z + y * z BY <3>1, <3>2
    <3> QED BY <3>3 DEF x, y, z
  <2>7. from = p + d \/ from = Larger(0, Smaller(p + d, Len(content)))
    BY <2>2, <2>6 DEF SeekTo
  <2>8. due.res = c.count /\ due.got = g
    <3> DEFINE call_ == c
               files == due.old
               B == content
    <3>1. call_.op \in FhiCalls \cup BdCalls /\ due = Due(files, call_) /\ call_.op \in Reads
          /\ B = IF call_.op \in FhiCalls THEN Bytes(files[call_.fd]) ELSE data[BlockDevice]
      BY <1>1
    <3>2. g = ReadAt(B, call_.sector * SectorUnits, call_.count * SectorUnits)
      OBVIOUS
    <3>3. c.count = call_.count
      OBVIOUS
    <3> HIDE DEF call_, files, B, g, content
    <3> QED BY <3>1, <3>2, <3>3, AnswerOfSectors
  <2>9. /\ g \in Seq(Int) /\ r \in Seq(Int) /\ Len(g) <= all
        /\ \A i \in 1 .. size : d + i <= Len(g) => i <= Len(r) /\ r[i] = g[d + i]
    <3>1. PartOfSectors(content, p, d, all, size, from)
      <4> HIDE DEF content, p, d, all, size, from
      <4> QED BY <2>5, <2>7 DEF PartOfSectors
    <3>2. IsPartOfSectors(g, r, d, all, size)
      <4> HIDE DEF content, p, d, all, size, from
      <4> QED BY <3>1, SectorParts
    <3> HIDE DEF g, r, d, all, size
    <3> QED BY <3>2 DEF IsPartOfSectors
  <2>10. Len(r) \in Nat /\ reply'.result = Len(r) /\ reply'.data = r /\ ~(reply'.result < 0)
    <3>1. Len(r) \in Nat BY <2>9, LenProperties
    <3> HIDE DEF r
    <3> QED BY <3>1, <2>3
  <2> HIDE DEF r, g
  <2>11. PartUnits(c)' = size BY <1>1, <1>5 DEF PartUnits
  <2>12. Replied(call[t])'
    <3>1. /\ due.got \in Seq(Int) /\ due.res = c.count /\ Len(due.got) <= c.count * SectorUnits
          /\ reply'.data \in Seq(Int)
          /\ \A i \in 1 .. size : done * SectorUnits + i <= Len(due.got) =>
               i <= Len(reply'.data) /\ reply'.data[i] = due.got[done * SectorUnits + i]
      BY <2>8, <2>9, <2>10
    <3> HIDE DEF size
    <3> QED BY <3>1, <1>1, <1>5, <1>6, <2>11 DEF Replied
  <2> QED BY <1>5, <2>10, <2>12, ExchangeAnswers
<1> QED BY <1>8, <1>9, <1>10

\* What is said of a name is what there is.
LEMMA AnswerOfStat ==
    ASSUME NEW files, NEW c, c.op = "udpfs_getstat"
    PROVE  /\ Due(files, c).res =
                IF c.path = "" /\ BlockDevice # 0 THEN 0
                ELSE IF ~RootDir THEN EACCES
                ELSE IF Shows(c.path) = "none" THEN ENOENT
                ELSE IF Shows(c.path) = "broken" THEN EIO ELSE 0
           /\ Due(files, c).got =
                IF c.path = "" /\ BlockDevice # 0 THEN <<"none", SectorUnits * DeviceSectors>>
                ELSE IF ~RootDir THEN NoBuffer
                ELSE IF Shows(c.path) = "none" THEN NoBuffer
                ELSE IF Shows(c.path) = "broken" THEN NoBuffer
                ELSE IF Shows(c.path) = "dir" THEN <<"dir", 0>>
                ELSE <<"file", ShownSize(c.path)>>
<1>1. Due(files, c) = LocalStat(files, c) BY DueOf
<1>2. \A r, g : Result(files, r, g).res = r /\ Result(files, r, g).got = g
  BY DEF Result
<1>3. CASE c.path = "" /\ BlockDevice # 0
  <2> DEFINE g == <<"none", SectorUnits * DeviceSectors>>
             r == 0
  <2>1. Due(files, c) = Result(files, r, g) BY <1>1, <1>3 DEF LocalStat
  <2>2. r = 0 /\ g = <<"none", SectorUnits * DeviceSectors>>
    OBVIOUS
  <2> HIDE DEF r, g
  <2>3. Due(files, c).res = r /\ Due(files, c).got = g BY <2>1, <1>2
  <2> QED BY <2>2, <2>3, <1>3
<1>4. CASE ~(c.path = "" /\ BlockDevice # 0) /\ ~RootDir
  BY <1>1, <1>2, <1>4 DEF LocalStat
<1>5. CASE ~(c.path = "" /\ BlockDevice # 0) /\ RootDir
  <2>1. Due(files, c) =
          IF Shows(c.path) = "none" THEN Result(files, ENOENT, NoBuffer)
          ELSE IF Shows(c.path) = "broken" THEN Result(files, EIO, NoBuffer)
          ELSE IF Shows(c.path) = "dir" THEN Result(files, 0, <<"dir", 0>>)
          ELSE Result(files, 0, <<"file", ShownSize(c.path)>>)
    BY <1>1, <1>5 DEF LocalStat
  <2> DEFINE d == <<"dir", 0>>
             f == <<"file", ShownSize(c.path)>>
             r == 0
  <2>2. /\ Result(files, r, d).res = r /\ Result(files, r, d).got = d
        /\ Result(files, r, f).res = r /\ Result(files, r, f).got = f
    <3> HIDE DEF r, d, f
    <3> QED BY <1>2
  <2>3. CASE Shows(c.path) \in {"none", "broken"}
    BY <2>1, <2>3, <1>2, <1>5
  <2>4. CASE Shows(c.path) = "dir"
    <3>1. Due(files, c).res = r /\ Due(files, c).got = d BY <2>1, <2>2, <2>4
    <3> QED BY <3>1, <2>4, <1>5
  <2>5. CASE Shows(c.path) \notin {"none", "broken", "dir"}
    <3>1. Due(files, c).res = r /\ Due(files, c).got = f BY <2>1, <2>2, <2>5
    <3> QED BY <3>1, <2>5, <1>5
  <2> QED BY <2>3, <2>4, <2>5
<1> QED BY <1>3, <1>4, <1>5

\* A name is described as what it shows.
LEMMA StatAnswers ==
    ASSUME IInv, AnswerInv, NEW t \in Threads, Exchange(t), call[t].op = "udpfs_getstat"
    PROVE  AnswerInv'
<1> DEFINE c == call[t]
           m == Message(c)
           path == c.path
<1>1. /\ Serve(m) /\ c \in Asked /\ UNCHANGED <<call, left, due>> /\ due = Due(due.old, c)
      /\ c # BdInit
  <2>1. c.op \in udpfs_device_ops /\ c.op # "udpfs_bd_init"
    BY DEF udpfs_device_ops, OnNames
  <2>2. at[t] = "send" BY ExchangeFacts
  <2> QED BY <2>1, <2>2, ExchangeFacts DEF Sends
<1>2. path \in Names BY <1>1, CallFields DEF OnNames
<1>3. m.op = "getstat" /\ m.path = path
  <2>1. m = udpfs_core_getstat(c) BY MessageOf DEF udpfs_device_ops, OnNames
  <2> HIDE DEF m
  <2> QED BY <2>1 DEF udpfs_core_getstat
<1>4. _handle_getstat(m) BY <1>1, <1>3, Dispatch
<1> HIDE DEF m
<1> DEFINE dev == path = "" /\ 0 \in DOMAIN handles
           a == Actual(path)
           r == IF dev THEN 0
                ELSE IF ~RootDir THEN EACCES
                ELSE IF ~Exists(a) THEN ENOENT
                ELSE IF a = path THEN 0
                ELSE IF ~Unpacks(a) THEN EIO ELSE 0
           d == IF dev THEN <<"none", SectorUnits * DeviceSectors>>
                ELSE IF ~RootDir THEN <<>>
                ELSE IF ~Exists(a) THEN <<>>
                ELSE IF a = path THEN _stat_to_bytes(path)
                ELSE IF ~Unpacks(a) THEN <<>>
                ELSE _get_compressed_stat(a)
<1>5. reply' = [type |-> "GETSTAT_REPLY", result |-> r, data |-> d]
  BY <1>3, <1>4 DEF _handle_getstat, _send_getstat_reply, Reply
<1>6. /\ due.res = IF path = "" /\ BlockDevice # 0 THEN 0
                   ELSE IF ~RootDir THEN EACCES
                   ELSE IF Shows(path) = "none" THEN ENOENT
                   ELSE IF Shows(path) = "broken" THEN EIO ELSE 0
      /\ due.got = IF path = "" /\ BlockDevice # 0 THEN <<"none", SectorUnits * DeviceSectors>>
                   ELSE IF ~RootDir THEN NoBuffer
                   ELSE IF Shows(path) = "none" THEN NoBuffer
                   ELSE IF Shows(path) = "broken" THEN NoBuffer
                   ELSE IF Shows(path) = "dir" THEN <<"dir", 0>>
                   ELSE <<"file", ShownSize(path)>>
  <2> DEFINE k == c
             files == due.old
  <2>1. k.op = "udpfs_getstat" /\ due = Due(files, k) /\ path = k.path BY <1>1
  <2> HIDE DEF k, files, path
  <2> QED BY <2>1, AnswerOfStat
<1>7. dev <=> path = "" /\ BlockDevice # 0 BY DEF IInv, TableInv
<1>8. r = due.res /\ d = due.got
  <2>1. CASE dev \/ ~RootDir
    BY <1>6, <1>7, <2>1 DEF NoBuffer
  <2>2. CASE ~dev /\ RootDir /\ a = path
    <3>1. Shows(path) = Kind(path) /\ Kind(path) \in {"none", "dir", "file"}
          /\ ShownIno(path) = tree[path].ino
      BY <1>2, <2>2, NameParts DEF IInv, ShownIno
    <3>2. CASE Kind(path) = "none"
      BY <1>6, <1>7, <2>2, <3>1, <3>2 DEF NoBuffer, Exists
    <3>3. CASE Kind(path) = "dir"
      <4>1. due.res = 0 /\ due.got = <<"dir", 0>>
        BY <1>6, <1>7, <2>2, <3>1, <3>3
      <4>2. Exists(a) /\ _stat_to_bytes(path) = <<"dir", 0>>
        BY <2>2, <3>3 DEF Exists, _stat_to_bytes
      <4> QED BY <4>1, <4>2, <2>2
    <3>4. CASE Kind(path) = "file"
      <4>1. due.res = 0 /\ due.got = <<"file", ShownSize(path)>>
        BY <1>6, <1>7, <2>2, <3>1, <3>4
      <4>2. Exists(a) /\ _stat_to_bytes(path) = <<"file", ShownSize(path)>>
        BY <2>2, <3>1, <3>4 DEF Exists, _stat_to_bytes, ShownSize
      <4> QED BY <4>1, <4>2, <2>2
    <3> QED BY <3>1, <3>2, <3>3, <3>4
  <2>3. CASE ~dev /\ RootDir /\ a # path
    <3>1. Shows(path) \in {"alias", "broken"} /\ Exists(a)
          /\ (Shows(path) = "alias" <=> Unpacks(a))
      BY <1>2, <2>3, NameParts DEF IInv
    <3>2. CASE Shows(path) = "broken"
      BY <1>6, <1>7, <2>3, <3>1, <3>2 DEF NoBuffer
    <3>3. CASE Shows(path) = "alias"
      <4>1. due.res = 0 /\ due.got = <<"file", ShownSize(path)>>
        BY <1>6, <1>7, <2>3, <3>3
      <4>2. _get_compressed_stat(a) = <<"file", ShownSize(path)>>
        BY <3>3 DEF _get_compressed_stat, ShownSize, ShownIno
      <4> QED BY <4>1, <4>2, <2>3, <3>1, <3>3
    <3> QED BY <3>1, <3>2, <3>3
  <2> QED BY <2>1, <2>2, <2>3
<1> HIDE DEF r, d
<1>9. reply'.result = due.res /\ reply'.data = due.got BY <1>5, <1>8
<1>10. SubSeq(due.got, 1, Len(due.got)) = due.got
  <2>1. ASSUME NEW x, NEW y PROVE SubSeq(<<x, y>>, 1, Len(<<x, y>>)) = <<x, y>>
    <3>1. <<x, y>> \in Seq({x, y})
      OBVIOUS
    <3> QED BY <3>1, SubSeqFull
  <2>2. SubSeq(NoBuffer, 1, Len(NoBuffer)) = NoBuffer BY DEF NoBuffer
  <2>3. due.got = NoBuffer \/ \E x, y : due.got = <<x, y>> BY <1>6
  <2> QED BY <2>1, <2>2, <2>3
<1>11. AsDue' BY ExchangeAsDue DEF Changes, Writes
<1>12. Replied(call[t])'
  <2>1. c.op \notin Opens \cup {"udpfs_read"} \cup Reads \cup Writes
    BY DEF Opens, Reads, Writes
  <2> QED BY <2>1, <1>1, <1>9, <1>10, <1>11 DEF Replied
<1>13. at'[t] = "wait" BY NoMore DEF Writes
<1>14. reply'.result < 0 => Excused' BY <1>1, <1>9 DEF Excused
<1> QED BY <1>12, <1>13, <1>14, ExchangeAnswers

\* What a change of the names comes to.
LEMMA AnswerOfName ==
    ASSUME NEW files, NEW c, c.op \in {"udpfs_mkdir", "udpfs_remove", "udpfs_rmdir"}
    PROVE  /\ Due(files, c).got = NoBuffer
           /\ Due(files, c).res = 0 \/ Due(files, c).res < 0
           /\ Due(files, c).res = 0 <=>
                /\ MayChange
                /\ c.op = "udpfs_mkdir" => ~Exists(c.path) /\ Kind(Parent[c.path]) = "dir"
                /\ c.op = "udpfs_remove" => Kind(c.path) = "file"
                /\ c.op = "udpfs_rmdir" => Kind(c.path) = "dir" /\ Children(c.path) = {}
<1>1. Due(files, c) = LocalName(files, c) BY DueOf DEF OnNames
<1>2. \A r, g : Result(files, r, g).res = r /\ Result(files, r, g).got = g
  BY DEF Result
<1>3. \A T : /\ [Result(files, 0, NoBuffer) EXCEPT !.tree[c.path] = T].res = 0
             /\ [Result(files, 0, NoBuffer) EXCEPT !.tree[c.path] = T].got = NoBuffer
  BY DEF Result
<1>4. EACCES < 0 /\ EEXIST < 0 /\ ENOENT < 0 BY DEF EACCES, EEXIST, ENOENT
<1>5. CASE ~MayChange
  <2>1. Due(files, c) = Result(files, EACCES, NoBuffer)
    BY <1>1, <1>5 DEF LocalName, MayChange
  <2> QED BY <2>1, <1>2, <1>4, <1>5
<1>6. CASE MayChange /\ c.op = "udpfs_mkdir"
  <2>1. Due(files, c) =
          IF Exists(c.path) \/ Kind(Parent[c.path]) # "dir" THEN Result(files, EEXIST, NoBuffer)
          ELSE [Result(files, 0, NoBuffer) EXCEPT !.tree[c.path] = [kind |-> "dir", ino |-> 0]]
    BY <1>1, <1>6 DEF LocalName, MayChange
  <2> QED BY <2>1, <1>2, <1>3, <1>4, <1>6
<1>7. CASE MayChange /\ c.op = "udpfs_remove"
  <2>1. Due(files, c) =
          IF Kind(c.path) # "file" THEN Result(files, ENOENT, NoBuffer)
          ELSE [Result(files, 0, NoBuffer) EXCEPT !.tree[c.path] = Nothing]
    BY <1>1, <1>7 DEF LocalName, MayChange
  <2> QED BY <2>1, <1>2, <1>3, <1>4, <1>7
<1>8. CASE MayChange /\ c.op = "udpfs_rmdir"
  <2>1. Due(files, c) =
          IF Kind(c.path) # "dir" \/ Children(c.path) # {} THEN Result(files, ENOENT, NoBuffer)
          ELSE [Result(files, 0, NoBuffer) EXCEPT !.tree[c.path] = Nothing]
    BY <1>1, <1>8 DEF LocalName, MayChange
  <2> QED BY <2>1, <1>2, <1>3, <1>4, <1>8
<1> QED BY <1>5, <1>6, <1>7, <1>8

\* A name is made or removed as it would be locally.
LEMMA NameAnswers ==
    ASSUME IInv, AnswerInv, NEW t \in Threads, Exchange(t),
           call[t].op \in {"udpfs_mkdir", "udpfs_remove", "udpfs_rmdir"}
    PROVE  AnswerInv'
<1> DEFINE c == call[t]
           m == Message(c)
           path == c.path
<1>1. /\ Serve(m) /\ c \in Asked /\ UNCHANGED <<call, left, due>> /\ due = Due(due.old, c)
      /\ c # BdInit /\ c.op \in OnNames
  <2>1. c.op \in udpfs_device_ops /\ c.op # "udpfs_bd_init" /\ c.op \in OnNames
    BY DEF udpfs_device_ops, OnNames
  <2>2. at[t] = "send" BY ExchangeFacts
  <2> QED BY <2>1, <2>2, ExchangeFacts DEF Sends
<1>2. path \in Names BY <1>1, CallFields DEF OnNames
<1> DEFINE Fitting == /\ c.op = "udpfs_mkdir" => ~Exists(path) /\ Kind(Parent[path]) = "dir"
                      /\ c.op = "udpfs_remove" => Kind(path) = "file"
                      /\ c.op = "udpfs_rmdir" => Kind(path) = "dir" /\ Children(path) = {}
           T == IF c.op = "udpfs_mkdir" THEN [tree EXCEPT ![path] = [kind |-> "dir", ino |-> 0]]
                ELSE [tree EXCEPT ![path] = Nothing]
<1>3. /\ due.got = NoBuffer
      /\ due.res = 0 \/ due.res < 0
      /\ due.res = 0 <=> MayChange /\ Fitting
  <2> DEFINE k == c
             files == due.old
  <2>1. k.op \in {"udpfs_mkdir", "udpfs_remove", "udpfs_rmdir"} /\ due = Due(files, k)
        /\ path = k.path /\ c.op = k.op
    BY <1>1
  <2> HIDE DEF k, files, path, c
  <2> QED BY <2>1, AnswerOfName
<1>4. \E e \in Int :
        /\ reply' = [type |-> "RESULT_REPLY", result |-> e, data |-> <<>>]
        /\ e = 0 \/ e < 0
        /\ e = 0 <=> MayChange /\ Fitting
        /\ e = 0 => tree' = T
        /\ UNCHANGED data
  <2>1. /\ MayNot = 0 <=> MayChange
        /\ MayNot # 0 => MayNot = EACCES
    BY DEF MayNot, MayChange, EACCES
  <2>2. CASE c.op = "udpfs_mkdir"
    <3>1. m.op = "mkdir" /\ m.path = path
      BY <1>1, <2>2, MessageOf DEF udpfs_core_mkdir, udpfs_device_ops
    <3>2. _handle_mkdir(m) BY <1>1, <3>1, Dispatch
    <3> HIDE DEF m
    <3> DEFINE e == IF MayNot # 0 THEN MayNot
                    ELSE IF Exists(path) THEN EEXIST
                    ELSE CASE Kind(Parent[path]) = "dir" -> 0
                           [] Kind(Parent[path]) = "file" -> ENOTDIR
                           [] Kind(Parent[path]) = "none" -> ENOENT
    <3>3. /\ reply' = [type |-> "RESULT_REPLY", result |-> e, data |-> <<>>]
          /\ e = 0 => tree' = [tree EXCEPT ![path] = [kind |-> "dir", ino |-> 0]]
          /\ UNCHANGED data
      BY <3>1, <3>2 DEF _handle_mkdir, _send_result_reply, Reply
    <3>4. ~Exists(path) => Kind(Parent[path]) \in {"none", "dir", "file"}
      <4>1. ~Exists(path) => path \in Paths BY <1>2 DEF Names, Exists, Kind
      <4> QED BY <4>1, NamesAssumption, NameParts DEF IInv
    <3>5. /\ e \in Int /\ (e = 0 \/ e < 0)
          /\ e = 0 <=> MayChange /\ ~Exists(path) /\ Kind(Parent[path]) = "dir"
      BY <3>4, <2>1 DEF EACCES, EEXIST, ENOTDIR, ENOENT
    <3> HIDE DEF e
    <3> QED BY <3>3, <3>5, <2>2
  <2>3. CASE c.op = "udpfs_remove"
    <3>1. m.op = "remove" /\ m.path = path
      BY <1>1, <2>3, MessageOf DEF udpfs_core_remove, udpfs_device_ops
    <3>2. _handle_remove(m) BY <1>1, <3>1, Dispatch
    <3> HIDE DEF m
    <3> DEFINE e == IF MayNot # 0 THEN MayNot
                    ELSE IF ~Exists(path) THEN ENOENT
                    ELSE IF Kind(path) = "dir" THEN EISDIR ELSE 0
    <3>3. /\ reply' = [type |-> "RESULT_REPLY", result |-> e, data |-> <<>>]
          /\ e = 0 => tree' = [tree EXCEPT ![path] = Nothing]
          /\ UNCHANGED data
      BY <3>1, <3>2 DEF _handle_remove, _send_result_reply, Reply
    <3>4. Kind(path) \in {"none", "dir", "file"} BY <1>2, NameParts DEF IInv
    <3>5. /\ e \in Int /\ (e = 0 \/ e < 0)
          /\ e = 0 <=> MayChange /\ Kind(path) = "file"
      BY <3>4, <2>1 DEF EACCES, EISDIR, ENOENT, Exists
    <3> HIDE DEF e
    <3> QED BY <3>3, <3>5, <2>3
  <2>4. CASE c.op = "udpfs_rmdir"
    <3>1. m.op = "rmdir" /\ m.path = path
      BY <1>1, <2>4, MessageOf DEF udpfs_core_rmdir, udpfs_device_ops
    <3>2. _handle_rmdir(m) BY <1>1, <3>1, Dispatch
    <3> HIDE DEF m
    <3> DEFINE e == IF MayNot # 0 THEN MayNot
                    ELSE IF ~Exists(path) THEN ENOENT
                    ELSE IF Kind(path) # "dir" THEN ENOTDIR
                    ELSE IF Children(path) # {} THEN ENOTEMPTY ELSE 0
    <3>3. /\ reply' = [type |-> "RESULT_REPLY", result |-> e, data |-> <<>>]
          /\ e = 0 => tree' = [tree EXCEPT ![path] = Nothing]
          /\ UNCHANGED data
      BY <3>1, <3>2 DEF _handle_rmdir, _send_result_reply, Reply
    <3>5. /\ e \in Int /\ (e = 0 \/ e < 0)
          /\ e = 0 <=> MayChange /\ Kind(path) = "dir" /\ Children(path) = {}
      BY <2>1 DEF EACCES, ENOTDIR, ENOENT, ENOTEMPTY, Exists
    <3> HIDE DEF e
    <3> QED BY <3>3, <3>5, <2>4
  <2> QED BY <2>2, <2>3, <2>4
<1> HIDE DEF m
<1>5. due.res = 0 => due.tree = T /\ due.data = data
  <2> SUFFICES ASSUME due.res = 0 PROVE due.tree = T /\ due.data = data
    OBVIOUS
  <2>1. MayChange /\ Fitting BY <1>3
  <2> DEFINE k == c
             files == due.old
  <2>2. due = Due(files, k) /\ k = c BY <1>1
  <2>6. k.op \in OnNames BY <1>1
  <2> HIDE DEF k, files
  <2>7. due.data = data BY <2>2, <2>6, DueNames
  <2>3. CASE c.op = "udpfs_mkdir"
    BY <2>1, <2>2, <2>3, <2>7, DueMkdir
  <2>4. CASE c.op = "udpfs_remove"
    BY <2>1, <2>2, <2>4, <2>7, DueRemove
  <2>5. CASE c.op = "udpfs_rmdir"
    BY <2>1, <2>2, <2>5, <2>7, DueRmdir
  <2> QED BY <2>3, <2>4, <2>5
<1> HIDE DEF Fitting, T
<1>6. PICK e \in Int :
        /\ reply' = [type |-> "RESULT_REPLY", result |-> e, data |-> <<>>]
        /\ e = 0 \/ e < 0
        /\ e = 0 <=> MayChange /\ Fitting
        /\ e = 0 => tree' = T
        /\ UNCHANGED data
  BY <1>4
<1>7. reply'.result = e /\ reply'.data = NoBuffer BY <1>6 DEF NoBuffer
<1>8. reply'.result < 0 => Excused'
  <2>1. e < 0 => due.res < 0 BY <1>3, <1>6
  <2> QED BY <1>1, <1>7, <2>1 DEF Excused
<1>9. ASSUME reply'.result >= 0 PROVE Replied(call[t])'
  <2>1. e = 0 /\ due.res = 0 BY <1>3, <1>6, <1>7, <1>9
  <2>2. AsDue' BY <1>1, <1>5, <1>6, <2>1 DEF AsDue
  <2>3. c.op \notin Opens \cup {"udpfs_read"} \cup Reads \cup Writes
    BY DEF Opens, Reads, Writes
  <2>4. SubSeq(due.got, 1, Len(due.got)) = due.got BY <1>3 DEF NoBuffer
  <2> QED BY <1>1, <1>3, <1>7, <2>1, <2>2, <2>3, <2>4 DEF Replied
<1>10. at'[t] = "wait" BY NoMore DEF Writes
<1> QED BY <1>8, <1>9, <1>10, ExchangeAnswers

\* The size that the console is told of the block device.
LEMMA CapacityAnswers ==
    ASSUME IInv, AnswerInv, NEW t \in Threads, Exchange(t), call[t].op = "udpfs_bd_init"
    PROVE  AnswerInv'
<1> DEFINE c == call[t]
           m == Message(c)
<1>1. c = BdInit /\ Serve(m) /\ UNCHANGED <<call, left, due>> BY ExchangeFacts
<1>2. m.op = "getstat" /\ m.path = ""
  <2>1. m = udpfs_core_get_sector_count BY MessageOf
  <2> HIDE DEF m
  <2> QED BY <2>1 DEF udpfs_core_get_sector_count
<1>3. _handle_getstat(m) BY <1>1, <1>2, Dispatch
<1> HIDE DEF m
<1>4. AsDue' BY ExchangeAsDue DEF Changes, Writes
<1>5. at'[t] = "wait" BY NoMore DEF Writes
<1>6. due.res = DeviceSectors BY <1>1, ExchangeFacts DEF AnswerInv, Answers
<1>7. ASSUME reply'.result >= 0 PROVE reply'.data[2] \div SectorUnits = due.res
  <2>1. Kind("") = "dir" /\ Actual("") = ""
    <3>1. Kind("") = "dir" BY DEF Kind
    <3>2. _find_compressed_version("") = ""
      BY <3>1 DEF _find_compressed_version, Exists
    <3> QED BY <3>1, <3>2 DEF Actual
  <2>2. SectorUnits \in Nat \ {0} BY FilesAssumption
  <2>3. CASE 0 \in DOMAIN handles
    <3> DEFINE n == SectorUnits * DeviceSectors
    <3>1. reply' = [type |-> "GETSTAT_REPLY", result |-> 0, data |-> <<"none", n>>]
      BY <1>2, <1>3, <2>3 DEF _handle_getstat, _send_getstat_reply, Reply
    <3> HIDE DEF n
    <3>2. reply'.data[2] = n BY <3>1
    <3>3. DeviceSectors \in Nat
      <4>1. BlockDevice # 0 BY <2>3 DEF IInv, TableInv
      <4>2. Len(Data0[BlockDevice]) \in Nat
        BY <4>1, FilesAssumption, LenProperties
      <4>3. ASSUME NEW a \in Nat, NEW k \in Nat \ {0} PROVE a \div k \in Nat
        BY SMTT(30)
      <4> QED BY <2>2, <4>1, <4>2, <4>3 DEF DeviceSectors
    <3>4. ASSUME NEW a \in Nat, NEW k \in Nat \ {0} PROVE (k * a) \div k = a
      BY SMTT(30)
    <3>5. n \div SectorUnits = DeviceSectors
      <4> DEFINE a == DeviceSectors
                 k == SectorUnits
      <4>1. a \in Nat /\ k \in Nat \ {0} BY <2>2, <3>3
      <4> HIDE DEF a, k
      <4>2. (k * a) \div k = a BY <4>1, <3>4
      <4> QED BY <4>2 DEF a, k, n
    <3> QED BY <3>2, <3>5, <1>6
  <2>4. CASE 0 \notin DOMAIN handles
    <3>1. BlockDevice = 0 BY <2>4 DEF IInv, TableInv
    <3>2. RootDir
      <4> SUFFICES ASSUME ~RootDir PROVE FALSE
        OBVIOUS
      <4>1. reply' = [type |-> "GETSTAT_REPLY", result |-> EACCES, data |-> <<>>]
        BY <1>2, <1>3, <2>4 DEF _handle_getstat, _send_getstat_reply, Reply
      <4> QED BY <4>1, <1>7 DEF EACCES
    <3>3. reply' = [type |-> "GETSTAT_REPLY", result |-> 0, data |-> <<"dir", 0>>]
      <4>1. Exists("") /\ _stat_to_bytes("") = <<"dir", 0>>
        BY <2>1 DEF Exists, _stat_to_bytes
      <4> QED BY <1>2, <1>3, <2>1, <2>4, <3>2, <4>1 DEF _handle_getstat, _send_getstat_reply, Reply
    <3>4. reply'.data[2] = 0 BY <3>3
    <3>5. 0 \div SectorUnits = 0
      <4>1. ASSUME NEW k \in Nat \ {0} PROVE 0 \div k = 0
        BY SMTT(30)
      <4> QED BY <2>2, <4>1
    <3> QED BY <3>1, <3>4, <3>5, <1>6 DEF DeviceSectors
  <2> QED BY <2>3, <2>4
<1>8. ASSUME reply'.result >= 0 PROVE Replied(call[t])'
  <2>1. c.op \notin Opens \cup {"udpfs_read", "udpfs_lseek64", "udpfs_dread"} \cup OnNames
                    \cup Reads \cup Writes
    BY DEF Opens, OnNames, Reads, Writes
  <2> QED BY <1>1, <1>4, <1>7, <1>8, <2>1 DEF Replied
<1> QED BY <1>1, <1>5, <1>8, ExchangeAnswers

\* An open that is to empty a file does.
LEMMA TruncatingMode ==
    ASSUME NEW flags \in SUBSET Flags, NEW exists \in BOOLEAN, "TRUNC" \in flags, "WR" \in flags,
           "APPEND" \notin flags, "RD" \in flags => "CREAT" \in flags
    PROVE  _flags_to_mode(flags, exists) \in {"wb", "w+b"}
<1>1. CASE "RD" \notin flags
  <2>1. flags \intersect {"RD", "WR"} = {"WR"} /\ {"WR"} # {"RD"} BY <1>1
  <2>2. _flags_to_mode(flags, exists) = "wb" BY <2>1 DEF _flags_to_mode
  <2> QED BY <2>2
<1>2. CASE "RD" \in flags
  <2>1. /\ flags \intersect {"RD", "WR"} = {"RD", "WR"} /\ {"RD", "WR"} # {"RD"}
        /\ {"RD", "WR"} # {"WR"} /\ {"RD", "WR"} \subseteq flags
    BY <1>2
  <2>2. _flags_to_mode(flags, exists) = "w+b" BY <1>2, <2>1 DEF _flags_to_mode
  <2> QED BY <2>2
<1> QED BY <1>1, <1>2

\* An open that keeps its file leaves the files as they are.
LEMMA DueKept ==
    ASSUME NEW files, NEW c, c.op = "udpfs_open", ~Refuses(c), Keeps(c)
    PROVE  Due(files, c).tree = tree /\ Due(files, c).data = data
<1>1. Due(files, c) = LocalOpen(files, _alloc_fd, c) BY DueOf
<1>2. LocalOpen(files, _alloc_fd, c) =
        [Result(files, 0, NoBuffer) EXCEPT !.files[_alloc_fd] = KeptFile(c)]
  BY DEF LocalOpen
<1> QED BY <1>1, <1>2 DEF Result

\* An open that is refused, and one that is not.
LEMMA OpenFailsSo ==
    ASSUME IInv, AnswerInv, NEW t \in Threads, Exchange(t), call[t].op \in Opens,
           NEW e \in Int, e < 0, reply' = [type |-> "OPEN_REPLY", result |-> e, data |-> <<>>],
           due.res < 0 \/ (TableFull /\ UNCHANGED handles)
    PROVE  AnswerInv'
<1>1. UNCHANGED <<left, due>> BY ExchangeFacts
<1>2. Excused' BY <1>1 DEF Excused, TableFull
<1>3. at'[t] = "wait" BY NoMore DEF Opens, Writes
<1>4. ~(reply'.result >= 0)
  OBVIOUS
<1> QED BY <1>2, <1>3, <1>4, ExchangeAnswers

\* An open that gives the next handle, as is due.
LEMMA OpenGivesSo ==
    ASSUME IInv, AnswerInv, NEW t \in Threads, Exchange(t), call[t].op \in Opens,
           reply' = [type |-> "OPEN_REPLY", result |-> next_handle, data |-> <<>>],
           due.res = 0, AsDue'
    PROVE  AnswerInv'
<1>1. UNCHANGED <<call, due>> /\ call[t] # BdInit BY ExchangeFacts DEF Opens
<1>2. due.got = NoBuffer
  <2> DEFINE c == call[t]
             files == due.old
  <2>1. c.op \in Opens /\ due = Due(files, c)
    <3>1. t = 1 /\ due = Due(due.old, call[1]) BY OpenFacts
    <3> QED BY <3>1
  <2> HIDE DEF c, files
  <2> QED BY <2>1, AnswerOfOpen
<1>3. at'[t] = "wait" BY NoMore DEF Opens, Writes
<1>4. ~(reply'.result < 0)
  <2>1. next_handle \in Nat BY DEF IInv, ServerTypes
  <2> QED BY <2>1
<1>5. Replied(call[t])'
  <2>1. call[t].op \notin OnNames \cup {"udpfs_read", "udpfs_lseek64", "udpfs_dread"}
                    \cup Reads \cup Writes
    BY DEF Opens, OnNames, Reads, Writes
  <2> QED BY <1>1, <1>2, <2>1 DEF Replied
<1> QED BY <1>3, <1>4, <1>5, ExchangeAnswers

\* The open of a file.
LEMMA FileOpenAnswers ==
    ASSUME IInv, AnswerInv, NEW t \in Threads, Exchange(t), call[t].op = "udpfs_open",
           NEW ino, Kind(call[t].path) \in {"none", "file"}, Shows(call[t].path) = Kind(call[t].path),
           ino = MadeIno(call[t]), ~Refuses(call[t]), call[t].path \in Paths,
           Kind(Parent[call[t].path]) # "file", ino \in Inodes,
           OpenFile(udpfs_core_open(call[t]), ino,
                    _flags_to_mode(call[t].flags, Exists(call[t].path)))
    PROVE  AnswerInv'
<1> DEFINE c == call[t]
           path == c.path
           m == udpfs_core_open(c)
           exists == Exists(path)
           mode == _flags_to_mode(c.flags, exists)
<1>1. /\ t = 1 /\ c \in Asked /\ due = Due(due.old, c) /\ c.op \in Opens
      /\ ServerTypes /\ TreeInv /\ UNCHANGED <<call, due>>
  BY OpenFacts DEF Opens, IInv
<1>2. c.flags \in SUBSET Flags /\ exists \in BOOLEAN
  BY <1>1, CallFields DEF Exists
<1>3. m.path = path BY DEF udpfs_core_open
<1>4. due.res = 0
  <2> DEFINE k == c
             files == due.old
  <2>1. k.op \in Opens /\ k.op = "udpfs_open" /\ due = Due(files, k) /\ ~Refuses(k)
    BY <1>1
  <2> HIDE DEF k, files
  <2> QED BY <2>1, AnswerOfOpen
<1> HIDE DEF mode, m
<1>5. /\ Opened(path, ino, mode)
      /\ IF TableFull
         THEN /\ reply' = [type |-> "OPEN_REPLY", result |-> EMFILE, data |-> <<>>]
              /\ UNCHANGED handles
         ELSE reply' = [type |-> "OPEN_REPLY", result |-> next_handle, data |-> <<>>]
  <2>1. OpenFile(m, ino, mode) BY DEF m, mode
  <2> QED BY <1>3, <2>1 DEF OpenFile, _send_open_reply, Reply, UnchangedHandles, NewHandle
<1>6. CASE TableFull
  <2> DEFINE e == EMFILE
  <2>1. e \in Int /\ e < 0 /\ reply' = [type |-> "OPEN_REPLY", result |-> e, data |-> <<>>]
        /\ UNCHANGED handles
    BY <1>5, <1>6 DEF EMFILE
  <2> HIDE DEF e
  <2> QED BY <1>1, <1>6, <2>1, OpenFailsSo
<1>7. CASE ~TableFull
  <2>1. /\ tree' = MadeTree(path, ino)
        /\ data' = IF mode \in {"wb", "w+b"} \/ ~exists THEN [data EXCEPT ![ino] = <<>>] ELSE data
    BY <1>5 DEF Opened, MadeTree
  <2>2. CASE Keeps(c)
    <3>1. exists /\ "TRUNC" \notin c.flags /\ Kind(path) = "file" /\ ino = tree[path].ino
      BY <2>2 DEF Keeps, Exists, MadeIno
    <3>2. mode \notin {"wb", "w+b"}
      <4>1. "APPEND" \in c.flags =>
              "WR" \in c.flags /\ "TRUNC" \notin c.flags /\ ("RD" \in c.flags => "CREAT" \in c.flags)
        BY <1>1 DEF Asked, WellMade
      <4> DEFINE flags == c.flags
                 there == exists
      <4>2. /\ flags \in SUBSET Flags /\ there \in BOOLEAN /\ mode = _flags_to_mode(flags, there)
            /\ "APPEND" \in flags =>
                 "WR" \in flags /\ "TRUNC" \notin flags /\ ("RD" \in flags => "CREAT" \in flags)
            /\ there /\ "TRUNC" \notin flags
        BY <1>2, <3>1, <4>1 DEF mode
      <4> HIDE DEF flags, there
      <4> QED BY <4>2, ModeOf
    <3>3. tree' = tree
      <4> HIDE DEF path, c
      <4>1. /\ path \in Paths /\ ino \in Inodes /\ Kind(path) # "dir" /\ Kind(Parent[path]) # "file"
            /\ tree' = MadeTree(path, ino) /\ Kind(path) = "file" /\ ino = tree[path].ino
        BY <2>1, <3>1 DEF path, c
      <4> QED BY <1>1, <4>1, TreeMade
    <3>4. due.tree = tree /\ due.data = data
      <4> DEFINE k == c
                 files == due.old
      <4>1. k.op = "udpfs_open" /\ due = Due(files, k) /\ ~Refuses(k) /\ Keeps(k)
        BY <1>1, <2>2
      <4> HIDE DEF k, files
      <4> QED BY <4>1, DueKept
    <3>5. AsDue' BY <1>1, <2>1, <3>1, <3>2, <3>3, <3>4 DEF AsDue
    <3> QED BY <1>1, <1>4, <1>5, <1>7, <3>5, OpenGivesSo
  <2>3. CASE ~Keeps(c)
    <3>1. mode \in {"wb", "w+b"} \/ ~exists
      <4> SUFFICES ASSUME exists PROVE mode \in {"wb", "w+b"}
        OBVIOUS
      <4>1. "TRUNC" \in c.flags BY <2>3 DEF Keeps
      <4>2. /\ "WR" \in c.flags /\ "APPEND" \notin c.flags
            /\ "RD" \in c.flags => "CREAT" \in c.flags
        BY <1>1, <4>1 DEF Asked, WellMade
      <4> DEFINE flags == c.flags
                 there == exists
      <4>3. /\ flags \in SUBSET Flags /\ there \in BOOLEAN /\ mode = _flags_to_mode(flags, there)
            /\ "TRUNC" \in flags /\ "WR" \in flags /\ "APPEND" \notin flags
            /\ "RD" \in flags => "CREAT" \in flags
        BY <1>2, <4>1, <4>2 DEF mode
      <4> HIDE DEF flags, there
      <4> QED BY <4>3, TruncatingMode
    <3>2. due.tree = MadeTree(path, ino) /\ due.data = [data EXCEPT ![ino] = <<>>]
      <4> DEFINE k == c
                 files == due.old
      <4>1. /\ k.op = "udpfs_open" /\ due = Due(files, k) /\ ~Refuses(k) /\ ~Keeps(k)
            /\ path = k.path /\ ino = MadeIno(k)
        BY <1>1, <2>3
      <4> HIDE DEF k, files, path
      <4> QED BY <4>1, DueMade
    <3>3. AsDue' BY <1>1, <2>1, <3>1, <3>2 DEF AsDue
    <3> QED BY <1>1, <1>4, <1>5, <1>7, <3>3, OpenGivesSo
  <2> QED BY <2>2, <2>3
<1> QED BY <1>6, <1>7

\* Every open.
LEMMA OpenAnswers ==
    ASSUME IInv, AnswerInv, NEW t \in Threads, Exchange(t), call[t].op \in Opens
    PROVE  AnswerInv'
<1> DEFINE c == call[t]
           path == c.path
           m == udpfs_core_open(c)
<1>1. /\ t = 1 /\ c \in Asked /\ path \in Names /\ due = Due(due.old, c) /\ c.op \in Opens
      /\ ServerTypes /\ TreeInv /\ _handle_open(m) /\ UNCHANGED <<read_only, due>>
  BY OpenFacts DEF IInv
<1>2. /\ m.op = "open" /\ m.path = path /\ (m.is_dir <=> c.op = "udpfs_dopen")
      /\ m.flags = IF c.op = "udpfs_dopen" THEN {} ELSE c.flags
  BY DEF udpfs_core_open
<1>3. /\ c.op = "udpfs_open" => due.res = IF Refuses(c) THEN EIO ELSE 0
      /\ c.op = "udpfs_dopen" => due.res = IF ~RootDir \/ Kind(path) # "dir" THEN EIO ELSE 0
      /\ c.op = "udpfs_open" /\ ~Refuses(c) /\ Keeps(c) => due.tree = tree /\ due.data = data
      /\ c.op = "udpfs_dopen" => due.tree = tree /\ due.data = data
  <2> DEFINE k == c
             files == due.old
  <2>1. k.op \in Opens /\ due = Due(files, k) /\ path = k.path /\ k = c BY <1>1
  <2> HIDE DEF k, files, path
  <2>2. /\ c.op = "udpfs_open" => due.res = IF Refuses(c) THEN EIO ELSE 0
        /\ c.op = "udpfs_dopen" => due.res = IF ~RootDir \/ Kind(path) # "dir" THEN EIO ELSE 0
    BY <2>1, AnswerOfOpen
  <2>3. c.op = "udpfs_open" /\ ~Refuses(c) /\ Keeps(c) => due.tree = tree /\ due.data = data
    BY <2>1, DueKept
  <2>4. c.op = "udpfs_dopen" => due.tree = tree /\ due.data = data
    BY <2>1, DueDopen
  <2> QED BY <2>2, <2>3, <2>4
<1>4. EIO < 0 BY DEF EIO
<1> HIDE DEF m
<1>5. ASSUME NEW e \in {ENOENT, EIO, EACCES, ENOTDIR, EISDIR, EMFILE}, OpenRefused(m, e),
             due.res < 0 \/ TableFull
      PROVE  AnswerInv'
  <2>1. e \in Int /\ e < 0 BY DEF ENOENT, EIO, EACCES, ENOTDIR, EISDIR, EMFILE
  <2>2. /\ reply' = [type |-> "OPEN_REPLY", result |-> e, data |-> <<>>]
        /\ UNCHANGED handles
    BY <1>5 DEF OpenRefused, _send_open_reply, Reply, UnchangedHandles
  <2> QED BY <1>1, <1>5, <2>1, <2>2, OpenFailsSo
<1>6. ASSUME _send_open_reply(NewHandle), UnchangedFiles, due.res = 0, due.tree = tree, due.data = data
      PROVE  AnswerInv'
  <2>1. /\ reply' = [type |-> "OPEN_REPLY", result |-> next_handle, data |-> <<>>] /\ AsDue'
    BY <1>1, <1>6 DEF _send_open_reply, Reply, NewHandle, UnchangedFiles, AsDue
  <2> QED BY <1>1, <1>6, <2>1, OpenGivesSo
<1>7. CASE ~RootDir
  <2>1. OpenRefused(m, EACCES) BY <1>1, <1>7 DEF _handle_open
  <2>2. due.res < 0 BY <1>1, <1>3, <1>4, <1>7 DEF Refuses, Opens
  <2> QED BY <1>5, <2>1, <2>2
<1>8. CASE RootDir /\ c.op = "udpfs_dopen"
  <2>1. OpenDirectory(m) BY <1>1, <1>2, <1>8 DEF _handle_open
  <2>2. CASE Kind(path) # "dir"
    <3>1. OpenRefused(m, ENOENT) \/ OpenRefused(m, ENOTDIR)
      BY <1>1, <1>2, <2>1, <2>2, NameParts DEF OpenDirectory
    <3> QED BY <1>3, <1>4, <1>5, <1>8, <2>2, <3>1
  <2>3. CASE Kind(path) = "dir" /\ TableFull
    <3>1. OpenRefused(m, EMFILE) BY <1>2, <2>1, <2>3 DEF OpenDirectory
    <3> QED BY <1>5, <2>3, <3>1
  <2>4. CASE Kind(path) = "dir" /\ ~TableFull
    <3>1. _send_open_reply(NewHandle) /\ UnchangedFiles
      BY <1>2, <2>1, <2>4 DEF OpenDirectory
    <3> QED BY <1>3, <1>6, <1>8, <2>4, <3>1
  <2> QED BY <2>2, <2>3, <2>4
<1>9. CASE RootDir /\ c.op = "udpfs_open"
  <2>1. IF read_only /\ "WR" \in c.flags THEN OpenRefused(m, EACCES)
        ELSE IF ~Exists(Actual(path)) /\ "CREAT" \notin c.flags THEN OpenRefused(m, ENOENT)
        ELSE IF Actual(path) # path THEN OpenCompressed(m)
        ELSE IF Kind(path) = "dir" THEN OpenRefused(m, EISDIR)
        ELSE IF Kind(Parent[path]) = "file" THEN OpenRefused(m, ENOTDIR)
        ELSE IF ~Exists(path) /\ _flags_to_mode(c.flags, FALSE) = "rb" THEN OpenMissing(m)
        ELSE \E ino \in IF Exists(path) THEN {tree[path].ino}
                        ELSE {i \in FreshInodes : i = NewInode} :
               OpenFile(m, ino, _flags_to_mode(c.flags, Exists(path)))
    BY <1>1, <1>2, <1>9 DEF _handle_open
  <2>2. CASE read_only /\ "WR" \in c.flags
    <3>1. Refuses(c) BY <2>2 DEF Refuses
    <3> QED BY <1>3, <1>4, <1>5, <1>9, <2>1, <2>2, <3>1
  <2>3. CASE ~(read_only /\ "WR" \in c.flags) /\ ~Exists(Actual(path)) /\ "CREAT" \notin c.flags
    <3>1. Shows(path) = "none"
      <4>1. Actual(path) = path BY <1>1, <2>3, NameParts
      <4> QED BY <1>1, <2>3, <4>1, NameParts DEF Exists
    <3>2. Refuses(c) BY <2>3, <3>1 DEF Refuses
    <3>3. OpenRefused(m, ENOENT) BY <2>1, <2>3
    <3> QED BY <1>3, <1>4, <1>5, <1>9, <3>2, <3>3
  <2>4. CASE /\ ~(read_only /\ "WR" \in c.flags) /\ (Exists(Actual(path)) \/ "CREAT" \in c.flags)
             /\ Actual(path) # path
    <3>1. OpenCompressed(m) BY <2>1, <2>4
    <3>2. CASE ~Unpacks(Actual(path))
      <4>1. OpenRefused(m, EIO) BY <1>2, <3>1, <3>2 DEF OpenCompressed
      <4>2. Refuses(c) BY <1>1, <2>4, <3>2, NameParts DEF Refuses
      <4> QED BY <1>3, <1>4, <1>5, <1>9, <4>1, <4>2
    <3>3. CASE Unpacks(Actual(path)) /\ TableFull
      <4>1. OpenRefused(m, EMFILE) BY <1>2, <3>1, <3>3 DEF OpenCompressed
      <4> QED BY <1>5, <3>3, <4>1
    <3>4. CASE Unpacks(Actual(path)) /\ ~TableFull
      <4>1. _send_open_reply(NewHandle) /\ UnchangedFiles
        BY <1>2, <3>1, <3>4 DEF OpenCompressed
      <4>2. Shows(path) = "alias" BY <1>1, <2>4, <3>4, NameParts
      <4>3. ~Refuses(c) /\ Keeps(c) BY <1>9, <2>4, <4>2 DEF Refuses, Keeps
      <4> QED BY <1>3, <1>6, <1>9, <4>1, <4>3
    <3> QED BY <3>2, <3>3, <3>4
  <2>5. CASE /\ ~(read_only /\ "WR" \in c.flags) /\ (Exists(Actual(path)) \/ "CREAT" \in c.flags)
             /\ Actual(path) = path
    <3>1. CASE Kind(path) = "dir"
      <4>1. OpenRefused(m, EISDIR) BY <2>1, <2>5, <3>1
      <4>2. Refuses(c) BY <1>1, <2>5, <3>1, NameParts DEF Refuses
      <4> QED BY <1>3, <1>4, <1>5, <1>9, <4>1, <4>2
    <3>2. CASE Kind(path) # "dir" /\ Kind(Parent[path]) = "file"
      <4>1. OpenRefused(m, ENOTDIR) BY <2>1, <2>5, <3>2
      <4>2. Shows(path) = "none"
        <5>1. Shows(path) = Kind(path) /\ Kind(path) \in {"none", "dir", "file"} /\ path \in Paths
          <6>1. path # "" BY <3>2 DEF Kind
          <6> QED BY <1>1, <2>5, <6>1, NameParts
        <5>2. Kind(path) # "file"
          <6>1. Kind(path) = tree[path].kind BY <5>1, NamesAssumption DEF Kind
          <6> QED BY <1>1, <3>2, <5>1, <6>1 DEF TreeInv
        <5> QED BY <3>2, <5>1, <5>2
      <4>3. Refuses(c) BY <3>2, <4>2 DEF Refuses
      <4> QED BY <1>3, <1>4, <1>5, <1>9, <4>1, <4>3
    <3>3. CASE Kind(path) # "dir" /\ Kind(Parent[path]) # "file"
      <4> DEFINE mode == _flags_to_mode(c.flags, Exists(path))
      <4>1. PICK ino \in IF Exists(path) THEN {tree[path].ino}
                         ELSE {i \in FreshInodes : i = NewInode} : OpenFile(m, ino, mode)
        <5>1. ~Exists(path) => _flags_to_mode(c.flags, FALSE) # "rb"
          BY <1>1, <2>5, MadeToWrite, <1>9
        <5> QED BY <2>1, <2>5, <3>3, <5>1
      <4>2. path \in Paths /\ Shows(path) = Kind(path) /\ Kind(path) \in {"none", "file"}
            /\ (Kind(path) = "file" => tree[path].ino \in Inodes)
        <5>1. path # "" BY <3>3 DEF Kind
        <5> QED BY <1>1, <2>5, <3>3, <5>1, NameParts
      <4>3. ino \in Inodes
        <5>1. FreshInodes \subseteq Inodes BY <1>1 DEF FreshInodes, ServerTypes
        <5> QED BY <4>1, <4>2, <5>1 DEF Exists
      <4>4. ino = MadeIno(c) BY <4>1 DEF MadeIno
      <4>5. ~Refuses(c) BY <1>9, <2>5, <3>3, <4>2 DEF Refuses, Exists
      <4> QED BY <1>1, <1>9, <3>3, <4>1, <4>2, <4>3, <4>4, <4>5, FileOpenAnswers DEF m
    <3> QED BY <3>1, <3>2, <3>3
  <2> QED BY <2>2, <2>3, <2>4, <2>5
<1> QED BY <1>1, <1>7, <1>8, <1>9 DEF Opens

\* What is due of a write, if it is taken.
LEMMA AnswerOfWrites ==
    ASSUME NEW files, NEW c, c.op \in Writes
    PROVE  /\ Due(files, c).got = NoBuffer
           /\ c.op = "udpfs_write" => Due(files, c).res = c.size
           /\ c.op # "udpfs_write" => Due(files, c).res = IF read_only THEN EACCES ELSE c.count
<1>1. CASE c.op = "udpfs_write"
  BY <1>1, AnswerOfWrite
<1>2. CASE c.op # "udpfs_write"
  <2> DEFINE content == IF c.op \in FhiCalls THEN Bytes(files[c.fd]) ELSE data[BlockDevice]
  <2>1. c.op \in FhiCalls \cup BdCalls /\ c.op \notin Reads
    BY <1>2 DEF Writes, FhiCalls, BdCalls, Reads
  <2>2. content = IF c.op \in FhiCalls THEN Bytes(files[c.fd]) ELSE data[BlockDevice]
    OBVIOUS
  <2> HIDE DEF content
  <2> QED BY <1>2, <2>1, <2>2, AnswerOfSectors
<1> QED BY <1>1, <1>2

\* A write is refused, collected, or made whole as it is due.
LEMMA WriteAnswers ==
    ASSUME IInv, AnswerInv, NEW t \in Threads, Exchange(t), call[t].op \in Writes
    PROVE  AnswerInv'
<1> DEFINE c == call[t]
           H == Handle(c)
           m == WriteMessage(c)
<1>1. /\ done \in Nat /\ Message(c) = m /\ c # BdInit /\ due = Due(due.old, c)
      /\ done = 0 => reply = NoReply
      /\ done > 0 => IF reply = NoReply THEN write = Collected(c) ELSE write = NoWrite
      /\ left.as = "ioman" => c.op = "udpfs_write" /\ t = 1
      /\ left.pc => left.as = "fhi" /\ DOMAIN handles \subseteq {0} /\ write = NoWrite
      /\ left.as = "fhi" => c.op = "fhi_write"
      /\ c.op = "udpfs_write" => left.as = "ioman" /\ c.size = Len(c.data)
      /\ UNCHANGED <<call, left, due, read_only>>
      /\ at'[t] = IF MoreChunks(c) THEN "send" ELSE "wait"
  BY WriteFacts, ExchangeFacts
<1>2. /\ done = 0 => StartWrite(m)
      /\ done > 0 => TakeChunk(write, m)
      /\ m.handle = H /\ m.chunk_nr = done
      /\ done = 0 => NewWrite(m) = Collected(c)
  BY WriteServed
<1>3. /\ ~left.pc => IsFile(H)
      /\ ~left.pc /\ left.as = "ioman" => ~read_only
  BY WriteOpen
<1>4. left.pc => ~IsFile(H)
  <2> SUFFICES ASSUME left.pc PROVE ~IsFile(H)
    OBVIOUS
  <2>1. c.op \in FhiCalls /\ c.fd \in Fds BY <1>1, WriteFacts DEF FhiCalls
  <2>2. H = fhi[c.fd] /\ fhi \in [Fds -> Numbers]
    BY <2>1, HandleOf DEF IInv, ClientTypes
  <2> QED BY <1>1, <2>1, <2>2 DEF IsFile
<1>5. read_only \/ left.pc => write = NoWrite /\ left.as # "ioman"
  BY <1>1, <1>3 DEF IInv, NoWriteInv
<1>6. NoWrite.received_chunks = 0 /\ Collected(c).received_chunks = done
  BY DEF NoWrite, Collected
<1>7. /\ due.got = NoBuffer
      /\ c.op = "udpfs_write" => due.res = c.size
      /\ c.op # "udpfs_write" => due.res = IF read_only THEN EACCES ELSE c.count
  <2> DEFINE k == c
             files == due.old
  <2>1. k.op \in Writes /\ due = Due(files, k) /\ k = c BY <1>1
  <2> HIDE DEF k, files
  <2> QED BY <2>1, AnswerOfWrites
<1> HIDE DEF m, H
<1>8. CASE done = 0 /\ (read_only \/ left.pc)
  <2>1. WriteRefused(m) BY <1>2, <1>4, <1>8 DEF WriteRefused
  <2>2. reply' = [type |-> "WRITE_DONE", result |-> IF read_only THEN EACCES ELSE EBADF,
                  data |-> <<>>]
    BY <1>2, <1>8, <2>1 DEF StartWrite, _send_write_done, Reply
  <2>3. reply'.result < 0 BY <2>2 DEF EACCES, EBADF
  <2>4. Excused'
    <3>1. read_only => due.res < 0 BY <1>1, <1>5, <1>7 DEF EACCES
    <3> QED BY <1>1, <1>8, <3>1 DEF Excused
  <2>5. ~(reply'.result >= 0) BY <2>2 DEF EACCES, EBADF
  <2> QED BY <1>1, <2>3, <2>4, <2>5, ExchangeAnswers
<1>9. CASE done > 0 /\ reply # NoReply
  <2>1. write = NoWrite BY <1>1, <1>9
  <2>2. ~InTurn(write, m) BY <1>2, <1>6, <1>9, <2>1 DEF InTurn
  <2>3. UNCHANGED <<reply, handles>>
    BY <1>2, <1>9, <2>2 DEF TakeChunk, Acked, UnchangedHandles
  <2> QED BY <2>3, QuietAnswers
<1>10. CASE /\ done = 0 => ~(read_only \/ left.pc)
            /\ done > 0 => reply = NoReply
  <2>1. reply = NoReply BY <1>1, <1>10
  <2>2. ~read_only /\ ~left.pc BY <1>1, <1>5, <1>6, <1>10
  <2>3. TakeChunk(Collected(c), m)
    <3>1. CASE done = 0
      <4>1. ~WriteRefused(m) BY <1>2, <1>3, <2>2 DEF WriteRefused
      <4> QED BY <1>2, <3>1, <4>1 DEF StartWrite
    <3>2. CASE done > 0
      BY <1>1, <1>2, <2>1, <3>2
    <3> QED BY <1>1, <3>1, <3>2
  <2>4. IF MoreChunks(c)
        THEN /\ write' = WithChunk(c) /\ serving' = TRUE
             /\ UNCHANGED <<tree, data, handles, next_handle, reply>>
        ELSE Complete(WithChunk(c))
    BY <1>1, <2>3, ChunkTaken
  <2>5. CASE MoreChunks(c)
    BY <2>4, <2>5, QuietAnswers
  <2>6. CASE ~MoreChunks(c)
    <3> DEFINE w == WithChunk(c)
    <3>1. Complete(w) /\ w.handle = H /\ IsFile(H) /\ (w.is_block <=> c.op # "udpfs_write")
      BY <1>3, <2>2, <2>4, <2>6 DEF WithChunk, H
    <3>2. CASE ~Writable(handles[H])
      <4> HIDE DEF w
      <4>1. Ends BY <3>1, <3>2 DEF Complete
      <4> QED BY <4>1, QuietAnswers DEF Ends
    <3>3. CASE Writable(handles[H])
      <4> DEFINE from == WriteAt(w, handles[H])
                 new == WriteData(w)
                 ino == handles[H].ino
      <4>1. handles[H].kind = "file" BY <3>3 DEF Writable
      <4>2. /\ due.data = [data EXCEPT ![ino] = WrittenAt(data[ino], from, new)] /\ due.tree = tree
            /\ c.op = "udpfs_write" => new = c.data
            /\ Len(new) \in Nat
        <5>1. handles[Handle(c)].kind = "file" /\ WriteOf(c, from, new, ino)
          BY <4>1 DEF H, WriteOf
        <5> HIDE DEF w, from, new, ino
        <5>2. IsDue(c, from, new, ino) BY <2>2, <2>6, <5>1, WritesDue
        <5> QED BY <5>2 DEF IsDue
      <4> HIDE DEF w
      <4>3. /\ data' = [data EXCEPT ![ino] = WrittenAt(data[ino], from, new)]
            /\ reply' = [type |-> "WRITE_DONE", result |-> IF w.is_block THEN 0 ELSE Len(new),
                         data |-> <<>>]
            /\ UNCHANGED tree
        BY <3>1, <3>3 DEF Complete, _send_write_done, Reply
      <4>4. AsDue' BY <1>1, <4>2, <4>3 DEF AsDue
      <4> HIDE DEF from, new, ino
      <4>5. reply'.result = IF c.op = "udpfs_write" THEN Len(new) ELSE 0
        BY <3>1, <4>3
      <4>6. ~(reply'.result < 0) BY <4>2, <4>5
      <4>7. Replied(call[t])'
        <5>1. due.res = IF c.op = "udpfs_write" THEN reply'.result ELSE c.count
          BY <1>1, <1>7, <2>2, <4>2, <4>5
        <5>2. c.op \notin Opens \cup OnNames \cup {"udpfs_lseek64", "udpfs_dread", "udpfs_read"}
                          \cup Reads
          BY DEF Opens, OnNames, Reads, Writes
        <5> QED BY <1>1, <1>7, <4>4, <5>1, <5>2 DEF Replied
      <4>8. at'[t] = "wait" BY <1>1, <2>6
      <4> QED BY <4>6, <4>7, <4>8, ExchangeAnswers
    <3> QED BY <3>2, <3>3
  <2> QED BY <2>5, <2>6
<1> QED BY <1>1, <1>8, <1>9, <1>10

\* Every message.
LEMMA ExchangeKeepsAnswers ==
    ASSUME IInv, IInv', AnswerInv, NEW t \in Threads, Exchange(t)
    PROVE  AnswerInv'
<1>1. call[t].op \in udpfs_device_ops \cup FhiCalls \cup BdCalls \cup {"udpfs_bd_init"}
  BY ExchangeFacts
<1>2. \/ call[t].op \in Opens
      \/ call[t].op \in Closes
      \/ call[t].op \in {"udpfs_mkdir", "udpfs_remove", "udpfs_rmdir"}
      \/ call[t].op = "udpfs_getstat"
      \/ call[t].op = "udpfs_bd_init"
      \/ call[t].op = "udpfs_read"
      \/ call[t].op = "udpfs_lseek64"
      \/ call[t].op = "udpfs_dread"
      \/ call[t].op \in Reads
      \/ call[t].op \in Writes
  BY <1>1 DEF udpfs_device_ops, OnNames, OnFiles, FhiCalls, BdCalls, Reads, Writes
<1> QED BY <1>2, OpenAnswers, CloseAnswers, NameAnswers, StatAnswers, CapacityAnswers, ReadAnswers,
           SeekAnswers, DreadAnswers, BreadAnswers, WriteAnswers

-----------------------------------------------------------------------------
(* What a call has come to when a reply is taken.                          *)

\* A call that returns with what it has come to leaves nobody under way.
LEMMA TookAnswers ==
    ASSUME IInv, AnswerInv, NEW t \in Threads, at[t] = "wait", reply # NoReply,
           NEW res, Returns(t, res), left' = left
    PROVE  AnswerInv'
BY TookFacts, ReturnAnswers

\* A read that goes on has what it is to have so far.
LEMMA ReadGoesOn ==
    ASSUME IInv, AnswerInv, NEW t \in Threads, Took(t), call[t].op = "udpfs_read",
           reply.result \in Nat, ~ReadEnds(call[t]), NextMessage(t),
           got' = got \o reply.data, done' = done + reply.result
    PROVE  AnswerInv'
<1> DEFINE c == call[t]
           g == due.got
           r == reply.result
<1>1. /\ at[t] = "wait" /\ reply # NoReply /\ UnchangedServer /\ UNCHANGED left
      /\ at' = [at EXCEPT ![t] = "send"] /\ reply' = NoReply
      /\ UNCHANGED <<call, due, tree, data>>
  BY DEF Took, NextMessage, UnchangedServer
<1>2. Busy(t) /\ (\A u \in Threads : u # t => ~Busy(u)) /\ at \in [Threads -> {"idle", "lock", "send", "wait"}]
      /\ done \in Nat
  BY <1>1, TookFacts DEF IInv, ClientTypes
<1>3. Answers(t) BY <1>2 DEF AnswerInv
<1>4. Filled(c) /\ Replied(c) /\ AsDue
  BY <1>1, <1>3 DEF Answers, Changes, Writes
<1>5. /\ done <= Len(g) /\ got = SubSeq(g, 1, done)
      /\ g \in Seq(Int) /\ done + r <= Len(g)
      /\ reply.data = SubSeq(g, done + 1, done + r)
  BY <1>4 DEF Filled, Replied
<1>6. got' = SubSeq(g, 1, done + r) /\ done + r \in Nat
  <2>1. r \in Nat
    OBVIOUS
  <2> DEFINE d == done
             e == done + r
  <2>2. d \in Nat /\ e \in Nat /\ d <= e /\ e <= Len(g)
    <3>1. Len(g) \in Nat BY <1>5, LenProperties
    <3>2. done + r \in Nat /\ done <= done + r /\ done + r <= Len(g)
      <4> HIDE DEF g, r
      <4> QED BY <3>1, <1>2, <1>5, <2>1
    <3> QED BY <3>2, <1>2
  <2>3. got' = SubSeq(g, 1, d) \o SubSeq(g, d + 1, e) BY <1>5
  <2> HIDE DEF g, d, e
  <2>4. g \in Seq(Int) /\ d \in 0 .. Len(g) /\ e \in d .. Len(g)
    BY <1>5, <2>2 DEF g
  <2>5. SubSeq(g, 1, d) \o SubSeq(g, d + 1, e) = SubSeq(g, 1, e)
    <3>1. 1 \in 1 .. Len(g) + 1 /\ d \in 1 - 1 .. Len(g) /\ e \in d .. Len(g)
      BY <2>4
    <3> QED BY <2>4, <3>1, ConcatAdjacentSubSeq
  <2> QED BY <2>2, <2>3, <2>5 DEF e
<1>7. ASSUME NEW u \in Threads, Busy(u)' PROVE Answers(u)'
  <2>1. u = t /\ at'[u] = "send" /\ call'[u] = c BY <1>1, <1>2, <1>7 DEF Busy
  <2>2. c.op \notin Closes /\ c # BdInit /\ c.op \notin Reads
    BY DEF Closes, BdInit, Reads
  <2>3. Filled(call[u])' BY <1>1, <1>5, <1>6, <2>1, <2>2 DEF Filled
  <2>4. AsDue' BY <1>1, <1>4 DEF AsDue
  <2> QED BY <1>1, <2>1, <2>2, <2>3, <2>4 DEF Answers
<1> QED BY <1>1, <1>7 DEF AnswerInv

\* Nothing that the code holds sectors for is skipped or doubled: with the
\* part that came a block read has what it is to have that far.
LEMMA SectorsSoFar ==
    ASSUME IInv, AnswerInv, NEW t \in Threads, Took(t), call[t].op \in Reads,
           ~(reply.result < 0), NEW n, n = Smaller(call[t].count - done, MaxSectorRead),
           NEW q, q = got \o Whole(n * SectorUnits)
    PROVE  /\ n \in Nat /\ q \in Seq(Int) /\ Len(q) = (done + n) * SectorUnits
           /\ due.got \in Seq(Int) /\ due.res = call[t].count /\ AsDue
           /\ Len(due.got) <= call[t].count * SectorUnits
           /\ \A i \in 1 .. Len(q) : i <= Len(due.got) => q[i] = due.got[i]
<1> DEFINE c == call[t]
           g == due.got
           m == n * SectorUnits
           d == done * SectorUnits
           w == Whole(m)
<1>1. at[t] = "wait" /\ reply # NoReply BY DEF Took
<1>2. Busy(t) /\ done \in Nat /\ reply.result >= 0
  BY <1>1, TookFacts DEF IInv, ClientTypes
<1>3. c.op \in FhiCalls \cup BdCalls /\ c.op \notin Changes
  BY DEF Reads, FhiCalls, BdCalls, Changes, Writes
<1>4. done < c.count /\ c.count \in Nat
  BY <1>2, <1>3, CallOf, CallFields DEF IInv, CallsInv
<1>5. Answers(t) BY <1>2 DEF AnswerInv
<1>6. Filled(c) /\ Replied(c) /\ AsDue BY <1>1, <1>2, <1>3, <1>5 DEF Answers
<1>7. n \in Nat /\ SectorUnits \in Nat
  <2>1. MaxSectorRead \in Nat /\ SectorUnits \in Nat
    BY InputsAssumption, FilesAssumption
  <2>2. c.count - done \in Nat BY <1>2, <1>4
  <2>3. n = c.count - done \/ n = MaxSectorRead BY DEF Smaller
  <2> QED BY <2>1, <2>2, <2>3
<1>8. d \in Nat /\ m \in Nat /\ (done + n) * SectorUnits = d + m /\ PartUnits(c) = m
  <2>1. d \in Nat /\ m \in Nat /\ (done + n) * SectorUnits = d + m
    BY <1>2, <1>7, SMTT(30)
  <2> QED BY <2>1 DEF PartUnits
<1>9. /\ got \in Seq(Int) /\ Len(got) = d
      /\ \A i \in 1 .. Len(got) : i <= Len(g) => got[i] = g[i]
  BY <1>6 DEF Filled
<1>10. /\ g \in Seq(Int) /\ due.res = c.count /\ Len(g) <= c.count * SectorUnits
       /\ reply.data \in Seq(Int)
  BY <1>6 DEF Replied
<1>13. ASSUME NEW i \in 1 .. PartUnits(c), d + i <= Len(g)
       PROVE  i <= Len(reply.data) /\ reply.data[i] = g[d + i]
  BY <1>6, <1>13 DEF Replied
<1> HIDE DEF c, g, m, d
<1>11. w \in Seq(Int) /\ Len(w) = m
       /\ \A i \in 1 .. m : i <= Len(reply.data) => w[i] = reply.data[i]
  <2>1. w = [i \in 1 .. m |-> IF i <= Len(reply.data) THEN reply.data[i] ELSE Unwritten]
    BY DEF Whole
  <2>2. ASSUME NEW i \in 1 .. m
        PROVE  (IF i <= Len(reply.data) THEN reply.data[i] ELSE Unwritten) \in Int
    BY <1>8, <1>10, LenProperties, ElementOfSeq DEF Unwritten
  <2> HIDE DEF w
  <2>3. w \in [1 .. m -> Int] BY <2>1, <2>2
  <2>4. w \in Seq(Int) /\ DOMAIN w = 1 .. m BY <2>1, <2>3, <1>8, SeqDef
  <2>5. Len(w) = m BY <2>4, <1>8, LenProperties
  <2> QED BY <2>1, <2>4, <2>5
<1> HIDE DEF w
<1>12. q = got \o w BY DEF w, m
<1>14. q \in Seq(Int) /\ Len(q) = d + m
       /\ \A i \in 1 .. d + m : q[i] = IF i <= d THEN got[i] ELSE w[i - d]
  <2>1. /\ got \o w \in Seq(Int) /\ Len(got \o w) = Len(got) + Len(w)
        /\ \A i \in 1 .. Len(got) + Len(w) :
             (got \o w)[i] = IF i <= Len(got) THEN got[i] ELSE w[i - Len(got)]
    BY <1>9, <1>11, ConcatProperties
  <2>2. Len(got) = d /\ Len(w) = m BY <1>9, <1>11
  <2> QED BY <2>1, <2>2, <1>12, Zenon
<1>15. ASSUME NEW i \in 1 .. Len(q), i <= Len(g) PROVE q[i] = g[i]
  <2>1. CASE i <= d
    BY <1>8, <1>9, <1>14, <1>15, <2>1
  <2>2. CASE i > d
    <3>1. i - d \in 1 .. m /\ d + (i - d) = i BY <1>8, <1>14, <2>2
    <3>2. i - d <= Len(reply.data) /\ reply.data[i - d] = g[i]
      BY <3>1, <1>8, <1>13, <1>15
    <3>3. q[i] = w[i - d]
      <4>1. i \in 1 .. d + m /\ ~(i <= d) BY <2>2, <1>8, <1>14, <1>15
      <4> QED BY <4>1, <1>14
    <3>4. w[i - d] = reply.data[i - d] BY <3>1, <3>2, <1>11
    <3> QED BY <3>2, <3>3, <3>4
  <2> QED BY <2>1, <2>2, <1>8, <1>14
<1> QED BY <1>6, <1>7, <1>8, <1>10, <1>14, <1>15 DEF c, g, d, m

\* A block read that goes on.
LEMMA SectorsGoOn ==
    ASSUME IInv, AnswerInv, NEW t \in Threads, Took(t), call[t].op \in Reads,
           ~(reply.result < 0), NextMessage(t),
           NEW n, n = Smaller(call[t].count - done, MaxSectorRead),
           got' = got \o Whole(n * SectorUnits), done' = done + n
    PROVE  AnswerInv'
<1> DEFINE c == call[t]
           q == got \o Whole(n * SectorUnits)
<1>1. /\ at[t] = "wait" /\ reply # NoReply /\ UnchangedServer /\ UNCHANGED left
      /\ at' = [at EXCEPT ![t] = "send"] /\ reply' = NoReply
      /\ UNCHANGED <<call, due, tree, data>>
  BY DEF Took, NextMessage, UnchangedServer
<1>2. Busy(t) /\ (\A u \in Threads : u # t => ~Busy(u)) /\ at \in [Threads -> {"idle", "lock", "send", "wait"}]
  BY <1>1, TookFacts DEF IInv, ClientTypes
<1>3. got' = q
  OBVIOUS
<1>7. q = got \o Whole(n * SectorUnits)
  OBVIOUS
<1> HIDE DEF q
<1>4. /\ q \in Seq(Int) /\ Len(q) = (done + n) * SectorUnits /\ AsDue
      /\ \A i \in 1 .. Len(q) : i <= Len(due.got) => q[i] = due.got[i]
  BY <1>7, SectorsSoFar
<1>5. c.op \notin Closes /\ c # BdInit /\ c.op # "udpfs_read"
  BY DEF Closes, BdInit, Reads
<1>6. ASSUME NEW u \in Threads, Busy(u)' PROVE Answers(u)'
  <2>1. u = t /\ at'[u] = "send" /\ call'[u] = c BY <1>1, <1>2, <1>6 DEF Busy
  <2>3. Filled(call[u])' BY <1>1, <1>3, <1>4, <2>1, <1>5 DEF Filled
  <2>4. AsDue' BY <1>1, <1>4 DEF AsDue
  <2> QED BY <1>1, <2>1, <1>5, <2>3, <2>4 DEF Answers
<1> QED BY <1>1, <1>6 DEF AnswerInv

\* What a call returns is due.
ReturnIsDue ==
    /\ Worked =>
         /\ <<tree, data>> = <<due.tree, due.data>>
         /\ IF ret'.op = "udpfs_read" /\ link' = "down"
            THEN ret'.got = SubSeq(due.got, 1, ret'.res)
            ELSE ret'.res = due.res /\ SubSeq(ret'.got, 1, Len(due.got)) = due.got
    /\ ~Worked /\ link' # "down" => due.res < 0 \/ TableFull \/ left.pc

\* What the reply that is taken says.
LEMMA TakenAnswers ==
    ASSUME IInv, AnswerInv, NEW t \in Threads, at[t] = "wait", reply # NoReply
    PROVE  /\ Busy(t) /\ reply.result \in Int /\ Answers(t) /\ Filled(call[t])
           /\ reply.result < 0 /\ call[t] # BdInit => due.res < 0 \/ TableFull \/ left.pc
           /\ ~(reply.result < 0) => Replied(call[t]) /\ AsDue
<1>1. Busy(t) /\ reply.result \in Int BY TookFacts
<1>2. Answers(t) BY <1>1 DEF AnswerInv
<1>3. Filled(call[t]) BY <1>2 DEF Answers
<1>4. reply.result < 0 /\ call[t] # BdInit => due.res < 0 \/ TableFull \/ left.pc
  BY <1>2 DEF Answers, Excused
<1>5. ~(reply.result < 0) => Replied(call[t])
  <2>1. ~(reply.result < 0) => reply.result >= 0 BY <1>1
  <2> QED BY <2>1, <1>2 DEF Answers
<1> QED BY <1>1, <1>2, <1>3, <1>4, <1>5 DEF Replied

\* A call that returns a failure.
LEMMA FailureIsDue ==
    ASSUME NEW t \in Threads, NEW res, Returns(t, res), ~(res > 0),
           call[t].op \notin FhiCalls => res < 0 /\ ~(res >= 0),
           link' # "down" => due.res < 0 \/ TableFull \/ left.pc
    PROVE  ReturnIsDue
<1>1. ret' = [op |-> call[t].op, res |-> res, got |-> got'] BY DEF Returns
<1>2. ret'.op = call[t].op /\ ret'.res = res BY <1>1
<1>3. ~Worked BY <1>2 DEF Worked
<1> QED BY <1>3 DEF ReturnIsDue

\* A call that returns success.
LEMMA SuccessIsDue ==
    ASSUME NEW t \in Threads, NEW res, Returns(t, res), AsDue, res = due.res,
           call[t].op \in FhiCalls => res > 0, call[t].op \notin FhiCalls => res >= 0,
           SubSeq(got', 1, Len(due.got)) = due.got,
           ~(call[t].op = "udpfs_read" /\ link' = "down")
    PROVE  ReturnIsDue
<1>1. ret' = [op |-> call[t].op, res |-> res, got |-> got'] BY DEF Returns
<1>2. ret'.op = call[t].op /\ ret'.res = res /\ ret'.got = got' BY <1>1
<1>3. Worked BY <1>2 DEF Worked
<1> QED BY <1>2, <1>3 DEF ReturnIsDue, AsDue

\* An empty buffer is what is due of a call that puts nothing in it.
LEMMA NothingIsDue ==
    ASSUME due.got = NoBuffer, NEW g, g = NoBuffer
    PROVE  SubSeq(g, 1, Len(due.got)) = due.got
<1>1. Len(<<>>) = 0 /\ SubSeq(<<>>, 1, 0) = <<>>
  OBVIOUS
<1> QED BY <1>1 DEF NoBuffer

\* What an open returns.
LEMMA OpenIsDue ==
    ASSUME IInv, AnswerInv, NEW t \in Threads, TakeOpen(t)
    PROVE  ReturnIsDue
<1> DEFINE r == Smaller(reply.result, 0)
<1>1. /\ Took(t) /\ call[t].op \in Opens /\ Returns(t, r) /\ got' = NoBuffer
      /\ call[t].op \notin FhiCalls /\ call[t].op # "udpfs_read" /\ call[t] # BdInit
  BY DEF TakeOpen, Opens, FhiCalls, BdInit
<1>2. at[t] = "wait" /\ reply # NoReply /\ link' = link BY <1>1 DEF Took
<1>3. /\ reply.result \in Int
      /\ reply.result < 0 => due.res < 0 \/ TableFull \/ left.pc
      /\ ~(reply.result < 0) => Replied(call[t]) /\ AsDue
  BY <1>1, <1>2, TakenAnswers
<1>4. CASE reply.result < 0
  <2>1. r < 0 /\ ~(r > 0) /\ ~(r >= 0) BY <1>3, <1>4 DEF Smaller
  <2> HIDE DEF r
  <2> QED BY <1>1, <1>3, <1>4, <2>1, FailureIsDue
<1>5. CASE ~(reply.result < 0)
  <2>1. r = 0 BY <1>3, <1>5 DEF Smaller
  <2>2. due.res = 0 /\ due.got = NoBuffer /\ AsDue
    BY <1>1, <1>3, <1>5 DEF Replied
  <2>3. SubSeq(got', 1, Len(due.got)) = due.got BY <1>1, <2>2, NothingIsDue
  <2>4. r = due.res /\ r >= 0 BY <2>1, <2>2
  <2> HIDE DEF r
  <2> QED BY <1>1, <2>2, <2>3, <2>4, SuccessIsDue
<1> QED BY <1>4, <1>5

\* What a close returns.
LEMMA CloseIsDue ==
    ASSUME IInv, AnswerInv, NEW t \in Threads, TakeClose(t)
    PROVE  ReturnIsDue
<1> DEFINE r == 0
<1>1. /\ Took(t) /\ call[t].op \in Closes /\ Returns(t, r) /\ got' = NoBuffer
      /\ call[t].op \notin FhiCalls /\ call[t].op # "udpfs_read" /\ call[t].op \notin Changes
  BY DEF TakeClose, Closes, FhiCalls, Changes, Writes
<1>2. at[t] = "wait" /\ reply # NoReply BY <1>1 DEF Took
<1>3. AsDue /\ due.res = 0 /\ due.got = NoBuffer
  BY <1>1, <1>2, TakenAnswers DEF Answers
<1>4. SubSeq(got', 1, Len(due.got)) = due.got BY <1>1, <1>3, NothingIsDue
<1>5. r = due.res /\ r >= 0 BY <1>3
<1> HIDE DEF r
<1> QED BY <1>1, <1>3, <1>4, <1>5, SuccessIsDue

\* What a call on a name, a seek or a list returns.
LEMMA ValueIsDue ==
    ASSUME IInv, AnswerInv, NEW t \in Threads, TakeValue(t)
    PROVE  ReturnIsDue
<1> DEFINE r == reply.result
<1>1. /\ Took(t) /\ call[t].op \in OnNames \cup {"udpfs_lseek64", "udpfs_dread"} /\ Returns(t, r)
      /\ call[t].op \notin FhiCalls /\ call[t].op # "udpfs_read" /\ call[t] # BdInit
      /\ got' = IF r >= 0 THEN reply.data ELSE NoBuffer
  BY DEF TakeValue, OnNames, FhiCalls, BdInit
<1>2. at[t] = "wait" /\ reply # NoReply /\ link' = link BY <1>1 DEF Took
<1>3. /\ r \in Int
      /\ r < 0 => due.res < 0 \/ TableFull \/ left.pc
      /\ ~(r < 0) => Replied(call[t]) /\ AsDue
  BY <1>1, <1>2, TakenAnswers
<1>4. CASE r < 0
  <2>1. ~(r > 0) /\ ~(r >= 0) BY <1>3, <1>4
  <2> HIDE DEF r
  <2> QED BY <1>1, <1>3, <1>4, <2>1, FailureIsDue
<1>5. CASE ~(r < 0)
  <2>1. r >= 0 BY <1>3, <1>5
  <2>2. /\ r = due.res /\ reply.data = due.got /\ AsDue
        /\ SubSeq(due.got, 1, Len(due.got)) = due.got
    BY <1>1, <1>3, <1>5 DEF Replied
  <2>3. SubSeq(got', 1, Len(due.got)) = due.got BY <1>1, <2>1, <2>2
  <2> HIDE DEF r
  <2> QED BY <1>1, <2>1, <2>2, <2>3, SuccessIsDue
<1> QED BY <1>4, <1>5

\* What a read returns.
LEMMA ReadIsDue ==
    ASSUME IInv, AnswerInv, NEW t \in Threads, TakeRead(t), at'[t] = "idle"
    PROVE  ReturnIsDue
<1> DEFINE n == done + reply.result
           g == due.got
<1>1. /\ Took(t) /\ call[t].op = "udpfs_read" /\ call[t].op \notin FhiCalls
  BY DEF TakeRead, FhiCalls
<1>2. at[t] = "wait" /\ reply # NoReply /\ link' = link BY <1>1 DEF Took
<1>3. Busy(t) /\ done \in Nat /\ at \in [Threads -> {"idle", "lock", "send", "wait"}]
  BY <1>2, TookFacts DEF IInv, ClientTypes
<1>4. left.as = "ioman" /\ t = 1
  BY <1>1, <1>3, CallOf DEF udpfs_device_ops, OnFiles
<1>5. link = "up" /\ reply.result \in Nat
  <2>1. link = "up" /\ Answered(call[1]) BY <1>2, <1>4, TookFacts
  <2> QED BY <2>1, <1>1, <1>4 DEF Answered
<1>6. ~(reply.result < 0) /\ n \in Nat BY <1>3, <1>5
<1>7. ReadEnds(call[t]) /\ Returns(t, n) /\ got' = got \o reply.data
  <2>1. ~NextMessage(t) BY <1>3 DEF NextMessage
  <2> QED BY <2>1, <1>6 DEF TakeRead
<1>8. Replied(call[t]) /\ AsDue /\ Filled(call[t]) BY <1>2, <1>6, TakenAnswers
<1>9. /\ g \in Seq(Int) /\ due.res = Len(g) /\ n = Len(g)
      /\ reply.data = SubSeq(g, done + 1, n)
  BY <1>1, <1>7, <1>8 DEF Replied
<1>10. got = SubSeq(g, 1, done) /\ done <= Len(g) BY <1>1, <1>8 DEF Filled
<1>11. got' = g /\ SubSeq(g, 1, Len(g)) = g
  <2> DEFINE d == done
  <2>1. got' = SubSeq(g, 1, d) \o SubSeq(g, d + 1, n) BY <1>7, <1>9, <1>10
  <2>2. d \in Nat /\ d <= n BY <1>3, <1>9, <1>10
  <2> HIDE DEF g, d, n
  <2>3. d \in 0 .. Len(g) /\ n \in d .. Len(g) /\ 1 \in 1 .. Len(g) + 1 /\ d \in 1 - 1 .. Len(g)
    BY <1>6, <1>9, <2>2
  <2>4. SubSeq(g, 1, d) \o SubSeq(g, d + 1, n) = SubSeq(g, 1, n)
    BY <1>9, <2>3, ConcatAdjacentSubSeq
  <2>5. SubSeq(g, 1, Len(g)) = g BY <1>9, SubSeqFull
  <2> QED BY <1>9, <2>1, <2>4, <2>5
<1>12. n = due.res /\ n >= 0 /\ link' # "down" BY <1>2, <1>5, <1>6, <1>9
<1>13. SubSeq(got', 1, Len(due.got)) = due.got BY <1>11
<1> HIDE DEF n, g
<1> QED BY <1>1, <1>7, <1>8, <1>12, <1>13, SuccessIsDue

\* What a block read returns.
LEMMA SectorsAreDue ==
    ASSUME IInv, AnswerInv, NEW t \in Threads, TakeSectors(t), at'[t] = "idle"
    PROVE  ReturnIsDue
<1> DEFINE c == call[t]
           n == Smaller(c.count - done, MaxSectorRead)
           failed == IF c.op = "fhi_read" THEN 0 ELSE EIO
           q == got \o Whole(n * SectorUnits)
           r == c.count
<1>1. Took(t) /\ c.op \in Reads /\ c.op # "udpfs_read" /\ c # BdInit
      /\ c.op \in FhiCalls \cup BdCalls /\ (c.op \in FhiCalls <=> c.op = "fhi_read")
  BY DEF TakeSectors, Reads, BdInit, FhiCalls, BdCalls
<1>2. at[t] = "wait" /\ reply # NoReply /\ link' = link BY <1>1 DEF Took
<1>3. /\ Busy(t) /\ at \in [Threads -> {"idle", "lock", "send", "wait"}]
      /\ reply.result < 0 => due.res < 0 \/ TableFull \/ left.pc
  BY <1>1, <1>2, TakenAnswers DEF IInv, ClientTypes
<1>4. c.count \in Nat \ {0} BY <1>1, <1>3, CallOf, CallFields
<1>5. ~NextMessage(t) BY <1>3 DEF NextMessage
<1>6. \/ reply.result < 0 /\ Returns(t, failed)
      \/ ~(reply.result < 0) /\ got' = q /\ done + n = r /\ Returns(t, r)
  <2> HIDE DEF failed, n
  <2> QED BY <1>5 DEF TakeSectors, failed, n
<1>7. CASE reply.result < 0 /\ Returns(t, failed)
  <2>1. ~(failed > 0) /\ (c.op \notin FhiCalls => failed < 0 /\ ~(failed >= 0))
    BY <1>1 DEF EIO
  <2> HIDE DEF failed
  <2> QED BY <1>3, <1>7, <2>1, FailureIsDue
<1>8. CASE ~(reply.result < 0) /\ got' = q /\ done + n = r /\ Returns(t, r)
  <2>1. n = Smaller(call[t].count - done, MaxSectorRead) /\ q = got \o Whole(n * SectorUnits)
    OBVIOUS
  <2> HIDE DEF n, q
  <2> DEFINE g == due.got
  <2>2. /\ n \in Nat /\ q \in Seq(Int) /\ Len(q) = (done + n) * SectorUnits
        /\ g \in Seq(Int) /\ due.res = r /\ AsDue /\ Len(g) <= r * SectorUnits
        /\ \A i \in 1 .. Len(q) : i <= Len(g) => q[i] = g[i]
    BY <1>1, <1>8, <2>1, SectorsSoFar
  <2>3. Len(g) <= Len(q) BY <1>8, <2>2
  <2> HIDE DEF g
  <2>4. SubSeq(q, 1, Len(g)) = g
    <3> DEFINE l == Len(g)
               s == SubSeq(q, 1, l)
    <3>1. l \in Nat /\ l <= Len(q) /\ Len(q) \in Nat
      BY <2>2, <2>3, LenProperties
    <3>2. s \in Seq(Int) /\ Len(s) = l /\ \A i \in 1 .. l : s[i] = q[i]
      BY <2>2, <3>1
    <3>3. \A i \in 1 .. Len(s) : s[i] = g[i] BY <2>2, <3>1, <3>2
    <3>4. Len(s) = Len(g) BY <3>2
    <3> HIDE DEF s
    <3>5. s = g BY <2>2, <3>2, <3>3, <3>4, SeqEqual
    <3> QED BY <3>5 DEF s
  <2>5. SubSeq(got', 1, Len(due.got)) = due.got BY <1>8, <2>4 DEF g
  <2>6. r > 0 /\ r >= 0 /\ r = due.res BY <1>4, <2>2
  <2>7. ~(call[t].op = "udpfs_read" /\ link' = "down") BY <1>1
  <2> HIDE DEF r
  <2> QED BY <1>8, <2>2, <2>5, <2>6, <2>7, SuccessIsDue
<1> QED BY <1>6, <1>7, <1>8

\* What a write returns.
LEMMA WrittenIsDue ==
    ASSUME IInv, AnswerInv, NEW t \in Threads, TakeWritten(t)
    PROVE  ReturnIsDue
<1> DEFINE c == call[t]
           r == CASE c.op = "udpfs_write" -> reply.result
                  [] c.op = "fhi_write" -> IF reply.result < 0 THEN 0 ELSE c.count
                  [] c.op = "udpfs_bd_write" -> IF reply.result < 0 THEN EIO ELSE c.count
<1>1. /\ Took(t) /\ c.op \in Writes /\ Returns(t, r) /\ got' = got
      /\ c.op \notin Reads \cup {"udpfs_read"} /\ c # BdInit
      /\ c.op \in {"udpfs_write", "fhi_write", "udpfs_bd_write"}
      /\ (c.op \in FhiCalls <=> c.op = "fhi_write")
  BY DEF TakeWritten, Writes, Reads, BdInit, FhiCalls
<1>2. at[t] = "wait" /\ reply # NoReply /\ link' = link BY <1>1 DEF Took
<1>3. /\ Busy(t) /\ reply.result \in Int /\ Filled(c)
      /\ reply.result < 0 => due.res < 0 \/ TableFull \/ left.pc
      /\ ~(reply.result < 0) => Replied(c) /\ AsDue
  BY <1>1, <1>2, TakenAnswers
<1>4. c.op # "udpfs_write" => c.count \in Nat \ {0}
  <2>1. c.op # "udpfs_write" => c.op \in FhiCalls \cup BdCalls
    BY <1>1 DEF FhiCalls, BdCalls
  <2> QED BY <2>1, <1>3, CallOf, CallFields
<1>5. CASE reply.result < 0
  <2>1. ~(r > 0) /\ (c.op # "fhi_write" => r < 0 /\ ~(r >= 0))
    BY <1>1, <1>3, <1>5 DEF EIO
  <2> HIDE DEF r
  <2> QED BY <1>1, <1>3, <1>5, <2>1, FailureIsDue
<1>6. CASE ~(reply.result < 0)
  <2>1. /\ due.got = NoBuffer /\ AsDue
        /\ due.res = IF c.op = "udpfs_write" THEN reply.result ELSE c.count
    BY <1>1, <1>3, <1>6 DEF Replied
  <2>2. r = due.res /\ r >= 0 /\ (c.op = "fhi_write" => r > 0)
    BY <1>1, <1>3, <1>4, <1>6, <2>1
  <2>3. got' = NoBuffer BY <1>1, <1>3 DEF Filled
  <2>4. SubSeq(got', 1, Len(due.got)) = due.got BY <2>1, <2>3, NothingIsDue
  <2> HIDE DEF r
  <2> QED BY <1>1, <2>1, <2>2, <2>4, SuccessIsDue
<1> QED BY <1>5, <1>6

\* What the driver of the block device is told.
LEMMA CapacityIsDue ==
    ASSUME IInv, AnswerInv, NEW t \in Threads, TakeCapacity(t)
    PROVE  ReturnIsDue
<1> DEFINE c == call[t]
<1>1. /\ at[t] = "wait" /\ reply # NoReply /\ c.op = "udpfs_bd_init" /\ got' = NoBuffer
      /\ c.op \notin FhiCalls /\ c.op # "udpfs_read"
  BY DEF TakeCapacity, FhiCalls
<1>2. /\ Busy(t) /\ reply.result \in Int /\ Answers(t)
      /\ ~(reply.result < 0) => Replied(c) /\ AsDue
  BY <1>1, TakenAnswers
<1>3. c = BdInit
  <2>1. c.op \notin udpfs_device_ops \cup FhiCalls \cup BdCalls
    BY <1>1 DEF udpfs_device_ops, Opens, Closes, OnNames, OnFiles, FhiCalls, BdCalls
  <2> QED BY <2>1, <1>2, CallOf, CallFields
<1>4. CASE reply.result < 0
  <2> DEFINE r == -1
  <2>1. Returns(t, r) /\ link' = "down" /\ r < 0 /\ ~(r > 0) /\ ~(r >= 0)
    BY <1>4 DEF TakeCapacity
  <2> HIDE DEF r
  <2> QED BY <2>1, FailureIsDue
<1>5. CASE ~(reply.result < 0)
  <2> DEFINE r == reply.data[2] \div SectorUnits
  <2>1. Returns(t, r) BY <1>5 DEF TakeCapacity
  <2>2. r = due.res /\ AsDue /\ due.got = NoBuffer /\ due.res = DeviceSectors
    BY <1>2, <1>3, <1>5 DEF Replied, Answers
  <2>3. SubSeq(got', 1, Len(due.got)) = due.got BY <1>1, <2>2, NothingIsDue
  <2>4. r \in Nat
    <3>1. reply.data[2] \in Nat
      BY <1>1, <1>2, <1>3, <1>5 DEF IInv, BdReply, Busy
    <3>2. SectorUnits \in Nat \ {0} BY FilesAssumption
    <3>3. ASSUME NEW a \in Nat, NEW k \in Nat \ {0} PROVE a \div k \in Nat
      BY SMTT(30)
    <3> QED BY <3>1, <3>2, <3>3
  <2>5. r >= 0 BY <2>4
  <2> HIDE DEF r
  <2> QED BY <1>1, <2>1, <2>2, <2>3, <2>5, SuccessIsDue
<1> QED BY <1>4, <1>5

\* A call that the connection breaks under.
LEMMA BrokenIsDue ==
    ASSUME IInv, AnswerInv, NEW t \in Threads, NoAnswer(t) \/ Lost(t), Busy(t)
    PROVE  ReturnIsDue
<1> DEFINE c == call[t]
           r == Failure(t)
<1>1. Fails(t) BY DEF NoAnswer, Lost
<1>2. link' = "down" /\ got' = got /\ Returns(t, r) BY <1>1 DEF Fails
<1>3. Answers(t) BY DEF AnswerInv
<1>4. CASE c.op \in Closes
  <2>1. /\ r = 0 /\ c.op \notin FhiCalls /\ c.op # "udpfs_read" /\ c.op \notin Reads
        /\ c.op \notin Changes
    BY <1>4 DEF Failure, Closes, FhiCalls, Reads, Changes, Writes
  <2>2. AsDue /\ due.res = 0 /\ due.got = NoBuffer /\ Filled(c)
    BY <1>3, <1>4, <2>1 DEF Answers
  <2>3. got' = NoBuffer BY <1>2, <2>1, <2>2 DEF Filled
  <2>4. SubSeq(got', 1, Len(due.got)) = due.got BY <2>2, <2>3, NothingIsDue
  <2>5. r = due.res /\ r >= 0 BY <2>1, <2>2
  <2> HIDE DEF r
  <2> QED BY <1>2, <2>1, <2>2, <2>4, <2>5, SuccessIsDue
<1>5. CASE c.op \in FhiCalls
  <2>1. ~(r > 0) BY <1>5 DEF Failure, FhiCalls
  <2> HIDE DEF r
  <2> QED BY <1>2, <1>5, <2>1, FailureIsDue
<1>6. CASE c.op = "udpfs_read" /\ done > 0
  <2>1. r = done /\ c.op \notin Changes
    BY <1>6 DEF Failure, Closes, FhiCalls, Changes, Writes
  <2>2. AsDue /\ got = SubSeq(due.got, 1, done)
    BY <1>3, <1>6, <2>1 DEF Answers, Filled
  <2>3. ret'.op = "udpfs_read" /\ ret'.res = done /\ ret'.got = got
    BY <1>2, <1>6, <2>1 DEF Returns
  <2>4. Worked
    <3>1. done >= 0 BY <1>6 DEF IInv, ClientTypes
    <3> QED BY <1>6, <2>3, <3>1 DEF Worked, FhiCalls
  <2> QED BY <1>2, <2>2, <2>3, <2>4 DEF ReturnIsDue, AsDue
<1>7. CASE c.op \notin Closes \cup FhiCalls /\ ~(c.op = "udpfs_read" /\ done > 0)
  <2>1. r = EIO BY <1>7 DEF Failure
  <2>2. r < 0 /\ ~(r > 0) /\ ~(r >= 0) BY <2>1 DEF EIO
  <2> HIDE DEF r
  <2> QED BY <1>2, <2>2, FailureIsDue
<1> QED BY <1>4, <1>5, <1>6, <1>7

\* No other step lets a call return that has sent something.
LEMMA OnlyReturns ==
    ASSUME IInv, AnswerInv, Next, NEW t \in Threads, Returned(t)
    PROVE  \/ NoAnswer(t) \/ Lost(t) \/ TakeOpen(t) \/ TakeClose(t) \/ TakeValue(t)
           \/ TakeRead(t) \/ TakeSectors(t) \/ TakeWritten(t) \/ TakeCapacity(t)
<1>1. at[t] \in {"send", "wait"} /\ at'[t] = "idle" /\ left'.plan = left.plan
  BY DEF Returned
<1>2. at \in [Threads -> {"idle", "lock", "send", "wait"}]
  BY DEF IInv, ClientTypes
<1>3. ASSUME NEW u \in Threads, NEW res, Returns(u, res) PROVE u = t
  BY <1>1, <1>2, <1>3 DEF Returns
<1>4. ASSUME NEW u \in Threads, NEW c, Starts(u, c) PROVE FALSE
  BY <1>1, <1>2, <1>4 DEF Starts
<1>5. ASSUME NEW u \in Threads, Sent(u) PROVE FALSE
  BY <1>1, <1>2, <1>5 DEF Sent
<1>6. ASSUME NEW u \in Threads, NextMessage(u) PROVE FALSE
  BY <1>1, <1>2, <1>6 DEF NextMessage
<1>7. ASSUME NEW c, NEW res, ReturnsAtOnce(c, res) PROVE FALSE
  BY <1>1, <1>7 DEF ReturnsAtOnce
<1>8. ASSUME NEW c \in Inputs, CallFile(c) PROVE FALSE
  <2>1. 1 \in Threads BY DEF Threads
  <2> QED BY <1>8, <2>1, <1>4, <1>7 DEF CallFile
<1>9. ASSUME NEW c \in Inputs, CallBd(c) PROVE FALSE
  <2>1. 1 \in Threads BY DEF Threads
  <2> QED BY <1>9, <2>1, <1>4, <1>7 DEF CallBd
<1>10. ASSUME NEW u \in Threads, NEW c \in Inputs, CallFhi(u, c) PROVE FALSE
  BY <1>1, <1>2, <1>7, <1>10 DEF CallFhi
<1>11. ASSUME NEW u \in Threads, FhiLock(u) PROVE FALSE
  <2>1. at[u] = "lock" /\ u # t BY <1>1, <1>11 DEF FhiLock
  <2> DEFINE r == 0
  <2>2. Returns(u, r) \/ Starts(u, call[u]) BY <1>11 DEF FhiLock
  <2> HIDE DEF r
  <2> QED BY <2>1, <2>2, <1>3, <1>4
<1>12. ASSUME NEW u \in Threads, Exchange(u) \/ Dropped(u) PROVE FALSE
  BY <1>5, <1>12 DEF Exchange, Dropped
<1>13. ASSUME NEW u \in Threads, NoAnswer(u) \/ Lost(u) PROVE u = t
  <2> DEFINE r == Failure(u)
  <2>1. Returns(u, r) BY <1>13 DEF NoAnswer, Lost, Fails
  <2> HIDE DEF r
  <2> QED BY <2>1, <1>3
<1>14. ASSUME NEW u \in Threads,
              \/ TakeOpen(u) \/ TakeClose(u) \/ TakeValue(u) \/ TakeRead(u)
              \/ TakeSectors(u) \/ TakeWritten(u) \/ TakeCapacity(u)
       PROVE  u = t
  <2>1. \/ \E res : Returns(u, res)
        \/ NextMessage(u)
    BY <1>14, Zenon DEF TakeOpen, TakeClose, TakeValue, TakeRead, TakeSectors, TakeWritten,
                        TakeCapacity
  <2> QED BY <2>1, <1>3, <1>6
<1>15. ASSUME Boot PROVE FALSE
  <2>1. left.plan \in Seq(Stages) /\ left.plan # <<>> /\ left'.plan = Tail(left.plan)
    BY <1>15 DEF AnswerInv, Boot
  <2>2. Len(Tail(left.plan)) = Len(left.plan) - 1 /\ Len(left.plan) \in Nat
    BY <2>1
  <2>3. Tail(left.plan) # left.plan
    <3> DEFINE p == left.plan
               q == Tail(p)
    <3>1. Len(q) = Len(p) - 1 /\ Len(p) \in Nat BY <2>2
    <3> HIDE DEF p, q
    <3>2. q # p BY <3>1
    <3> QED BY <3>2 DEF p, q
  <2> QED BY <1>1, <2>1, <2>3
<1>16. ASSUME PcRestarts PROVE FALSE
  BY <1>1, <1>16 DEF PcRestarts
<1> QED BY <1>8, <1>9, <1>10, <1>11, <1>12, <1>13, <1>14, <1>15, <1>16 DEF Next

\* Every step.
LEMMA StepKeepsAnswers ==
    ASSUME IInv, IInv', AnswerInv, Next
    PROVE  AnswerInv'
<1>1. ASSUME NEW c \in Inputs, CallFile(c) \/ CallBd(c) PROVE AnswerInv'
  BY <1>1, CallFileAnswers, CallBdAnswers
<1>2. ASSUME NEW t \in Threads, NEW c \in Inputs, CallFhi(t, c) PROVE AnswerInv'
  BY <1>2, CallFhiAnswers
<1>3. ASSUME NEW t \in Threads, FhiLock(t) PROVE AnswerInv'
  BY <1>3, FhiLockAnswers
<1>4. ASSUME NEW t \in Threads, Exchange(t) PROVE AnswerInv'
  BY <1>4, ExchangeKeepsAnswers
<1>5. ASSUME NEW t \in Threads, Dropped(t) PROVE AnswerInv'
  BY <1>5, DroppedAnswers
<1>6. ASSUME NEW t \in Threads, NoAnswer(t) \/ Lost(t) PROVE AnswerInv'
  BY <1>6, FailAnswers
<1>7. ASSUME NEW t \in Threads, at[t] = "wait", reply # NoReply, left' = left,
             \E res : Returns(t, res)
      PROVE  AnswerInv'
  BY <1>7, TookAnswers
<1>8. ASSUME NEW t \in Threads, TakeOpen(t) \/ TakeClose(t) \/ TakeValue(t) \/ TakeWritten(t)
      PROVE  AnswerInv'
  <2>1. Took(t) /\ \E res : Returns(t, res)
    BY <1>8, Zenon DEF TakeOpen, TakeClose, TakeValue, TakeWritten
  <2> QED BY <2>1, <1>7 DEF Took
<1>9. ASSUME NEW t \in Threads, TakeCapacity(t) PROVE AnswerInv'
  <2>1. at[t] = "wait" /\ reply # NoReply /\ left' = left /\ \E res : Returns(t, res)
    BY <1>9, Zenon DEF TakeCapacity
  <2> QED BY <2>1, <1>7
<1>10. ASSUME NEW t \in Threads, TakeRead(t) PROVE AnswerInv'
  <2>1. Took(t) /\ call[t].op = "udpfs_read" /\ at[t] = "wait" /\ reply # NoReply /\ left' = left
    BY <1>10 DEF TakeRead, Took
  <2>2. left.as = "ioman" /\ t = 1
    BY <2>1, TookFacts, CallOf DEF udpfs_device_ops, OnFiles
  <2>3. reply.result \in Nat
    <3>1. Answered(call[1]) BY <2>1, <2>2, TookFacts
    <3> QED BY <3>1, <2>1, <2>2 DEF Answered
  <2>4. \/ \E res : Returns(t, res)
        \/ /\ ~ReadEnds(call[t]) /\ NextMessage(t)
           /\ got' = got \o reply.data /\ done' = done + reply.result
    <3>1. ~(reply.result < 0) BY <2>3
    <3> QED BY <1>10, <3>1, Zenon DEF TakeRead
  <2> QED BY <2>1, <2>3, <2>4, <1>7, ReadGoesOn
<1>11. ASSUME NEW t \in Threads, TakeSectors(t) PROVE AnswerInv'
  <2>1. Took(t) /\ call[t].op \in Reads /\ at[t] = "wait" /\ reply # NoReply /\ left' = left
    BY <1>11 DEF TakeSectors, Took
  <2>2. \/ \E res : Returns(t, res)
        \/ \E n \in {Smaller(call[t].count - done, MaxSectorRead)} :
             /\ ~(reply.result < 0) /\ NextMessage(t)
             /\ got' = got \o Whole(n * SectorUnits) /\ done' = done + n
    BY <1>11, Zenon DEF TakeSectors
  <2> QED BY <2>1, <2>2, <1>7, SectorsGoOn
<1> QED BY <1>1, <1>2, <1>3, <1>4, <1>5, <1>6, <1>8, <1>9, <1>10, <1>11, BootAnswers, PcAnswers
        DEF Next

\* CallsDoAsOnLocalFiles: a call of the menu, the loader or the game that
\* reports success did on the PC what it would have done on local files, and
\* one that fails over a connection that is up would have failed there too.
THEOREM CallsDoTheirs == Spec => CallsDoAsOnLocalFiles
<1>1. Init => AnswerInv
  <2> SUFFICES ASSUME Init PROVE AnswerInv
    OBVIOUS
  <2>1. \A t \in Threads : at[t] = "idle" BY DEF Init, ClientInit
  <2>2. left.plan \in Seq(Stages) BY InputsAssumption DEF Init, ClientInit
  <2> QED BY <2>1, <2>2 DEF AnswerInv, Busy
<1>2. IInv /\ IInv' /\ AnswerInv /\ [Next]_vars => AnswerInv'
  <2> SUFFICES ASSUME IInv, IInv', AnswerInv, [Next]_vars PROVE AnswerInv'
    OBVIOUS
  <2>1. CASE Next
    BY <2>1, StepKeepsAnswers
  <2>2. CASE UNCHANGED vars
    <3>1. UNCHANGED <<tree, data, handles, done, got, reply, due, left, at, call>>
      BY <2>2 DEF vars, serverVars, clientVars
    <3> QED BY <3>1, SameAnswers
  <2> QED BY <2>1, <2>2
<1>3. IInv /\ AnswerInv /\ [Next]_vars =>
        [\A t \in Threads : Returned(t) =>
           /\ Worked =>
                /\ <<tree, data>> = <<due.tree, due.data>>
                /\ IF ret'.op = "udpfs_read" /\ link' = "down"
                   THEN ret'.got = SubSeq(due.got, 1, ret'.res)
                   ELSE ret'.res = due.res /\ SubSeq(ret'.got, 1, Len(due.got)) = due.got
           /\ ~Worked /\ link' # "down" => due.res < 0 \/ TableFull \/ left.pc]_vars
  <2> SUFFICES ASSUME IInv, AnswerInv, Next, NEW t \in Threads, Returned(t)
               PROVE  ReturnIsDue
    BY DEF ReturnIsDue
  <2>1. Busy(t) /\ at'[t] = "idle" BY DEF Returned, Busy
  <2>2. \/ NoAnswer(t) \/ Lost(t) \/ TakeOpen(t) \/ TakeClose(t) \/ TakeValue(t)
        \/ TakeRead(t) \/ TakeSectors(t) \/ TakeWritten(t) \/ TakeCapacity(t)
    BY OnlyReturns
  <2> QED BY <2>1, <2>2, BrokenIsDue, OpenIsDue, CloseIsDue, ValueIsDue, ReadIsDue,
             SectorsAreDue, WrittenIsDue, CapacityIsDue
<1> QED BY <1>1, <1>2, <1>3, ServerAndConsole, PTL DEF Spec, CallsDoAsOnLocalFiles
====

---- MODULE MCCdvdServer ----
(* A small disc of two layers, and what a game does with it. *)
EXTENDS CdvdServer

Name(n) == [name |-> n, version |-> FALSE]
File(n) == [name |-> n, version |-> TRUE]
MCVolumes == 1 :> [lsn |-> 2, size |-> 12] @@ 9 :> [lsn |-> 2, size |-> 6]
Dirent(name, dir, lsn, size) ==
    [name |-> name, dir |-> dir, lsn |-> lsn, size |-> size,
     short |-> name.name \in {".", ".."}]
Dots(lsn) == <<Dirent(Name("."), TRUE, lsn, 6), Dirent(Name(".."), TRUE, 2, 12)>>
MCToc ==
    2 :> Dots(2) \o <<Dirent(File("SYSTEM.CNF"), FALSE, 5, 8)>> @@
    3 :> <<Dirent(Name("DATA"), TRUE, 4, 6)>> @@
    4 :> Dots(4) \o <<Dirent(File("FILM"), FALSE, 7, 3)>> @@
    10 :> Dots(2) \o <<Dirent(File("FILM"), FALSE, 3, 6)>>

Cnf == <<File("SYSTEM.CNF")>>
Film == <<Name("DATA"), File("FILM")>>
Bare == <<Name("SYSTEM.CNF")>>
Gone == <<Name("DATA"), File("SYSTEM.CNF")>>

\* Calls of the EE
Read(lsn, n, buf) == [NCommand EXCEPT !.op = "CD_NCMD_READ", !.lsn = lsn,
                                     !.sectors = n, !.buf = buf]
ToEe(lsn, n, buf) == [lsn |-> lsn, sectors |-> n, buf |-> buf, iop |-> FALSE]
ToIop(lsn, n) == [lsn |-> lsn, sectors |-> n, buf |-> 0, iop |-> TRUE]
Chain(c) == [NCommand EXCEPT !.op = "CD_NCMD_READCHAIN", !.chain = c]
Command(op) == [NCommand EXCEPT !.op = op, !.lsn = 5, !.sectors = 2]
Search(layer, path) == [NCommand EXCEPT !.op = "SEARCHFILE", !.layer = layer,
                                       !.path = path]

\* Calls of the IOP
On(fd, op, n) == [NoCall EXCEPT !.op = op, !.fd = fd, !.n = n]
By(op, layer, path) == [NoCall EXCEPT !.op = op, !.path = path, !.layer = layer]

H == [ncalls |-> {}, n |-> 0, iocalls |-> {}, io |-> 0, scalls |-> {}, s |-> 0,
      user |-> 0, button |-> 0, reset |-> 0, poweroff |-> FALSE,
      sound |-> MaxFaults, searched |-> TRUE]

Reads == {Read(lsn, n, buf) : lsn \in {2, 9}, n \in 0 .. 3, buf \in 0 .. 2}
FileCalls ==
    {By("open", 0, Bare), By("open", 1, <<Name("FILM")>>), By("open", 0, Gone),
     By("getstat", 0, Film), By("dopen", 0, <<Name("DATA")>>), By("open", 2, Cnf),
     On(1, "read", 1), On(1, "read", 5), On(1, "read", 20), On(1, "dread", 0),
     On(1, "SEEK_CUR", 2), On(1, "SEEK_SET", -1), On(1, "SEEK_END", 3), On(1, "close", 0)}
Few == {By("open", 0, Bare), On(1, "read", 5), On(1, "read", 9)}
Drives == {On(0, op, 0) : op \in Breaks \union Commands \union {"CDIOC_DISKRDY"}}
NCommands == {Command(op) : op \in Events \union {"CD_NCMD_DISKREADY", "CD_NCMD_READIOPMEM"}}
Apart == {c \in NCommands : c.op # "CD_NCMD_STANDBY"}
Chains == {Chain(<<ToEe(5, 1, 0), ToIop(4, 2), ToEe(2, 3, 6)>>)}

\* The EE reads; files are read from a cold start, and beside reads of the EE;
\* both search; commands; breaks; the ways out.
MCHistories ==
    {[H EXCEPT !.ncalls = Reads \union Chains, !.n = 1, !.user = 1, !.sound = @ - 1],
     [H EXCEPT !.iocalls = FileCalls, !.io = 4, !.searched = FALSE],
     [H EXCEPT !.iocalls = FileCalls, !.io = 2, !.searched = FALSE, !.sound = @ - 1,
               !.user = 1],
     [H EXCEPT !.iocalls = Few, !.io = 2, !.user = 1, !.sound = @ - 1,
               !.ncalls = {Read(5, 2, 1), Read(2, 4, 0), Search(1, <<File("FILM")>>),
                           Search(0, Film)}, !.n = 2],
     [H EXCEPT !.iocalls = Drives, !.io = 1, !.ncalls = Apart,
               !.n = 2, !.user = 1],
     [H EXCEPT !.ncalls = {Read(5, 3, 1), Command("CD_NCMD_STANDBY")}, !.n = 1,
               !.scalls = {"CD_SCMD_BREAK", "CD_SCMD_READCLOCK", "DISKREADY0",
                           "DISKREADY1"}, !.s = 2],
     [H EXCEPT !.ncalls = {Read(5, 3, 0)}, !.n = 1, !.iocalls = Few, !.io = 1,
               !.user = 1, !.button = 1],
     [H EXCEPT !.ncalls = {Read(5, 3, 1)}, !.n = 1, !.user = 1, !.reset = 1,
               !.poweroff = TRUE, !.scalls = {"CD_SCMD_BREAK"}, !.s = 1]}
====

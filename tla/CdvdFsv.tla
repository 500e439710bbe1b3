---- MODULE CdvdFsv ----
(***************************************************************************)
(* cdvdfsv: the remote calls of the game's EE, served by threads of their  *)
(* own over the drive and the files of cdvdman.  N commands and searches   *)
(* come to one thread, S commands to a second; the thread of the power     *)
(* button and the one of the in-game reset end what the drive does, and    *)
(* may shut DEV9 down.                                                     *)
(*                                                                         *)
(* These threads run until they block: they have one priority, and the     *)
(* thread of the game that uses files is not above it.                     *)
(***************************************************************************)
EXTENDS CdvdFiles

CONSTANTS
    LineUnits,  \* units of data in a cache line of the EE
    EeUnits     \* units of the EE's memory that are looked at

ASSUME FsvAssumption ==
    LineUnits \in Nat \ {0} /\ SectorUnits % LineUnits = 0

VARIABLES
    fsv,    \* the thread of N commands and searches
    ee,     \* the memory of the EE: the lsn and unit it holds, or -1
    readee, \* what is sent besides: buf1 and buf2 of cdvdfsv_readee_t
    scmd,   \* the thread of S commands
    sd,     \* the threads that shut the services down
    power,  \* the console: "on", or "off" after DEV9 was shut down
    cut     \* a command was broken off (observed)

eeVars == <<ee, readee>>
fsvVars == <<fsv, eeVars, cut>>
rpcVars == <<scmd, sd, power>>

Ee == 0 .. EeUnits - 1
Blank == [a \in Ee |-> -1]
Shutters == {"button", "rpc"}
NCommand == [op |-> "none", lsn |-> 0, sectors |-> 0, buf |-> 0, chain |-> <<>>,
             layer |-> 0, path |-> <<>>]
FsvIdle == [pc |-> "idle", call |-> NCommand, lsn |-> 0, left |-> 0, n |-> 0,
            to |-> 0, at |-> 1, res |-> 0]

FsvInit ==
    /\ fsv = FsvIdle /\ ee = Blank
    /\ readee = [buf1 |-> <<>>, buf2 |-> <<>>] /\ cut = FALSE
    /\ scmd = "idle"
    /\ sd = [t \in Shutters |-> "wait"] /\ power = "on"

\* cdvdman_cb_event: the caller waits for the flag.
CbEvent ==
    /\ reason' = "Other" /\ cbAlarm' = TRUE
    /\ drv' = [drv EXCEPT !.ef = @ \ {"CB_DONE"}]
NoEvent == UNCHANGED <<reason, cbAlarm, drv>>

-----------------------------------------------------------------------------
(* N commands and searches (rpc2)                                          *)

Fsv(pc) == fsv' = [fsv EXCEPT !.pc = pc]
FsvResult(res) == fsv' = [fsv EXCEPT !.pc = "reply", !.res = res]
FsvIs(pc, ops) == fsv.pc = pc /\ fsv.call.op \in ops
Events == {"CD_NCMD_GETTOC", "CD_NCMD_SEEK", "CD_NCMD_STANDBY",
           "CD_NCMD_STOP", "CD_NCMD_PAUSE"}

\* A call arrives.  A search takes no part in cdrom_sema.
FsvCall ==
    /\ fsv.pc = "idle" /\ left.n > 0
    /\ \E c \in left.ncalls :
         IF c.op = "SEARCHFILE"
           THEN /\ fsv' = [FsvIdle EXCEPT !.pc = "search", !.call = c]
                /\ Searching("fsv", c.layer, c.path)
           ELSE fsv' = [FsvIdle EXCEPT !.pc = "sema", !.call = c] /\ UNCHANGED search
    /\ left' = [left EXCEPT !.n = @ - 1] /\ cut' = FALSE
    /\ NoEvent /\ UNCHANGED <<err, sema, volumes, eeVars>>

FsvFound ==
    /\ fsv.pc = "search" /\ search["fsv"].pc = "done"
    /\ FsvResult(search["fsv"].res)
    /\ search' = [search EXCEPT !["fsv"] = NoSearch]
    /\ NoEvent /\ UNCHANGED <<err, sema, volumes, eeVars, cut, left>>

\* cdvd_readee and CD_NCMD_DISKREADY: sceCdDiskReady(0) forgets the error.
FsvRead ==
    /\ FsvIs("sema", {"CD_NCMD_READ", "CD_NCMD_DISKREADY"}) /\ Take("cdrom", "fsv")
    /\ LET c == fsv.call
       IN  IF c.op = "CD_NCMD_READ" /\ c.sectors = 0
             THEN FsvResult(0) /\ UNCHANGED err
             ELSE /\ fsv' = [fsv EXCEPT !.pc = "ready", !.lsn = c.lsn,
                                        !.left = c.sectors]
                  /\ err' = "NO"
    /\ NoEvent /\ UNCHANGED <<volumes, search, eeVars, cut, left>>

\* How far the destination is from the next line, and its end from the last.
B1len == (LineUnits - (fsv.call.buf % LineUnits)) % LineUnits
B2len == (fsv.call.buf + fsv.call.sectors * SectorUnits) % LineUnits
Aligned == B1len = 0 /\ B2len = 0

FsvReady ==
    /\ fsv.pc = "ready" /\ AtRest
    /\ IF fsv.call.op = "CD_NCMD_DISKREADY" THEN FsvResult("SCECdComplete")
       ELSE fsv' = [fsv EXCEPT !.pc = "test", !.to = fsv.call.buf + B1len]
    /\ NoEvent /\ UNCHANGED <<err, sema, volumes, search, eeVars, cut, left>>

\* The sectors of a chunk, and those that are read for it: one more when the
\* destination is not aligned.
Chunk(l) ==
    LET n == Min({l, IF Aligned THEN FsSectors ELSE FsSectors - 1})
    IN  [n |-> n, read |-> IF Aligned THEN n ELSE n + 1]

\* The library of the game moves the ends to where they belong.
LibraryEnds ==
    LET end == fsv.call.buf + fsv.call.sectors * SectorUnits - Len(readee.buf2)
    IN  [a \in Ee |->
           IF a - fsv.call.buf + 1 \in DOMAIN readee.buf1
             THEN readee.buf1[a - fsv.call.buf + 1]
           ELSE IF a - end + 1 \in DOMAIN readee.buf2
             THEN readee.buf2[a - end + 1] ELSE ee[a]]

\* The test of the loop of cdvd_readee, and the next chunk.
FsvReadTest ==
    /\ FsvIs("test", {"CD_NCMD_READ"})
    /\ IF fsv.left = 0 \/ err = "ABRT"
         THEN /\ FsvResult(fsv.call.sectors) /\ ee' = LibraryEnds
              /\ NoEvent
         ELSE /\ ~drv.locked /\ Start(0, fsv.lsn, Chunk(fsv.left).read)
              /\ fsv' = [fsv EXCEPT !.pc = "sync", !.n = Chunk(fsv.left).n]
              /\ UNCHANGED <<ee, reason, cbAlarm>>
    /\ UNCHANGED <<err, sema, volumes, search, readee, cut, left>>

\* The call was refused; the error is not looked at again.
FsvReadRefused ==
    /\ FsvIs("test", {"CD_NCMD_READ"})
    /\ fsv.left > 0 /\ err # "ABRT" /\ drv.locked
    /\ Fsv("retry")
    /\ NoEvent /\ UNCHANGED <<err, sema, volumes, search, eeVars, cut, left>>

FsvReadRetry ==
    /\ FsvIs("retry", {"CD_NCMD_READ"})
    /\ Start(0, fsv.lsn, Chunk(fsv.left).read)
    /\ fsv' = [fsv EXCEPT !.pc = "sync", !.n = Chunk(fsv.left).n]
    /\ UNCHANGED <<reason, cbAlarm, err, sema, volumes, search, eeVars, cut, left>>

\* The buffer, which starts b2len units late so that the lines fall together.
Rbuf(u) == IF u \div SectorUnits < FsSectors THEN Unit(0, u) ELSE -1
Sent(from, to, size) ==
    [a \in Ee |-> IF a \in to .. to + size - 1 THEN Rbuf(from + a - to) ELSE ee[a]]

\* A mutant: the last chunk is as long as the others.
LastWhole(l, n) == n * SectorUnits
\* The last chunk of an unaligned read ends a line early.
SentUnits(l, n) ==
    IF ~Aligned /\ l = n /\ B1len > 0 THEN n * SectorUnits - LineUnits
    ELSE n * SectorUnits

\* A chunk has arrived and is sent on.
FsvReadChunk ==
    /\ FsvIs("sync", {"CD_NCMD_READ"}) /\ AtRest
    /\ LET size == fsv.n * SectorUnits
           first == fsv.left = fsv.call.sectors
           last == fsv.left = fsv.n
       IN  /\ ee' = Sent(B1len, fsv.to, SentUnits(fsv.left, fsv.n))
           /\ readee' =
                [buf1 |-> IF first /\ ~Aligned
                            THEN [i \in 1 .. B1len |-> Rbuf(i - 1)] ELSE readee.buf1,
                 buf2 |-> IF last /\ ~Aligned
                            THEN [i \in 1 .. B2len |-> Rbuf(size - B2len + i - 1)]
                            ELSE readee.buf2]
           /\ fsv' = [fsv EXCEPT !.pc = "test", !.left = @ - fsv.n,
                                 !.lsn = @ + fsv.n, !.to = @ + size]
    /\ NoEvent /\ UNCHANGED <<err, sema, volumes, search, cut, left>>

\* cdvd_readchain: entry after entry, to the IOP or, in chunks, to the EE.
Entry == fsv.call.chain[fsv.at]
EntrySectors(i) == IF i <= Len(fsv.call.chain) THEN fsv.call.chain[i].sectors ELSE 0

FsvChain ==
    /\ FsvIs("sema", {"CD_NCMD_READCHAIN"}) /\ Take("cdrom", "fsv")
    /\ fsv' = [fsv EXCEPT !.pc = "entry", !.at = 1, !.left = EntrySectors(1)]
    /\ NoEvent /\ UNCHANGED <<err, volumes, search, eeVars, cut, left>>

FsvChainRead ==
    /\ fsv.pc = "entry"
    /\ IF fsv.at > Len(fsv.call.chain) THEN FsvResult(1) /\ UNCHANGED drv
       ELSE LET n == IF Entry.iop THEN fsv.left ELSE Min({fsv.left, FsSectors})
                lsn == Entry.lsn + Entry.sectors - fsv.left
            IN  /\ fsv' = [fsv EXCEPT !.pc = "chain", !.n = n]
                /\ IF Entry.iop
                     THEN /\ AtRest
                          /\ drv' = Submit(drv, [GameRead EXCEPT !.lsn = lsn, !.n = n])
                     ELSE Start(0, lsn, n)
    /\ UNCHANGED <<reason, cbAlarm, err, sema, volumes, search, eeVars, cut, left>>

FsvChainEntry ==
    /\ fsv.pc = "chain" /\ AtRest
    /\ LET done == (Entry.sectors - fsv.left) * SectorUnits
           next == fsv.left = fsv.n
       IN  /\ ee' = IF Entry.iop THEN ee
                    ELSE Sent(0, Entry.buf + done, fsv.n * SectorUnits)
           /\ fsv' = [fsv EXCEPT !.pc = "entry",
                        !.at = IF next THEN @ + 1 ELSE @,
                        !.left = IF next THEN EntrySectors(fsv.at + 1) ELSE @ - fsv.n]
    /\ NoEvent /\ UNCHANGED <<err, sema, volumes, search, readee, cut, left>>

\* cdvd_readiopm polls, and tells how far the drive is.
FsvReadIop ==
    /\ FsvIs("sema", {"CD_NCMD_READIOPMEM"}) /\ Take("cdrom", "fsv") /\ Fsv("iop")
    /\ NoEvent /\ UNCHANGED <<err, volumes, search, eeVars, cut, left>>
FsvReadIopStart ==
    /\ fsv.pc = "iop" /\ AtRest /\ Fsv("poll")
    /\ drv' = Submit(drv, [GameRead EXCEPT !.lsn = fsv.call.lsn, !.n = fsv.call.sectors])
    /\ UNCHANGED <<reason, cbAlarm, err, sema, volumes, search, eeVars, cut, left>>
FsvReadIopEnd ==
    /\ fsv.pc = "poll" /\ AtRest /\ FsvResult(1)
    /\ NoEvent /\ UNCHANGED <<err, sema, volumes, search, eeVars, cut, left>>

\* The commands that move the drive: all but sceCdStandby look at the lock.
FsvEvent ==
    /\ FsvIs("sema", Events) /\ Take("cdrom", "fsv")
    /\ IF drv.locked /\ fsv.call.op # "CD_NCMD_STANDBY"
         THEN FsvResult(0) /\ NoEvent /\ UNCHANGED err
         ELSE /\ err' = IF fsv.call.op = "CD_NCMD_SEEK" /\ Beyond(fsv.call.lsn)
                          THEN "IPI" ELSE "NO"
              /\ CbEvent /\ Fsv("event")
    /\ UNCHANGED <<volumes, search, eeVars, cut, left>>

\* The semaphore is given back, and the answer sent.
FsvReply ==
    /\ fsv.pc = "reply"
    /\ IF fsv.call.op = "SEARCHFILE" THEN UNCHANGED sema ELSE Give("cdrom")
    /\ fsv' = FsvIdle
    /\ ee' = Blank /\ readee' = [buf1 |-> <<>>, buf2 |-> <<>>] /\ cut' = FALSE
    /\ NoEvent /\ UNCHANGED <<err, volumes, search, left>>

FsvStep ==
    /\ \/ FsvCall \/ FsvFound \/ FsvRead \/ FsvReady \/ FsvReadTest
       \/ FsvReadRefused \/ FsvReadRetry \/ FsvReadChunk
       \/ FsvChain \/ FsvChainRead \/ FsvChainEntry
       \/ FsvReadIop \/ FsvReadIopStart \/ FsvReadIopEnd \/ FsvEvent \/ FsvReply
    /\ UNCHANGED <<rt, cur, slots, faults, fds, io, rpcVars>>

-----------------------------------------------------------------------------
(* S commands (rpc1)                                                       *)

AskS(op) ==
    /\ scmd = "idle" /\ left.s > 0 /\ op \in left.scalls
    /\ left' = [left EXCEPT !.s = @ - 1]

\* sceCdBreak does not end a read: the loops of reads look at the error.
ScmdBreak ==
    /\ AskS("CD_SCMD_BREAK")
    /\ IF drv.locked THEN NoEvent /\ UNCHANGED <<err, scmd, cut>>
       ELSE err' = "ABRT" /\ CbEvent /\ scmd' = "event" /\ cut' = (fsv.pc # "idle")

ScmdReadClock ==
    /\ AskS("CD_SCMD_READCLOCK") /\ err' = "NO"
    /\ NoEvent /\ UNCHANGED <<scmd, cut>>

\* 0x8000059A, which may wait or not.
ScmdDiskReady ==
    /\ \E wait \in BOOLEAN :
         /\ AskS(IF wait THEN "DISKREADY0" ELSE "DISKREADY1")
         /\ IF wait /\ drv.locked THEN scmd' = "ready" ELSE UNCHANGED scmd
    /\ err' = "NO" /\ NoEvent /\ UNCHANGED cut

ScmdReady ==
    /\ scmd = "ready" /\ AtRest /\ scmd' = "idle"
    /\ NoEvent /\ UNCHANGED <<err, cut, left>>

ScmdStep ==
    /\ \/ ScmdBreak \/ ScmdReadClock \/ ScmdDiskReady \/ ScmdReady
    /\ UNCHANGED <<rt, cur, slots, faults, fileVars, fsv, eeVars, sd, power>>

-----------------------------------------------------------------------------
(* shutdown_services, by the threads of priority 1                         *)

Sd(t, pc) == sd' = [sd EXCEPT ![t] = pc]
SdReady == \E t \in Shutters : sd[t] \in {"break", "off"}

\* The interrupt of the button; and the call of the in-game reset.
PowerButton ==
    /\ sd["button"] = "wait" /\ left.button > 0 /\ Sd("button", "break")
    /\ left' = [left EXCEPT !.button = @ - 1]
    /\ NoEvent /\ UNCHANGED <<err, cut, power>>
ShutdownCall ==
    /\ sd["rpc"] = "wait" /\ left.reset > 0 /\ Sd("rpc", "break")
    /\ left' = [left EXCEPT !.reset = @ - 1]
    /\ NoEvent /\ UNCHANGED <<err, cut, power>>

\* sceCdBreak, and the first look of sceCdSync.
SdBreak(t) ==
    /\ sd[t] = "break"
    /\ IF drv.locked THEN Sd(t, "sync") /\ NoEvent /\ UNCHANGED <<err, cut>>
       ELSE err' = "ABRT" /\ CbEvent /\ Sd(t, "event") /\ cut' = (fsv.pc # "idle")
    /\ UNCHANGED <<left, power>>

\* Only a real power-off disables DEV9.
PowersOff(t) == t = "button" \/ left.poweroff
SdOff(t) ==
    /\ sd[t] = "off" /\ Sd(t, "done")
    /\ power' = IF PowersOff(t) THEN "off" ELSE power
    /\ NoEvent /\ UNCHANGED <<err, cut, left>>

\* A mutant: the lock is not looked at again after the wait.
SyncOnce(d) == TRUE
\* The wait of sceCdSync is over when the lock is free after all callbacks.
SyncDone(d) == ~d.locked

\* event_alarm_cb raises the flags: what becomes of a thread that waits.
SdWoken(d) ==
    [t \in Shutters |-> IF sd[t] \notin {"event", "sync"} THEN sd[t]
                        ELSE IF SyncDone(d) THEN "off" ELSE "sync"]

SdStep ==
    /\ power = "on"
    /\ \/ PowerButton \/ ShutdownCall \/ \E t \in Shutters : SdBreak(t) \/ SdOff(t)
    /\ UNCHANGED <<rt, cur, slots, faults, fileVars, fsv, eeVars, scmd>>
====

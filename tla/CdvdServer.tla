---- MODULE CdvdServer ----
(***************************************************************************)
(* A running game, its EE and its IOP: the remote calls of CdvdFsv and the *)
(* file calls of CdvdFiles over the drive, with its read thread and alarm, *)
(* reads that the game's callback starts, failing reads, and the two ways  *)
(* of leaving the game.                                                    *)
(***************************************************************************)
EXTENDS CdvdFsv

CONSTANT Histories  \* what is asked for, of whom, and what may go wrong

vars == <<driveVars, fileVars, fsvVars, rpcVars, left>>

Init ==
    /\ \E h \in Histories :
         /\ left = h
         /\ drv = [locked |-> FALSE, req |-> GameRead, sema |-> 0, ef |-> {"UNLOCKED"}]
         /\ rt = "wait" /\ cur = [req |-> GameRead, done |-> 0]
         /\ reason = "Other" /\ cbAlarm = FALSE
         /\ err = "NO" /\ slots = [s \in Slot |-> -1] /\ faults = h.sound
         /\ FilesInit(h.searched)
    /\ FsvInit

\* event_alarm_cb: the lock, the game's callback, the threads that wait.
EventAlarm ==
    /\ power = "on" /\ cbAlarm /\ cbAlarm' = FALSE
    /\ \E u \in BOOLEAN :
         /\ u => left.user > 0
         /\ left' = [left EXCEPT !.user = IF u THEN @ - 1 ELSE @]
         /\ LET d == IF u THEN Submit(Unlock(drv), GameRead) ELSE Unlock(drv)
            IN  drv' = [d EXCEPT !.ef = @ \cup {"CB_DONE", "STM_DONE"}]
    /\ rt' = IF rt = "end" THEN "wait" ELSE rt
    /\ fsv' = IF fsv.pc = "event" THEN [fsv EXCEPT !.pc = "reply", !.res = 1] ELSE fsv
    /\ scmd' = IF scmd = "event" THEN "idle" ELSE scmd
    /\ sd' = SdWoken(drv')
    /\ UNCHANGED <<cur, reason, err, slots, faults, fileVars, eeVars, cut, power>>

\* The alarm is due at once, and rings before the device answers.
ReadThreadStep ==
    /\ power = "on" /\ ReadThread /\ ~SdReady
    /\ cbAlarm => rt # "read"
    /\ UNCHANGED <<fileVars, fsvVars, rpcVars, left>>

\* The threads below the read thread.
GameStep ==
    /\ power = "on" /\ ReadThreadBlocked /\ ~SdReady
    /\ \/ IoStep /\ UNCHANGED <<fsvVars, rpcVars>>
       \/ \E t \in Searchers : SearchStep(t) /\ UNCHANGED <<fsvVars, rpcVars>>
       \/ FsvStep
       \/ ScmdStep

Next ==
    \/ ReadThreadStep \/ EventAlarm \/ SdStep \/ GameStep

\* Threads that can go on do, and the device answers.  No behaviour goes on
\* for ever, as what may be asked for is bounded.
Spec == Init /\ [][Next]_vars /\ WF_vars(Next)

-----------------------------------------------------------------------------

NoFault == faults = left.sound

\* What an EE's read, or its chain of reads, leaves in its memory: the sectors
\* it asked for where it asked for them, and nothing beside them.
Asked(a) ==
    LET c == fsv.call
        parts == IF c.op = "CD_NCMD_READ"
                   THEN {[lsn |-> c.lsn, sectors |-> c.sectors, buf |-> c.buf]}
                   ELSE {[lsn |-> e.lsn, sectors |-> e.sectors, buf |-> e.buf] :
                           e \in {e \in Range(c.chain) : ~e.iop}}
        at == {p \in parts : a - p.buf \in 0 .. p.sectors * SectorUnits - 1}
    IN  IF at = {} THEN -1
        ELSE LET p == CHOOSE p \in at : TRUE IN p.lsn * SectorUnits + a - p.buf

\* A read of the EE that was not broken off, and of which no sector failed,
\* gets the sectors it asked for to the unit, whatever the alignment and the
\* number of chunks, and whatever files, searches and the game's callback
\* read meanwhile (cdvd_readee, cdvd_readchain).
ReadArrives ==
    FsvIs("reply", {"CD_NCMD_READ", "CD_NCMD_READCHAIN"}) /\ ~cut /\ NoFault
      => \A a \in Ee : ee[a] = Asked(a)

\* The file a path names, found by its names alone.
Contents(d) ==
    UNION {Range(Toc[s]) :
             s \in {s \in DOMAIN Toc : s - d.lsn \in 0 .. (d.size - 1) \div SectorUnits}}
Resolve(layer, path) ==
    LET base == layer * Layer1Start
        none == [lsn |-> 0, size |-> 0, dir |-> FALSE, found |-> FALSE]
        root == IF PvdLsn + base \in DOMAIN Volumes
                  THEN [lsn |-> Volumes[PvdLsn + base].lsn + base, dir |-> TRUE,
                        size |-> Volumes[PvdLsn + base].size, found |-> TRUE]
                  ELSE none
        enter(d, name) ==
            LET e == {e \in Contents(d) : e.name = name}
            IN  IF ~d.dir \/ e = {} THEN none
                ELSE LET f == CHOOSE f \in e : TRUE
                     IN  [lsn |-> f.lsn + base, size |-> f.size, dir |-> f.dir,
                          found |-> TRUE]
    IN  FoldLeft(enter, root, path)

Answer(layer, path) ==
    LET f == Resolve(Layer(layer), path)
    IN  [found |-> f.found, lsn |-> f.lsn, size |-> f.size]

FileAnswer ==
    LET c == io.call
        f == Answer(c.layer, Purified(c.path))
    IN  CASE c.op = "getstat" -> io.res = IF f.found THEN 0 ELSE -1
          [] c.op \in {"open", "dopen"} /\ io.res > 0 ->
               /\ f.found
               /\ fds[io.res] = [f |-> TRUE, lsn |-> f.lsn, filesize |-> f.size,
                                position |-> 0]
          [] c.op \in {"open", "dopen"} /\ io.res = -ENOENT ->
               c.layer > 1 \/ ~f.found
          [] c.op = "read" ->
               LET n == Max({0, Min({c.n, io.from.filesize - io.from.position})})
               IN  /\ io.res = n /\ Fh.position = io.from.position + n
                   /\ io.out = [u \in 1 .. n |->
                         io.from.lsn * SectorUnits + io.from.position + u - 1]
          [] OTHER -> TRUE

\* With no sector failing, the calls of a thread of the game, and the searches
\* of its EE, answer as the disc has it: the file a path names, on the layer
\* of the unit, and the units of a read from the position of its handle, up to
\* the end of the file (searchfile.c, cdrom_open, cdrom_getstat, cdrom_read).
FilesAsOnDisc ==
    NoFault =>
      /\ io.pc = "reply" => FileAnswer
      /\ FsvIs("reply", {"SEARCHFILE"}) =>
           fsv.res = Answer(fsv.call.layer, fsv.call.path)

\* DEV9 is shut down, and the console switched off, with the drive at rest:
\* no read is under way or about to be, whichever thread or callback had
\* started it (shutdown_services, sceCdBreak, sceCdSync).
OffAtRest == [][power' # power => AtRest /\ rt # "read" /\ drv.sema = 0]_vars

\* Every call is answered, a shutdown too, unless the console goes off: no
\* two of cdrom_sema, the semaphore of the search and the lock of the drive
\* are waited for crosswise, and a refused read is tried until it is taken.
Waiting ==
    \/ io.pc # "idle" \/ fsv.pc # "idle" \/ scmd # "idle"
    \/ \E t \in Shutters : sd[t] \notin {"wait", "done"}
CallsReturn == Waiting ~> (~Waiting \/ power = "off")
====

---- MODULE CdvdStream ----
(***************************************************************************)
(* The streaming library of cdvdman_emu (streaming.c) over the drive of    *)
(* CdvdRead, and the thread of the game that calls both.                   *)
(*                                                                         *)
(* Banks of the stream buffer are filled by reads that chain themselves:   *)
(* StmCallback, called at the end of a read, counts the bank and starts    *)
(* the next.  The game's thread takes sectors out and restarts the chain   *)
(* when it had stopped on a full buffer; an alarm retries a refused read.  *)
(***************************************************************************)
EXTENDS CdvdRead

CONSTANTS
    Calls,         \* the functions the game calls
    StartLsns,     \* where it starts streams
    Reads,         \* the arguments it gives sceCdStRead
    SyncRead,      \* settings of CDVDMAN_COMPAT_SYNC_READ looked at
    Apart,         \* the game uses the drive itself only beside no stream
    MaxCalls,      \* bound: calls of the game's thread
    MaxUserReads   \* bound: reads the game's callback starts

\* sceCdStRead of n sectors, waiting for them (mode # 0) or not, into IOP or
\* EE memory.
StreamRead == [n : Nat \ {0}, block : BOOLEAN, ee : BOOLEAN]
NoRead == [n |-> 1, block |-> FALSE, ee |-> FALSE]

ASSUME StreamAssumption ==
    /\ StartLsns \subseteq Nat
    /\ SyncRead \subseteq BOOLEAN /\ Apart \in BOOLEAN
    /\ Reads \subseteq StreamRead
    /\ MaxCalls \in Nat /\ MaxUserReads \in Nat

VARIABLES
    stm,    \* struct SteamingData, and whether StmScheduleCb is set
    cbSet,  \* cb_data.stm0_cb = StmCallback
    g,      \* the game's thread
    calls,  \* calls made so far
    userReads,  \* reads started by the game's callback
    from,   \* where the stream was started (observed)
    out     \* sectors delivered since (observed)

gameVars == <<g, calls, from, out>>
vars == <<driveVars, stm, cbSet, gameVars, userReads>>

StreamInit ==
    /\ stm = [lsn |-> 0, wr |-> 0, rd |-> 0, streamed |-> 0,
              reading |-> FALSE, stat |-> FALSE, alarm |-> FALSE]
    /\ cbSet = FALSE
    /\ g = [pc |-> "idle", op |-> "none", lsn |-> 0, slot |-> 0,
            ask |-> NoRead, got |-> 0, taken |-> 0, err |-> "NO"]
    /\ calls = 0 /\ userReads = 0 /\ from = 0 /\ out = <<>>

Lesser(a, b) == IF a < b THEN a ELSE b

\* The write and read pointers go round the buffer.
Wrap(p) == IF p >= Bufmax THEN 0 ELSE p

StReset(s) == [s EXCEPT !.wr = 0, !.rd = 0, !.streamed = 0, !.reading = FALSE]

\* A mutant: a free sector is taken for a free bank.
RoomForSector(s) == Bufmax - s.streamed >= 1
\* AllocBank succeeds.
Room(s) == Bufmax - s.streamed >= Banksize

FillRequest(lsn, slot) ==
    [to |-> "buffer", slot |-> slot, lsn |-> lsn, n |-> Banksize]

\* --------------------------------------------------- in interrupt context

\* StFillStreamBuffer, undisturbed: the drive, the stream, and whether
\* sceCdRead_internal refused.
FillNow(d, s) ==
    IF s.reading THEN [d |-> d, s |-> s, refused |-> FALSE]
    ELSE IF ~Room(s)
      THEN [d |-> d, s |-> [s EXCEPT !.alarm = FALSE], refused |-> FALSE]
    ELSE [d |-> Submit(d, FillRequest(s.lsn, s.wr)),
          s |-> [s EXCEPT !.alarm = FALSE, !.reading = ~d.locked],
          refused |-> d.locked]

\* StmCallback takes the read for its own when it has one.
Counted(s) ==
    IF ~s.reading THEN s
    ELSE [s EXCEPT !.lsn = @ + Banksize, !.streamed = @ + Banksize,
                   !.wr = Wrap(@ + Banksize), !.reading = FALSE]

\* A mutant: nobody tells the reader of the stream.
WithoutStreamDone == {"CB_DONE"}
\* The flags raised at the end of event_alarm_cb.
DoneFlags == {"CB_DONE", "STM_DONE"}

\* event_alarm_cb: unlock, the game's callback (u: it starts a read), the
\* streaming callback.  A thread that waits for a flag goes on when the flag
\* is raised, whatever becomes of the flag afterwards.
EventAlarm ==
    /\ cbAlarm /\ cbAlarm' = FALSE
    /\ \E u \in BOOLEAN :
         /\ u => userReads < MaxUserReads
         /\ userReads' = userReads + (IF u THEN 1 ELSE 0)
         /\ LET d == IF u THEN Submit(Unlock(drv), GameRead) ELSE Unlock(drv)
                f == IF cbSet THEN FillNow(d, Counted(stm))
                     ELSE [d |-> d, s |-> stm, refused |-> FALSE]
            IN  /\ drv' = [f.d EXCEPT !.ef = @ \cup DoneFlags]
                /\ stm' = [f.s EXCEPT !.alarm = @ \/ f.refused]
    /\ rt' = IF rt = "end" /\ "CB_DONE" \in DoneFlags THEN "wait" ELSE rt
    /\ g' = IF \/ g.pc = "end" /\ "CB_DONE" \in DoneFlags
               \/ g.pc = "unlocked" /\ reason = "Read"
              THEN [g EXCEPT !.pc = "idle"] ELSE g
    /\ UNCHANGED <<cur, reason, err, slots, faults, cbSet, calls, from, out>>

\* StmScheduleCb
StreamAlarm ==
    /\ stm.alarm
    /\ LET f == FillNow(drv, stm)
       IN  drv' = f.d /\ stm' = [f.s EXCEPT !.alarm = f.refused]
    /\ UNCHANGED <<rt, cur, reason, cbAlarm, err, slots, faults, cbSet,
                   gameVars, userReads>>

\* ------------------------------------------------------ the game's thread

Goto(pc) == g' = [g EXCEPT !.pc = pc]

\* A step of the game's thread that starts at pc.
At(pc) == g.pc = pc /\ ReadThreadBlocked
DriveKept == UNCHANGED <<rt, cur, slots, faults>>
CallbackKept == UNCHANGED <<reason, cbAlarm, userReads>>

\* A function of the library is called.
Enter(op, pc) ==
    /\ At("idle") /\ op \in Calls /\ calls < MaxCalls
    /\ calls' = calls + 1
    /\ g' = [g EXCEPT !.pc = pc, !.op = op, !.got = 0, !.err = "NO"]
    /\ UNCHANGED <<stm, cbSet, from, out>> /\ DriveKept /\ CallbackKept

\* The game sets its buffer up between streams.
CallInit ==
    /\ ~stm.stat /\ Enter("StInit", "cancel")
    /\ err' = "NO" /\ UNCHANGED drv
CallStop ==
    /\ Enter("StStop", IF stm.stat THEN "cancel" ELSE "idle")
    /\ err' = "NO" /\ UNCHANGED drv
CallPause ==
    /\ Enter("StPause", IF stm.stat THEN "cancel" ELSE "idle")
    /\ err' = "NO" /\ UNCHANGED drv
CallResume ==
    /\ Enter("StResume", IF stm.stat THEN "resume" ELSE "idle")
    /\ err' = "NO" /\ UNCHANGED drv

\* sceCdStStart, and sceCdStSeek of a running stream, stop it first.
CallStart ==
    /\ At("idle") /\ "StStart" \in Calls /\ calls < MaxCalls
    /\ calls' = calls + 1 /\ err' = "NO"
    /\ \E l \in StartLsns :
         g' = [g EXCEPT !.pc = IF stm.stat THEN "cancel" ELSE "begin",
                        !.op = "StStart", !.lsn = l, !.got = 0, !.err = "NO"]
    /\ UNCHANGED <<drv, stm, cbSet, from, out>> /\ DriveKept /\ CallbackKept

\* sceCdStRead raises its own event to look at the buffer at once.
CallRead ==
    /\ At("idle") /\ "StRead" \in Calls /\ calls < MaxCalls
    /\ calls' = calls + 1 /\ err' = "NO"
    /\ drv' = IF stm.stat THEN [drv EXCEPT !.ef = @ \cup {"STM_DONE"}]
              ELSE drv
    /\ \E r \in Reads :
         g' = [g EXCEPT !.pc = IF stm.stat THEN "await" ELSE "idle",
                        !.op = "StRead", !.ask = r, !.got = 0, !.err = "NO"]
    /\ UNCHANGED <<stm, cbSet, from, out>> /\ DriveKept /\ CallbackKept

MayUse == Apart => ~drv.locked /\ ~cbSet /\ ~stm.stat
CallCdRead == MayUse /\ Enter("CdRead", "read") /\ UNCHANGED <<drv, err>>
CallSync == Enter("CdSync", "sync") /\ UNCHANGED <<drv, err>>

\* sceCdSeek, Stop, Pause, Break and GetToc refuse while the lock is held;
\* sceCdStandby does not look.
CallSeek ==
    /\ MayUse
    /\ Enter("CdSeek", IF drv.locked THEN "idle" ELSE "reason")
    /\ err' = IF drv.locked THEN err ELSE "NO"
    /\ UNCHANGED drv
CallStandby ==
    /\ MayUse
    /\ Enter("CdStandby", "reason")
    /\ err' = "NO" /\ UNCHANGED drv

Call == \/ CallInit \/ CallStop \/ CallPause \/ CallResume \/ CallStart
        \/ CallRead \/ CallCdRead \/ CallSync \/ CallSeek \/ CallStandby

\* CancelAlarm of sceCdStInit, sceCdStStop and sceCdStPause.
CancelAlarm ==
    /\ At("cancel") /\ Goto("halt")
    /\ stm' = [stm EXCEPT !.alarm = FALSE]
    /\ UNCHANGED <<drv, err, cbSet, calls, from, out>>
    /\ DriveKept /\ CallbackKept

\* The part with interrupts off.  cdvdman_read_set_stm0_callback does nothing
\* while the lock is held: the callback stays.
Halt ==
    /\ At("halt")
    /\ stm' = CASE g.op = "StInit" -> StReset(stm)
                [] g.op = "StPause" -> [stm EXCEPT !.reading = FALSE]
                [] OTHER -> [StReset(stm) EXCEPT !.stat = FALSE]
    /\ cbSet' = IF g.op = "StInit" THEN cbSet ELSE cbSet /\ drv.locked
    /\ Goto(IF g.op = "StInit" THEN "idle" ELSE "sync")
    /\ UNCHANGED <<drv, err, calls, from, out>> /\ DriveKept /\ CallbackKept

\* sceCdSync(0)
Sync ==
    /\ At("sync") /\ ~drv.locked
    /\ Goto(IF g.op = "StStart" THEN "begin" ELSE "idle")
    /\ UNCHANGED <<drv, err, stm, cbSet, calls, from, out>>
    /\ DriveKept /\ CallbackKept

Begin ==
    /\ At("begin") /\ Goto("fill")
    /\ stm' = [StReset(stm) EXCEPT !.lsn = g.lsn, !.stat = TRUE]
    /\ cbSet' = (cbSet \/ ~drv.locked)
    /\ from' = g.lsn /\ out' = <<>> /\ err' = "NO"
    /\ UNCHANGED <<drv, calls>> /\ DriveKept /\ CallbackKept

Resume ==
    /\ At("resume") /\ Goto("fill")
    /\ cbSet' = (cbSet \/ ~drv.locked)
    /\ UNCHANGED <<drv, err, stm, calls, from, out>>
    /\ DriveKept /\ CallbackKept

\* StFillStreamBuffer by a thread: interrupts are on between its steps.
FillTest ==
    /\ At("fill")
    /\ IF stm.reading
         THEN Goto("idle") /\ UNCHANGED stm
         ELSE /\ stm' = [stm EXCEPT !.reading = TRUE, !.alarm = FALSE]
              /\ IF Room(stm)
                   THEN g' = [g EXCEPT !.pc = "args", !.slot = stm.wr]
                   ELSE Goto("full")
    /\ UNCHANGED <<drv, err, cbSet, calls, from, out>>
    /\ DriveKept /\ CallbackKept

\* Stlsn is passed to sceCdRead_internal, which looks at the lock later.
FillArguments ==
    /\ At("args") /\ g' = [g EXCEPT !.pc = "submit", !.lsn = stm.lsn]
    /\ UNCHANGED <<drv, err, stm, cbSet, calls, from, out>>
    /\ DriveKept /\ CallbackKept

FillSubmit ==
    /\ At("submit") /\ Goto(IF drv.locked THEN "refused" ELSE "idle")
    /\ drv' = Submit(drv, FillRequest(g.lsn, g.slot))
    /\ UNCHANGED <<err, stm, cbSet, calls, from, out>>
    /\ DriveKept /\ CallbackKept

FillNone ==
    /\ At(g.pc) /\ g.pc \in {"refused", "full"}
    /\ Goto(IF g.pc = "refused" THEN "alarm" ELSE "idle")
    /\ stm' = [stm EXCEPT !.reading = FALSE]
    /\ UNCHANGED <<drv, err, cbSet, calls, from, out>>
    /\ DriveKept /\ CallbackKept

FillRetry ==
    /\ At("alarm") /\ Goto("idle")
    /\ stm' = [stm EXCEPT !.alarm = TRUE]
    /\ UNCHANGED <<drv, err, cbSet, calls, from, out>>
    /\ DriveKept /\ CallbackKept

\* The loop of sceCdStRead: wait for a bank, clear the event, copy.
Await ==
    /\ At("await") /\ "STM_DONE" \in drv.ef /\ Goto("clearSt")
    /\ UNCHANGED <<drv, err, stm, cbSet, calls, from, out>>
    /\ DriveKept /\ CallbackKept

ClearEvent ==
    /\ At("clearSt") /\ Goto("copy")
    /\ drv' = [drv EXCEPT !.ef = @ \ {"STM_DONE"}]
    /\ UNCHANGED <<err, stm, cbSet, calls, from, out>>
    /\ DriveKept /\ CallbackKept

\* How much ReadSectors and ReadSectorsEE take for a request of max: up to
\* the end of the buffer when the writer has wrapped, then up to the writer.
Takes(s, max) ==
    LET tail == IF s.wr <= s.rd /\ s.streamed > 0
                  THEN Lesser(Bufmax - s.rd, max) ELSE 0
        rd == Wrap(s.rd + tail)
        head == IF tail < max /\ rd < s.wr
                  THEN Lesser(s.wr - rd, max - tail) ELSE 0
    IN  tail + head

Consumed(s, n) ==
    [s EXCEPT !.rd = (@ + n) % Bufmax, !.streamed = @ - n]
Contents(rd, n) == [i \in 1 .. n |-> slots[(rd + i - 1) % Bufmax]]

\* Another round, or the end of the loop with *error = sceCdGetError().
Deliver(n) ==
    LET got == g.got + n
        again == got < g.ask.n /\ g.ask.block
    IN  /\ g' = [g EXCEPT !.pc = IF again THEN "await" ELSE "fill",
                          !.got = got, !.taken = 0,
                          !.err = IF again THEN @ ELSE err]
        /\ out' = out \o Contents(stm.rd, n)

\* ReadSectors copies with interrupts off.
Copy ==
    /\ At("copy") /\ ~g.ask.ee
    /\ LET n == Takes(stm, g.ask.n - g.got)
       IN  Deliver(n) /\ stm' = Consumed(stm, n)
    /\ UNCHANGED <<drv, err, cbSet, calls, from>> /\ DriveKept /\ CallbackKept

\* A mutant: the sectors are given up before the transfer is over.
ConsumedEarly ==
    /\ At("copy") /\ g.ask.ee
    /\ LET n == Takes(stm, g.ask.n - g.got)
       IN  /\ IF n = 0 THEN Deliver(0)
              ELSE /\ g' = [g EXCEPT !.pc = "dma", !.taken = n]
                   /\ UNCHANGED out
           /\ stm' = [stm EXCEPT !.streamed = @ - n]
    /\ UNCHANGED <<drv, err, cbSet, calls, from>>
    /\ DriveKept /\ CallbackKept

\* ReadSectorsEE starts the transfer and lets the sectors go when it is over.
StartDma ==
    /\ At("copy") /\ g.ask.ee
    /\ LET n == Takes(stm, g.ask.n - g.got)
       IN  IF n = 0 THEN Deliver(0)
           ELSE /\ g' = [g EXCEPT !.pc = "dma", !.taken = n]
                /\ UNCHANGED out
    /\ UNCHANGED <<drv, err, stm, cbSet, calls, from>>
    /\ DriveKept /\ CallbackKept

EndDma ==
    /\ At("dma")
    /\ Deliver(g.taken) /\ stm' = Consumed(stm, g.taken)
    /\ UNCHANGED <<drv, err, cbSet, calls, from>> /\ DriveKept /\ CallbackKept

\* sceCdRead: refused while the lock is held, or tried again in the
\* compatibility mode that also waits for the end.
CdRead ==
    /\ At("read")
    /\ drv' = Submit(drv, GameRead)
    /\ \E sync \in SyncRead :
         Goto(IF ~sync THEN "idle" ELSE IF drv.locked THEN "read" ELSE "wait")
    /\ UNCHANGED <<err, stm, cbSet, calls, from, out>>
    /\ DriveKept /\ CallbackKept

\* WaitEventFlag: the read may be over already.
CdReadWait ==
    /\ At("wait")
    /\ Goto(IF "UNLOCKED" \in drv.ef THEN "idle" ELSE "unlocked")
    /\ UNCHANGED <<drv, err, stm, cbSet, calls, from, out>>
    /\ DriveKept /\ CallbackKept

\* cdvdman_cb_event, by the game's thread.
CommandReason ==
    /\ At("reason") /\ Goto("clear") /\ reason' = "Other"
    /\ UNCHANGED <<drv, err, stm, cbSet, calls, from, out, cbAlarm,
                   userReads>> /\ DriveKept
CommandClear ==
    /\ At("clear") /\ Goto("arm")
    /\ drv' = [drv EXCEPT !.ef = @ \ {"CB_DONE"}]
    /\ UNCHANGED <<err, stm, cbSet, calls, from, out>>
    /\ DriveKept /\ CallbackKept
CommandArm ==
    /\ At("arm") /\ Goto(IF "CB_DONE" \in drv.ef THEN "idle" ELSE "end")
    /\ cbAlarm' = TRUE
    /\ UNCHANGED <<drv, err, stm, cbSet, calls, from, out, reason,
                   userReads>> /\ DriveKept

GameStep ==
    \/ CancelAlarm \/ Halt \/ Sync \/ Begin \/ Resume
    \/ FillTest \/ FillArguments \/ FillSubmit \/ FillNone \/ FillRetry
    \/ Await \/ ClearEvent \/ Copy \/ StartDma \/ EndDma
    \/ CdRead \/ CdReadWait
    \/ CommandReason \/ CommandClear \/ CommandArm

Init == DriveInit /\ StreamInit

ReadThreadStep == ReadThread /\ UNCHANGED <<stm, cbSet, gameVars, userReads>>

Next == ReadThreadStep \/ EventAlarm \/ StreamAlarm \/ GameStep \/ Call

Spec == Init /\ [][Next]_vars

\* The read thread, the alarms and a call that was made go on; the game need
\* not call again.
FairSpec ==
    /\ Spec
    /\ WF_vars(ReadThreadStep) /\ WF_vars(EventAlarm) /\ WF_vars(StreamAlarm)
    /\ WF_vars(GameStep)

----------------------------------------------------------------------------

\* A request that was accepted keeps the lock until its callback: none
\* overwrites it and no second read starts (sceCdRead_internal).
OneReadAtATime ==
    drv.sema = 1 \/ rt \in {"read", "reason", "clear", "arm"} => drv.locked

\* What is counted as streamed lies between the reader and the writer, and is
\* what the game is to get next (AllocBank, StmCallback, ReadSectors).
BufferInOrder ==
    stm.stat =>
      /\ (stm.rd + stm.streamed) % Bufmax = stm.wr
      /\ \A i \in 0 .. stm.streamed - 1 :
           slots[(stm.rd + i) % Bufmax] = from + Len(out) + i

\* The ring buffer implements the queue of CdvdStreamQueue: a bank joins it
\* in StmCallback, sectors leave it in ReadSectors, and reads of the disc
\* never touch a sector that waits in it.
Queue == INSTANCE CdvdStreamQueue WITH
    Bank <- Banksize, Capacity <- Bufmax, Sectors <- StartLsns,
    on <- stm.stat, next <- IF stm.stat THEN stm.lsn ELSE 0,
    queue <- IF stm.stat THEN Contents(stm.rd, stm.streamed) ELSE <<>>
IsQueue == Queue!Spec

\* A call of the game returns: sceCdStRead gets what it waits for, sceCdStStop,
\* sceCdSync and sceCdRead see the drive come to rest, and cdvdman_cb_event
\* comes back to the command that raised it.  But a stream that was paused is
\* not filled, nor one read while it was paused: a fill that ended without
\* the streaming callback leaves StIsReading set.  A read may then wait.
Unfed ==
    /\ g.op = "StRead"
    /\ ~cbSet \/ (g.pc = "await" /\ stm.reading /\ ~drv.locked)
CallsReturn == (g.pc # "idle" /\ ~Unfed) ~> (g.pc = "idle" \/ Unfed)
====

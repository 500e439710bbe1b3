---- MODULE CdvdStream_proofs ----
(***************************************************************************)
(* The lock of the drive and the order of a stream, for every buffer and   *)
(* disc.  A read that was accepted keeps the lock until its event, so none *)
(* overwrites it and no two are served at once (LockInv for a game that    *)
(* raises no event of its own, StreamInv for one that uses the drive only  *)
(* beside no stream).  For the second game the ring buffer holds the       *)
(* sectors of the disc in order (BufferInv) and implements the queue of    *)
(* CdvdStreamQueue.                                                        *)
(***************************************************************************)
EXTENDS CdvdStream, SequenceTheorems, TLAPS

\* The commands of the game that raise an event (cdvdman_cb_event).
EventCommands == {"CdSeek", "CdStandby"}
CommandPcs == {"reason", "clear", "arm", "end"}

\* A drive record has its four fields.
IsDrive(d) ==
    d = [locked |-> d.locked, req |-> d.req, sema |-> d.sema, ef |-> d.ef]
IsGame(r) ==
    r = [pc |-> r.pc, op |-> r.op, lsn |-> r.lsn, slot |-> r.slot,
         ask |-> r.ask, got |-> r.got, taken |-> r.taken, err |-> r.err]

\* A request that waits for the read thread holds the lock.
Guarded(d) == d.sema = 1 => d.locked

\* The alarm is set only while the read thread waits for it, and nothing else
\* raises the flag it waits for; the thread takes no request while it has one;
\* the game's thread is in no command.
LockInv ==
    /\ IsDrive(drv) /\ IsGame(g)
    /\ g.pc \notin CommandPcs
    /\ Guarded(drv)
    /\ drv.sema = 1 => rt = "wait"
    /\ rt # "wait" => drv.locked
    /\ cbAlarm => rt = "end"
    /\ rt \in {"arm", "end"} => "CB_DONE" \notin drv.ef

----------------------------------------------------------------------------

\* sceCdRead_internal leaves a request that holds the lock, its own or the
\* one that was there.
LEMMA SubmitGuards ==
    ASSUME NEW d, NEW r, IsDrive(d), Guarded(d)
    PROVE  /\ IsDrive(Submit(d, r)) /\ Guarded(Submit(d, r))
           /\ d.locked => Submit(d, r) = d
           /\ "CB_DONE" \notin d.ef => "CB_DONE" \notin Submit(d, r).ef
BY DEF Submit, IsDrive, Guarded

\* So does a fill from an interrupt, which submits at most one request.
LEMMA FillGuards ==
    ASSUME NEW d, NEW s, IsDrive(d), Guarded(d)
    PROVE  /\ IsDrive(FillNow(d, s).d) /\ Guarded(FillNow(d, s).d)
           /\ d.locked => FillNow(d, s).d = d
           /\ "CB_DONE" \notin d.ef => "CB_DONE" \notin FillNow(d, s).d.ef
<1>1. \/ FillNow(d, s).d = d
      \/ \E r : FillNow(d, s).d = Submit(d, r)
  BY DEF FillNow
<1> QED BY <1>1, SubmitGuards

LEMMA LockInit == Init => LockInv
BY DEF Init, DriveInit, StreamInit, LockInv, IsDrive, IsGame, Guarded,
       CommandPcs

\* The read thread: it takes a request whose lock is held, and keeps it.
LEMMA LockReadThread ==
    ASSUME LockInv, ReadThreadStep PROVE LockInv'
<1> USE DEF LockInv, IsDrive, IsGame, Guarded
<1>1. CASE ReadTake
  BY <1>1 DEF ReadTake, ReadThreadStep, gameVars
<1>2. CASE ReadSector
  BY <1>2 DEF ReadSector, ReadThreadStep, gameVars
<1>3. CASE ReadFault
  BY <1>3 DEF ReadFault, ReadThreadStep, gameVars
<1>4. CASE ReadReason
  BY <1>4 DEF ReadReason, ReadThreadStep, gameVars
<1>5. CASE ReadClear
  BY <1>5 DEF ReadClear, ReadThreadStep, gameVars
<1>6. CASE ReadArm
  BY <1>6 DEF ReadArm, ReadThreadStep, gameVars
<1> QED BY <1>1, <1>2, <1>3, <1>4, <1>5, <1>6
        DEF ReadThreadStep, ReadThread

\* The event releases the lock of the read that is over; the callbacks may
\* take it again, for a request the thread has not seen.
LEMMA LockEvent ==
    ASSUME LockInv, EventAlarm PROVE LockInv'
<1>1. rt = "end" /\ drv.sema # 1 /\ IsDrive(drv) /\ IsGame(g)
  BY DEF EventAlarm, LockInv
<1>2. IsDrive(Unlock(drv)) /\ Guarded(Unlock(drv))
  BY <1>1 DEF Unlock, IsDrive, Guarded
<1>3. PICK u \in BOOLEAN :
        LET d == IF u THEN Submit(Unlock(drv), GameRead) ELSE Unlock(drv)
            f == IF cbSet THEN FillNow(d, Counted(stm))
                 ELSE [d |-> d, s |-> stm, refused |-> FALSE]
        IN  drv' = [f.d EXCEPT !.ef = @ \cup DoneFlags]
  BY DEF EventAlarm
<1> DEFINE d == IF u THEN Submit(Unlock(drv), GameRead) ELSE Unlock(drv)
           f == IF cbSet THEN FillNow(d, Counted(stm))
                ELSE [d |-> d, s |-> stm, refused |-> FALSE]
<1>4. IsDrive(d) /\ Guarded(d)
  BY <1>2, SubmitGuards
<1>5. IsDrive(f.d) /\ Guarded(f.d)
  BY <1>4, FillGuards
<1>6. drv' = [f.d EXCEPT !.ef = @ \cup DoneFlags]
  BY <1>3
<1>7. IsDrive(drv') /\ Guarded(drv')
  <2> HIDE DEF f
  <2> QED BY <1>5, <1>6 DEF IsDrive, Guarded
<1>8. rt' = "wait" /\ ~cbAlarm'
  BY <1>1 DEF EventAlarm, DoneFlags
<1>9. IsGame(g') /\ g'.pc \notin CommandPcs
  BY <1>1 DEF EventAlarm, LockInv, IsGame, CommandPcs
<1> QED BY <1>7, <1>8, <1>9 DEF LockInv, IsDrive, IsGame, Guarded

LEMMA LockStreamAlarm ==
    ASSUME LockInv, StreamAlarm PROVE LockInv'
<1>1. drv' = FillNow(drv, stm).d
  BY DEF StreamAlarm
<1>2. /\ IsDrive(drv') /\ Guarded(drv') /\ (drv.locked => drv' = drv)
      /\ ("CB_DONE" \notin drv.ef => "CB_DONE" \notin drv'.ef)
  BY <1>1, FillGuards DEF LockInv
<1>3. rt' = rt /\ cbAlarm' = cbAlarm /\ g' = g
  BY DEF StreamAlarm, gameVars
<1> QED BY <1>2, <1>3 DEF LockInv, IsDrive, IsGame, Guarded

\* What a step of the game's thread may do to the drive.
GameDrive ==
    /\ IsDrive(drv') /\ Guarded(drv') /\ (drv.locked => drv'.locked)
    /\ drv.locked => drv'.sema = drv.sema
    /\ "CB_DONE" \notin drv.ef => "CB_DONE" \notin drv'.ef
GamePc == IsGame(g') /\ g'.pc \notin CommandPcs

\* A step of the game's thread that changes no more than that keeps LockInv.
LEMMA LockGame ==
    ASSUME LockInv, GameDrive, GamePc, rt' = rt, cbAlarm' = cbAlarm
    PROVE  LockInv'
BY DEF LockInv, GameDrive, GamePc, IsDrive, IsGame, Guarded

\* The steps inside a call.
LEMMA LockGameStep ==
    ASSUME LockInv, GameStep PROVE LockInv'
<1> USE DEF DriveKept, CallbackKept, Goto, At, CommandPcs
<1>0. IsGame(g) /\ g.pc \notin CommandPcs
  BY DEF LockInv
<1>1. rt' = rt /\ cbAlarm' = cbAlarm
  BY <1>0 DEF GameStep, CancelAlarm, Halt, Sync, Begin, Resume, FillTest,
     FillArguments, FillSubmit, FillNone, FillRetry, Await, ClearEvent, Copy,
     StartDma, EndDma, CdRead, CdReadWait, CommandReason, CommandClear,
     CommandArm
<1>2. GamePc
  BY <1>0 DEF GamePc, IsGame, GameStep, CancelAlarm, Halt, Sync, Begin,
     Resume, FillTest, FillArguments, FillSubmit, FillNone, FillRetry, Await,
     ClearEvent, Copy, StartDma, EndDma, Deliver, CdRead, CdReadWait,
     CommandReason, CommandClear, CommandArm
<1>3. GameDrive
  <2>1. CASE drv' = drv
    BY <2>1 DEF GameDrive, LockInv
  <2>2. CASE FillSubmit
    BY <2>2, SubmitGuards DEF FillSubmit, GameDrive, LockInv
  <2>3. CASE CdRead
    BY <2>3, SubmitGuards DEF CdRead, GameDrive, LockInv
  <2>4. CASE ClearEvent
    BY <2>4 DEF ClearEvent, GameDrive, LockInv, IsDrive, Guarded
  <2> QED
    BY <1>0, <2>1, <2>2, <2>3, <2>4 DEF GameStep, CancelAlarm, Halt, Sync,
       Begin, Resume, FillTest, FillArguments, FillNone, FillRetry, Await,
       Copy, StartDma, EndDma, CdReadWait, CommandReason, CommandClear,
       CommandArm
<1> QED BY <1>1, <1>2, <1>3, LockGame

\* The calls themselves, none of them a command that raises an event.
LEMMA LockCall ==
    ASSUME Calls \cap EventCommands = {}, LockInv, Call PROVE LockInv'
<1> USE DEF DriveKept, CallbackKept, At
<1>0. IsGame(g) /\ "CdSeek" \notin Calls /\ "CdStandby" \notin Calls
  BY DEF LockInv, EventCommands
<1>1. rt' = rt /\ cbAlarm' = cbAlarm
  BY DEF Call, CallInit, CallStop, CallPause, CallResume, CallStart, CallRead,
     CallCdRead, CallSync, CallSeek, CallStandby, Enter
<1>2. GamePc
  BY <1>0 DEF GamePc, IsGame, CommandPcs, Call, CallInit, CallStop, CallPause,
     CallResume, CallStart, CallRead, CallCdRead, CallSync, CallSeek,
     CallStandby, Enter
<1>3. GameDrive
  <2>1. CASE drv' = drv
    BY <2>1 DEF GameDrive, LockInv
  <2>2. CASE CallRead
    BY <2>2 DEF CallRead, GameDrive, LockInv, IsDrive, Guarded
  <2> QED
    BY <2>1, <2>2 DEF Call, CallInit, CallStop, CallPause, CallResume,
       CallStart, CallCdRead, CallSync, CallSeek, CallStandby
<1> QED BY <1>1, <1>2, <1>3, LockGame

\* Whatever the sizes of the buffer and of the disc, whatever fails, and
\* whenever the game and its callback read: a read that was accepted holds the
\* lock until its event (sceCdRead_internal, event_alarm_cb), provided the
\* game does not seek and does not call sceCdStandby.
THEOREM LockHeld ==
    ASSUME Calls \cap EventCommands = {}
    PROVE  Spec => []OneReadAtATime
<1>1. Init => LockInv
  BY LockInit
<1>2. LockInv /\ [Next]_vars => LockInv'
  <2> SUFFICES ASSUME LockInv, [Next]_vars PROVE LockInv'
    OBVIOUS
  <2>1. CASE ReadThreadStep
    BY <2>1, LockReadThread
  <2>2. CASE EventAlarm
    BY <2>2, LockEvent
  <2>3. CASE StreamAlarm
    BY <2>3, LockStreamAlarm
  <2>4. CASE GameStep
    BY <2>4, LockGameStep
  <2>5. CASE Call
    BY <2>5, LockCall
  <2>6. CASE UNCHANGED vars
    BY <2>6 DEF vars, driveVars, gameVars, LockInv, IsDrive, IsGame, Guarded
  <2> QED BY <2>1, <2>2, <2>3, <2>4, <2>5, <2>6 DEF Next
<1>3. LockInv => OneReadAtATime
  BY DEF LockInv, Guarded, OneReadAtATime
<1> QED BY <1>1, <1>2, <1>3, PTL DEF Spec

----------------------------------------------------------------------------
(* The stream: where the game's thread is, and what the drive does then.   *)

IsStream(s) ==
    s = [lsn |-> s.lsn, wr |-> s.wr, rd |-> s.rd, streamed |-> s.streamed,
         reading |-> s.reading, stat |-> s.stat, alarm |-> s.alarm]

\* Where the game's thread is in a call on the stream, and on the drive.
StreamPcs == {"resume", "fill", "args", "submit", "refused", "full", "alarm",
              "await", "clearSt", "copy", "dma"}
DrivePcs == CommandPcs \cup {"read", "wait", "unlocked"}
Stopping == g.pc = "sync" /\ g.op \in {"StStop", "StStart"}
Pausing == g.pc = "sync" /\ g.op = "StPause"

\* The request under way.
Flying == IF rt = "wait" THEN drv.req ELSE cur.req

\* The lock is held exactly while a request is under way, and a command that
\* raises an event is given to a drive at rest.
LockPart ==
    /\ IsDrive(drv) /\ drv.sema \in {0, 1} /\ drv.locked \in BOOLEAN
    /\ drv.sema = 1 => rt = "wait"
    /\ drv.locked <=> (drv.sema = 1 \/ rt # "wait")
    /\ cbAlarm => (rt = "end" \/ g.pc = "end")
    /\ rt \in {"clear", "arm", "end"} => reason = "Read"
    /\ rt \in {"arm", "end"} => "CB_DONE" \notin drv.ef
    /\ g.pc \in CommandPcs => ~drv.locked
    /\ g.pc \in {"clear", "arm", "end"} => reason = "Other"
    /\ g.pc = "arm" => "CB_DONE" \notin drv.ef

\* What holds where in the calls of the game.
ThreadPart ==
    /\ IsGame(g) /\ IsStream(stm) /\ userReads \in Nat
    /\ stm.stat \in BOOLEAN /\ stm.reading \in BOOLEAN
    /\ stm.alarm \in BOOLEAN /\ cbSet \in BOOLEAN
    /\ g.pc \in {"cancel", "halt"} =>
         /\ g.op \in {"StInit", "StStop", "StPause", "StStart"}
         /\ stm.stat <=> g.op # "StInit"
    /\ g.pc = "halt" \/ Pausing \/ ~stm.stat => ~stm.alarm
    /\ Stopping \/ g.pc = "begin" => ~stm.stat
    /\ Pausing \/ g.pc \in StreamPcs => stm.stat
    /\ g.pc \in DrivePcs => ~stm.stat /\ ~cbSet
    /\ g.pc \in {"args", "submit", "refused", "full", "alarm"} => ~stm.alarm
    /\ g.pc \in {"args", "submit", "full"} =>
         stm.reading /\ (cbSet => ~drv.locked)
    /\ g.pc \in {"refused", "alarm"} => ~cbSet
    /\ g.pc \in {"args", "submit"} => g.slot = stm.wr
    /\ g.pc = "submit" => g.lsn = stm.lsn
    /\ g.pc = "begin" => g.op = "StStart"
    /\ g.pc \in {"cancel", "halt", "sync", "begin"} /\ g.op = "StStart" =>
         g.lsn \in StartLsns

\* What is under way: beside a stream, the bank it wants next, or a read of
\* the game from before it, whose end the stream will not see.
FlyPart ==
    /\ stm.stat /\ drv.locked =>
         \/ Flying = GameRead /\ ~cbSet
         \/ Flying = FillRequest(stm.lsn, stm.wr)
    /\ ~stm.stat /\ drv.locked /\ ~Stopping => Flying = GameRead /\ ~cbSet
    /\ stm.stat /\ cbSet /\ drv.locked /\ ~Pausing => stm.reading

StreamInv == LockPart /\ ThreadPart /\ FlyPart

----------------------------------------------------------------------------

LEMMA StreamInitially == ASSUME Init PROVE StreamInv
<1> USE DEF Init, DriveInit, StreamInit
<1>1. LockPart
  BY DEF LockPart, IsDrive, CommandPcs
<1>2. ThreadPart
  BY DEF ThreadPart, IsGame, IsStream, CommandPcs, StreamPcs, DrivePcs,
     Stopping, Pausing
<1>3. FlyPart
  BY DEF FlyPart
<1> QED BY <1>1, <1>2, <1>3 DEF StreamInv

LEMMA StreamReadThread ==
    ASSUME StreamInv, ReadThreadStep PROVE StreamInv'
<1> USE DEF StreamInv, LockPart, ThreadPart, FlyPart, IsDrive, IsGame, IsStream,
       CommandPcs, StreamPcs, DrivePcs, Stopping, Pausing, Flying,
       ReadThreadStep, gameVars
<1>1. CASE ReadTake
  BY <1>1 DEF ReadTake
<1>2. CASE ReadSector
  BY <1>2 DEF ReadSector
<1>3. CASE ReadFault
  BY <1>3 DEF ReadFault
<1>4. CASE ReadReason
  BY <1>4 DEF ReadReason
<1>5. CASE ReadClear
  BY <1>5 DEF ReadClear
<1>6. CASE ReadArm
  BY <1>6 DEF ReadArm
<1> QED BY <1>1, <1>2, <1>3, <1>4, <1>5, <1>6
        DEF ReadThreadStep, ReadThread


\* The interrupts, what they do field by field.

\* StFillStreamBuffer from an interrupt.
LEMMA FillForms ==
    ASSUME NEW d, NEW s, IsDrive(d), IsStream(s), d.locked \in BOOLEAN
    PROVE  \/ /\ s.reading /\ FillNow(d, s).d = d /\ FillNow(d, s).s = s
              /\ ~FillNow(d, s).refused
           \/ /\ ~s.reading /\ ~Room(s) /\ FillNow(d, s).d = d
              /\ FillNow(d, s).s = [s EXCEPT !.alarm = FALSE]
              /\ ~FillNow(d, s).refused
           \/ /\ ~s.reading /\ Room(s) /\ d.locked /\ FillNow(d, s).d = d
              /\ FillNow(d, s).s = [s EXCEPT !.alarm = FALSE, !.reading = FALSE]
              /\ FillNow(d, s).refused = TRUE
           \/ /\ ~s.reading /\ Room(s) /\ ~d.locked
              /\ FillNow(d, s).d =
                   [locked |-> TRUE, ef |-> d.ef \ {"UNLOCKED"},
                    req |-> FillRequest(s.lsn, s.wr), sema |-> 1]
              /\ FillNow(d, s).s = [s EXCEPT !.alarm = FALSE, !.reading = TRUE]
              /\ ~FillNow(d, s).refused
BY DEF FillNow, Submit

\* What every event keeps, and what becomes of drive and stream in the event of
\* a command, of a read beside no stream, of one that fills the last bank, and
\* of one that is followed by the next.
EventKeeps ==
    /\ IsDrive(drv') /\ IsStream(stm') /\ ~cbAlarm'
    /\ UNCHANGED <<cur, reason, cbSet, userReads, slots, from, out>>
    /\ \/ g' = g
       \/ g.pc \in {"end", "unlocked"} /\ g' = [g EXCEPT !.pc = "idle"]
DriveOpen ==
    drv'.locked = FALSE /\ drv'.sema = drv.sema /\ drv'.req = drv.req
CommandEvent ==
    /\ g.pc = "end" /\ g' = [g EXCEPT !.pc = "idle"]
    /\ ~cbSet /\ ~drv.locked /\ rt' = rt /\ stm' = stm /\ DriveOpen
ReadOver ==
    /\ rt = "end" /\ rt' = "wait" /\ drv.locked
    /\ g.pc = "unlocked" => g'.pc # "unlocked"
PlainEvent == ReadOver /\ ~cbSet /\ stm' = stm /\ DriveOpen
FullEvent ==
    /\ ReadOver /\ cbSet /\ ~Room(Counted(stm)) /\ DriveOpen
    /\ stm' = [Counted(stm) EXCEPT !.alarm = FALSE]
NextEvent ==
    /\ ReadOver /\ cbSet /\ Room(Counted(stm))
    /\ stm' = [Counted(stm) EXCEPT !.alarm = FALSE, !.reading = TRUE]
    /\ drv'.locked = TRUE /\ drv'.sema = 1
    /\ drv'.req = FillRequest(Counted(stm).lsn, Counted(stm).wr)

LEMMA EventForms ==
    ASSUME StreamInv, EventAlarm, MaxUserReads = 0
    PROVE  /\ EventKeeps
           /\ CommandEvent \/ PlainEvent \/ FullEvent \/ NextEvent
<1> USE DEF EventKeeps, DriveOpen, CommandEvent, ReadOver, PlainEvent,
            FullEvent, NextEvent
<1>0. /\ IsDrive(drv) /\ IsStream(stm) /\ IsGame(g) /\ cbAlarm
      /\ drv.locked \in BOOLEAN /\ stm.reading \in BOOLEAN
      /\ stm.alarm \in BOOLEAN /\ userReads \in Nat /\ cbSet \in BOOLEAN
  BY DEF EventAlarm, StreamInv, LockPart, ThreadPart
<1>1. /\ userReads' = userReads /\ ~cbAlarm'
      /\ LET d == Unlock(drv)
             f == IF cbSet THEN FillNow(d, Counted(stm))
                  ELSE [d |-> d, s |-> stm, refused |-> FALSE]
         IN  /\ drv' = [f.d EXCEPT !.ef = @ \cup DoneFlags]
             /\ stm' = [f.s EXCEPT !.alarm = @ \/ f.refused]
      /\ rt' = IF rt = "end" /\ "CB_DONE" \in DoneFlags THEN "wait" ELSE rt
      /\ g' = IF \/ g.pc = "end" /\ "CB_DONE" \in DoneFlags
                 \/ g.pc = "unlocked" /\ reason = "Read"
              THEN [g EXCEPT !.pc = "idle"] ELSE g
      /\ UNCHANGED <<cur, reason, cbSet, slots, from, out>>
  <2>1. PICK u \in BOOLEAN :
          /\ u => userReads < MaxUserReads
          /\ userReads' = userReads + (IF u THEN 1 ELSE 0)
          /\ LET d == IF u THEN Submit(Unlock(drv), GameRead) ELSE Unlock(drv)
                 f == IF cbSet THEN FillNow(d, Counted(stm))
                      ELSE [d |-> d, s |-> stm, refused |-> FALSE]
             IN  /\ drv' = [f.d EXCEPT !.ef = @ \cup DoneFlags]
                 /\ stm' = [f.s EXCEPT !.alarm = @ \/ f.refused]
    BY DEF EventAlarm
  <2>2. u = FALSE
    BY <1>0, <2>1
  <2>3. /\ ~cbAlarm'
        /\ rt' = IF rt = "end" /\ "CB_DONE" \in DoneFlags THEN "wait" ELSE rt
        /\ g' = IF \/ g.pc = "end" /\ "CB_DONE" \in DoneFlags
                   \/ g.pc = "unlocked" /\ reason = "Read"
                THEN [g EXCEPT !.pc = "idle"] ELSE g
        /\ UNCHANGED <<cur, reason, cbSet, slots, from, out>>
    BY DEF EventAlarm
  <2>4. userReads' = userReads
    BY <1>0, <2>1, <2>2
  <2> QED BY <2>1, <2>2, <2>3, <2>4
<1> DEFINE d == Unlock(drv)
           f == IF cbSet THEN FillNow(d, Counted(stm))
                ELSE [d |-> d, s |-> stm, refused |-> FALSE]
<1>2. /\ drv' = [f.d EXCEPT !.ef = @ \cup DoneFlags]
      /\ stm' = [f.s EXCEPT !.alarm = @ \/ f.refused]
  BY <1>1
<1>3. IsDrive(d) /\ d.sema = drv.sema /\ d.req = drv.req
      /\ d.locked = (drv.locked /\ reason # "Read")
  BY <1>0 DEF Unlock, IsDrive
<1>4. IsStream(Counted(stm)) /\ ~Counted(stm).reading
      /\ Counted(stm).reading \in BOOLEAN
  BY <1>0 DEF Counted, IsStream
<1>5. "CB_DONE" \in DoneFlags
  BY DEF DoneFlags
<1>6. CASE g.pc = "end"
  <2>1. /\ ~cbSet /\ rt # "end" /\ ~drv.locked
    BY <1>6 DEF StreamInv, LockPart, ThreadPart, CommandPcs, DrivePcs
  <2>2. f = [d |-> d, s |-> stm, refused |-> FALSE]
    BY <2>1
  <2>3. /\ IsDrive(drv') /\ drv'.locked = FALSE /\ drv'.sema = drv.sema
        /\ drv'.req = drv.req
    BY <1>2, <1>3, <2>1, <2>2 DEF IsDrive
  <2>4. stm' = stm
    BY <1>0, <1>2, <2>2 DEF IsStream
  <2> QED BY <1>0, <1>1, <1>5, <1>6, <2>1, <2>3, <2>4
<1>7. CASE g.pc # "end"
  <2>1. /\ rt = "end" /\ reason = "Read" /\ drv.locked
    BY <1>0, <1>7 DEF StreamInv, LockPart
  <2>2. d.locked = FALSE
    BY <1>3, <2>1
  <2>3. /\ rt' = "wait"
        /\ g.pc = "unlocked" => g'.pc # "unlocked"
        /\ \/ g' = g
           \/ g.pc \in {"end", "unlocked"} /\ g' = [g EXCEPT !.pc = "idle"]
    BY <1>0, <1>1, <1>5, <2>1 DEF IsGame
  <2>4. CASE ~cbSet
    <3>1. f = [d |-> d, s |-> stm, refused |-> FALSE]
      BY <2>4
    <3>2. /\ IsDrive(drv') /\ drv'.locked = FALSE /\ drv'.sema = drv.sema
          /\ drv'.req = drv.req
      BY <1>2, <1>3, <2>2, <3>1 DEF IsDrive
    <3>3. stm' = stm
      BY <1>0, <1>2, <3>1 DEF IsStream
    <3> QED BY <1>0, <1>1, <2>1, <2>3, <2>4, <3>2, <3>3
  <2>5. CASE cbSet
    <3>1. f = FillNow(d, Counted(stm))
      BY <2>5
    <3>2. d.locked \in BOOLEAN
      BY <1>0, <1>3
    <3> HIDE DEF d, f
    <3>3. CASE ~Room(Counted(stm))
      <4>1. f.d = d /\ f.s = [Counted(stm) EXCEPT !.alarm = FALSE]
            /\ ~f.refused
        BY <1>3, <1>4, <3>1, <3>2, <3>3, FillForms
      <4>2. /\ IsDrive(drv') /\ drv'.locked = FALSE /\ drv'.sema = drv.sema
            /\ drv'.req = drv.req
        BY <1>2, <1>3, <2>2, <4>1 DEF IsDrive
      <4>3. /\ stm' = [Counted(stm) EXCEPT !.alarm = FALSE]
            /\ IsStream(stm')
        BY <1>2, <1>4, <4>1 DEF IsStream
      <4> QED BY <1>1, <2>1, <2>3, <2>5, <3>3, <4>2, <4>3
    <3>4. CASE Room(Counted(stm))
      <4>1. /\ f.d = [locked |-> TRUE, ef |-> d.ef \ {"UNLOCKED"},
                      req |-> FillRequest(Counted(stm).lsn, Counted(stm).wr),
                      sema |-> 1]
            /\ f.s = [Counted(stm) EXCEPT !.alarm = FALSE, !.reading = TRUE]
            /\ ~f.refused
        BY <1>3, <1>4, <2>2, <3>1, <3>2, <3>4, FillForms
      <4>2. /\ IsDrive(drv') /\ drv'.locked = TRUE /\ drv'.sema = 1
            /\ drv'.req = FillRequest(Counted(stm).lsn, Counted(stm).wr)
        <5> DEFINE r == FillRequest(Counted(stm).lsn, Counted(stm).wr)
        <5> HIDE DEF r
        <5>1. /\ IsDrive(f.d) /\ f.d.locked = TRUE /\ f.d.sema = 1
              /\ f.d.req = r
          BY <4>1 DEF r, IsDrive
        <5>2. drv' = [f.d EXCEPT !.ef = @ \cup DoneFlags]
          BY <1>2
        <5>3. IsDrive(drv') /\ drv'.locked = TRUE /\ drv'.sema = 1
              /\ drv'.req = r
          BY <5>1, <5>2 DEF IsDrive
        <5> QED BY <5>3 DEF r
      <4>3. /\ stm' = [Counted(stm) EXCEPT !.alarm = FALSE,
                                           !.reading = TRUE]
            /\ IsStream(stm')
        BY <1>2, <1>4, <4>1 DEF IsStream
      <4> QED BY <1>1, <2>1, <2>3, <2>5, <3>4, <4>2, <4>3
    <3> QED BY <3>3, <3>4
  <2> QED BY <1>0, <2>4, <2>5
<1> QED BY <1>6, <1>7

LEMMA StreamEvent ==
    ASSUME StreamInv, EventAlarm, MaxUserReads = 0 PROVE StreamInv'
<1> USE DEF CommandPcs, StreamPcs, DrivePcs, Stopping, Pausing, Flying,
        StreamInv, EventKeeps, DriveOpen, ReadOver
<1>1. EventKeeps /\ (CommandEvent \/ PlainEvent \/ FullEvent \/ NextEvent)
  BY EventForms
<1>2. IsGame(g') /\ (g'.pc = "idle" \/ g' = g)
  BY <1>1 DEF ThreadPart, IsGame
<1>3. /\ Counted(stm).stat = stm.stat /\ Counted(stm).alarm = stm.alarm
      /\ ~stm.reading => Counted(stm) = stm
      /\ Counted(stm).reading = FALSE /\ IsStream(Counted(stm))
  BY DEF Counted, ThreadPart, IsStream
<1>4. CASE CommandEvent
  <2>1. LockPart'
    BY <1>1, <1>2, <1>4 DEF CommandEvent, LockPart
  <2>2. ThreadPart'
    BY <1>1, <1>2, <1>4 DEF CommandEvent, LockPart, ThreadPart
  <2>3. FlyPart'
    BY <1>1, <1>2, <1>4 DEF CommandEvent, FlyPart
  <2> QED BY <2>1, <2>2, <2>3
<1>5. CASE PlainEvent
  <2>1. LockPart'
    BY <1>1, <1>2, <1>5 DEF PlainEvent, LockPart
  <2>2. ThreadPart'
    BY <1>1, <1>2, <1>5 DEF PlainEvent, LockPart, ThreadPart
  <2>3. FlyPart'
    BY <1>1, <1>2, <1>5 DEF PlainEvent, FlyPart
  <2> QED BY <2>1, <2>2, <2>3
<1>6. CASE FullEvent
  <2>0. /\ stm'.stat = stm.stat /\ ~stm'.alarm /\ stm'.alarm \in BOOLEAN
        /\ ~stm'.reading /\ stm'.reading \in BOOLEAN
    BY <1>3, <1>6 DEF FullEvent, IsStream
  <2>1. LockPart'
    BY <1>1, <1>2, <1>6 DEF FullEvent, LockPart
  <2>2. ThreadPart'
    BY <1>1, <1>2, <1>6, <2>0 DEF FullEvent, LockPart, ThreadPart
  <2>3. FlyPart'
    BY <1>1, <1>2, <1>6 DEF FullEvent, FlyPart
  <2> QED BY <2>1, <2>2, <2>3
<1>7. CASE NextEvent
  <2>0. /\ stm'.stat = stm.stat /\ ~stm'.alarm /\ stm'.alarm \in BOOLEAN
        /\ stm'.reading /\ stm'.reading \in BOOLEAN
        /\ stm'.lsn = Counted(stm).lsn /\ stm'.wr = Counted(stm).wr
    BY <1>3, <1>7 DEF NextEvent, IsStream
  <2>1. LockPart'
    BY <1>1, <1>2, <1>7 DEF NextEvent, LockPart
  <2>2. ThreadPart'
    BY <1>1, <1>2, <1>7, <2>0 DEF NextEvent, LockPart, ThreadPart
  <2>3. FlyPart'
    BY <1>1, <1>2, <1>7, <2>0 DEF NextEvent, FlyPart, LockPart, ThreadPart
  <2> QED BY <2>1, <2>2, <2>3
<1> QED BY <1>1, <1>4, <1>5, <1>6, <1>7


\* The retry of a refused fill: nothing to do, full, refused again, or the
\* next bank asked for.
RetryNone ==
    /\ drv' = drv /\ stm' = [stm EXCEPT !.alarm = FALSE]
    /\ stm.reading \/ ~Room(stm)
RetryRefused == drv' = drv /\ stm' = stm /\ ~stm.reading /\ drv.locked
RetryFill ==
    /\ ~stm.reading /\ Room(stm) /\ ~drv.locked
    /\ stm' = [stm EXCEPT !.alarm = FALSE, !.reading = TRUE]
    /\ drv' = [locked |-> TRUE, ef |-> drv.ef \ {"UNLOCKED"},
               req |-> FillRequest(stm.lsn, stm.wr), sema |-> 1]

LEMMA RetryForms ==
    ASSUME StreamInv, StreamAlarm
    PROVE  stm.alarm = TRUE /\ (RetryNone \/ RetryRefused \/ RetryFill)
<1> USE DEF RetryNone, RetryRefused, RetryFill
<1>0. /\ IsDrive(drv) /\ IsStream(stm) /\ drv.locked \in BOOLEAN
      /\ stm.reading \in BOOLEAN /\ stm.alarm = TRUE
  BY DEF StreamInv, LockPart, ThreadPart, StreamAlarm
<1> DEFINE f == FillNow(drv, stm)
<1>1. drv' = f.d /\ stm' = [f.s EXCEPT !.alarm = f.refused]
  BY DEF StreamAlarm
<1>2. CASE stm.reading
  BY <1>0, <1>1, <1>2 DEF FillNow, IsStream
<1>3. CASE ~stm.reading /\ ~Room(stm)
  BY <1>0, <1>1, <1>3 DEF FillNow, IsStream
<1>4. CASE ~stm.reading /\ Room(stm) /\ drv.locked
  BY <1>0, <1>1, <1>4 DEF FillNow, Submit, IsStream
<1>5. CASE ~stm.reading /\ Room(stm) /\ ~drv.locked
  BY <1>0, <1>1, <1>5 DEF FillNow, Submit, IsStream
<1> QED BY <1>2, <1>3, <1>4, <1>5

LEMMA StreamRetry ==
    ASSUME StreamInv, StreamAlarm PROVE StreamInv'
<1> USE DEF CommandPcs, StreamPcs, DrivePcs, Stopping, Pausing, Flying,
        StreamInv
<1>1. stm.alarm = TRUE /\ (RetryNone \/ RetryRefused \/ RetryFill)
  BY RetryForms
<1>2. /\ UNCHANGED <<rt, cur, reason, cbAlarm, cbSet, g, userReads>>
      /\ stm.stat /\ ~Stopping /\ ~Pausing
      /\ g.pc \notin CommandPcs
  BY <1>1 DEF StreamAlarm, gameVars, ThreadPart
<1>3. CASE RetryNone
  <2>1. LockPart'
    BY <1>1, <1>2, <1>3 DEF RetryNone, LockPart
  <2>2. ThreadPart'
    BY <1>1, <1>2, <1>3 DEF RetryNone, ThreadPart, IsStream
  <2>3. FlyPart'
    BY <1>1, <1>2, <1>3 DEF RetryNone, FlyPart, ThreadPart, IsStream
  <2> QED BY <2>1, <2>2, <2>3
<1>4. CASE RetryRefused
  BY <1>1, <1>2, <1>4 DEF RetryRefused, LockPart, ThreadPart, FlyPart
<1>5. CASE RetryFill
  <2>1. LockPart'
    BY <1>1, <1>2, <1>5 DEF RetryFill, LockPart, IsDrive
  <2>2. ThreadPart'
    BY <1>1, <1>2, <1>5 DEF RetryFill, ThreadPart, IsStream
  <2>3. FlyPart'
    BY <1>1, <1>2, <1>5 DEF RetryFill, FlyPart, LockPart, ThreadPart, IsStream
  <2> QED BY <2>1, <2>2, <2>3
<1> QED BY <1>1, <1>3, <1>4, <1>5

\* The steps of the game's thread that stop and start a stream.
LEMMA StreamControl ==
    ASSUME StreamInv, CancelAlarm \/ Halt \/ Sync \/ Begin \/ Resume
    PROVE  StreamInv'
<1> USE DEF StreamInv, LockPart, ThreadPart, FlyPart, IsDrive, IsGame, IsStream,
       CommandPcs, StreamPcs, DrivePcs, Stopping, Pausing, Flying, At, Goto,
       DriveKept, CallbackKept
<1>1. CASE CancelAlarm
  BY <1>1 DEF CancelAlarm
<1>2. CASE Halt
  BY <1>2 DEF Halt, StReset
<1>3. CASE Sync
  BY <1>3 DEF Sync
<1>4. CASE Begin
  BY <1>4 DEF Begin, StReset
<1>5. CASE Resume
  BY <1>5 DEF Resume
<1> QED BY <1>1, <1>2, <1>3, <1>4, <1>5

\* Its steps that fill the buffer.
LEMMA StreamFill ==
    ASSUME StreamInv, FillTest \/ FillArguments \/ FillSubmit \/ FillNone
                      \/ FillRetry
    PROVE  StreamInv'
<1> USE DEF StreamInv, LockPart, ThreadPart, FlyPart, IsDrive, IsGame, IsStream,
       CommandPcs, StreamPcs, DrivePcs, Stopping, Pausing, Flying, At, Goto,
       DriveKept, CallbackKept
<1>1. CASE FillTest
  <2>1. CASE stm.reading
    BY <1>1, <2>1 DEF FillTest
  <2>2. CASE ~stm.reading /\ Room(stm)
    <3>1. /\ g' = [g EXCEPT !.pc = "args", !.slot = stm.wr]
          /\ stm' = [stm EXCEPT !.reading = TRUE, !.alarm = FALSE]
          /\ UNCHANGED <<drv, cbSet, rt, cur, reason, cbAlarm, userReads>>
          /\ g.pc = "fill" /\ stm.stat
      BY <1>1, <2>2 DEF FillTest
    <3> QED BY <2>2, <3>1
  <2>3. CASE ~stm.reading /\ ~Room(stm)
    <3>1. /\ g' = [g EXCEPT !.pc = "full"]
          /\ stm' = [stm EXCEPT !.reading = TRUE, !.alarm = FALSE]
          /\ UNCHANGED <<drv, cbSet, rt, cur, reason, cbAlarm, userReads>>
          /\ g.pc = "fill" /\ stm.stat
      BY <1>1, <2>3 DEF FillTest
    <3> QED BY <2>3, <3>1
  <2> QED BY <2>1, <2>2, <2>3
<1>2. CASE FillArguments
  BY <1>2 DEF FillArguments
<1>3. CASE FillSubmit
  BY <1>3 DEF FillSubmit, Submit
<1>4. CASE FillNone
  BY <1>4 DEF FillNone
<1>5. CASE FillRetry
  BY <1>5 DEF FillRetry
<1> QED BY <1>1, <1>2, <1>3, <1>4, <1>5

\* Its steps that take sectors out.
LEMMA StreamTake ==
    ASSUME StreamInv, Await \/ ClearEvent \/ Copy \/ StartDma \/ EndDma
    PROVE  StreamInv'
<1> USE DEF StreamInv, LockPart, ThreadPart, FlyPart, IsDrive, IsGame, IsStream,
       CommandPcs, StreamPcs, DrivePcs, Stopping, Pausing, Flying, At, Goto,
       DriveKept, CallbackKept
<1>1. CASE Await
  BY <1>1, SMTT(30) DEF Await
<1>2. CASE ClearEvent
  BY <1>2 DEF ClearEvent
<1>3. CASE Copy
  BY <1>3, ZenonT(60) DEF Copy, Deliver, Consumed
<1>4. CASE StartDma
  BY <1>4, ZenonT(60) DEF StartDma, Deliver
<1>5. CASE EndDma
  BY <1>5, ZenonT(60) DEF EndDma, Deliver, Consumed
<1> QED BY <1>1, <1>2, <1>3, <1>4, <1>5

\* Its own use of the drive.
LEMMA StreamDrive ==
    ASSUME StreamInv, \/ CdRead \/ CdReadWait
                      \/ CommandReason \/ CommandClear \/ CommandArm
    PROVE  StreamInv'
<1> USE DEF StreamInv, LockPart, ThreadPart, FlyPart, IsDrive, IsGame, IsStream,
       CommandPcs, StreamPcs, DrivePcs, Stopping, Pausing, Flying, At, Goto,
       DriveKept, CallbackKept
<1>1. CASE CdRead
  BY <1>1 DEF CdRead, Submit
<1>2. CASE CdReadWait
  BY <1>2 DEF CdReadWait
<1>3. CASE CommandReason
  BY <1>3 DEF CommandReason
<1>4. CASE CommandClear
  BY <1>4 DEF CommandClear
<1>5. CASE CommandArm
  BY <1>5 DEF CommandArm
<1> QED BY <1>1, <1>2, <1>3, <1>4, <1>5

LEMMA StreamCall ==
    ASSUME StreamInv, Call, Apart PROVE StreamInv'
<1> USE DEF StreamInv, LockPart, ThreadPart, FlyPart, IsDrive, IsGame, IsStream,
       CommandPcs, StreamPcs, DrivePcs, Stopping, Pausing, Flying, At,
       DriveKept, CallbackKept, Enter, MayUse
<1>1. CASE CallInit
  BY <1>1 DEF CallInit
<1>2. CASE CallStop
  BY <1>2, ZenonT(60) DEF CallStop
<1>3. CASE CallPause
  BY <1>3, ZenonT(60) DEF CallPause
<1>4. CASE CallResume
  BY <1>4, ZenonT(60) DEF CallResume
<1>5. CASE CallStart
  <2>1. PICK l \in StartLsns :
          g' = [g EXCEPT !.pc = IF stm.stat THEN "cancel" ELSE "begin",
                         !.op = "StStart", !.lsn = l, !.got = 0, !.err = "NO"]
    BY <1>5 DEF CallStart
  <2>2. /\ IsGame(g') /\ g'.op = "StStart" /\ g'.lsn \in StartLsns
        /\ g'.pc = IF stm.stat THEN "cancel" ELSE "begin"
    BY <2>1
  <2> QED BY <1>5, <2>2 DEF CallStart
<1>6. CASE CallRead
  <2>1. PICK r \in Reads :
          g' = [g EXCEPT !.pc = IF stm.stat THEN "await" ELSE "idle",
                         !.op = "StRead", !.ask = r, !.got = 0, !.err = "NO"]
    BY <1>6 DEF CallRead
  <2>2. /\ IsGame(g') /\ g'.op = "StRead"
        /\ g'.pc = IF stm.stat THEN "await" ELSE "idle"
    BY <2>1
  <2>3. g.pc = "idle" /\ UNCHANGED <<stm, cbSet, rt, cur, reason, cbAlarm,
                                     userReads>>
    BY <1>6 DEF CallRead
  <2>4. /\ IsDrive(drv') /\ drv'.locked = drv.locked /\ drv'.sema = drv.sema
        /\ drv'.req = drv.req
        /\ "CB_DONE" \in drv'.ef => "CB_DONE" \in drv.ef
    BY <1>6 DEF CallRead
  <2> QED BY <2>2, <2>3, <2>4
<1>7. CASE CallCdRead
  BY <1>7 DEF CallCdRead
<1>8. CASE CallSync
  BY <1>8, ZenonT(60) DEF CallSync
<1>9. CASE CallSeek
  BY <1>9 DEF CallSeek
<1>10. CASE CallStandby
  BY <1>10 DEF CallStandby
<1> QED BY <1>1, <1>2, <1>3, <1>4, <1>5, <1>6, <1>7, <1>8, <1>9, <1>10 DEF Call

\* The slot of a sector x places from the start of the buffer, round its end.
Place(x) == IF x < Bufmax THEN x ELSE x - Bufmax
\* Where a bank starts.
Aligned(w) == \E k \in 0 .. Bankmax - 1 : w = k * Banksize

\* The writer is as far before the reader as sectors are counted.
Pointers(s) ==
    /\ s.lsn \in Nat /\ s.rd \in Slot /\ Aligned(s.wr)
    /\ s.streamed \in 0 .. Bufmax
    /\ Place(s.rd + s.streamed) = s.wr

\* A bank that is asked for, or about to be, has room.
RoomPart ==
    /\ g.pc \in {"args", "submit"} => Room(stm)
    /\ stm.stat /\ drv.locked /\ Flying.to = "buffer" => Room(stm)
    /\ ~stm.stat /\ cbSet /\ drv.locked /\ stm.reading => Room(stm)

\* The progress of sceCdStRead.
CopyPart ==
    /\ g.pc \in {"await", "clearSt", "copy", "dma"} =>
         g.ask.n \in Nat /\ g.got \in Nat /\ g.got < g.ask.n
    /\ g.pc = "dma" => g.taken \in 1 .. stm.streamed

\* The progress of a read.
WholeRequest(r) ==
    \/ r = GameRead
    \/ r = FillRequest(r.lsn, r.slot) /\ r.lsn \in Nat /\ Aligned(r.slot)
ReadPart ==
    /\ slots \in [Slot -> Int] /\ faults \in Nat
    /\ WholeRequest(drv.req) /\ WholeRequest(cur.req)
    /\ cur = [req |-> cur.req, done |-> cur.done]
    /\ cur.done \in 0 .. cur.req.n
    /\ rt = "read" => cur.done < cur.req.n
    /\ rt \in {"reason", "clear", "arm", "end"} => cur.done = cur.req.n
    /\ rt # "wait" /\ cur.req.to = "buffer" =>
         \A j \in 0 .. cur.done - 1 :
           slots[cur.req.slot + j] = cur.req.lsn + j

\* What is counted is what the game gets next.
QueuePart ==
    /\ from \in Nat /\ out \in Seq(Int)
    /\ stm.stat =>
         /\ stm.lsn = from + Len(out) + stm.streamed
         /\ \A i \in 0 .. stm.streamed - 1 :
              slots[Place(stm.rd + i)] = from + Len(out) + i

BufferInv == Pointers(stm) /\ RoomPart /\ CopyPart /\ ReadPart /\ QueuePart

\* A read that fails or ends beyond the disc counts as a full bank
\* (streaming.c); here none does.
NothingFails == MediaEnd = 0 /\ MaxFaults = 0

----------------------------------------------------------------------------

LEMMA Sizes ==
    /\ Bufmax \in Nat /\ Banksize \in Nat /\ Banksize >= 1
    /\ Banksize <= Bufmax /\ Bankmax \in Nat
<1>1. Bankmax \in Nat /\ Bankmax >= 1 /\ Banksize \in Nat /\ Banksize >= 1
  BY DriveAssumption
<1>2. Bankmax * Banksize \in Nat /\ Banksize <= Bankmax * Banksize
  BY <1>1
<1> QED BY <1>1, <1>2 DEF Bufmax

\* A bank is inside the buffer, and another begins where it ends.
LEMMA BankFits ==
    ASSUME NEW w, Aligned(w)
    PROVE  /\ w \in Slot /\ w \in Nat /\ w + Banksize <= Bufmax
           /\ Wrap(w + Banksize) =
                IF w + Banksize = Bufmax THEN 0 ELSE w + Banksize
           /\ Aligned(Wrap(w + Banksize))
<1>0. Bankmax \in Nat /\ Bankmax >= 1 /\ Banksize \in Nat /\ Banksize >= 1
  BY DriveAssumption
<1>1. PICK k \in 0 .. Bankmax - 1 : w = k * Banksize
  BY DEF Aligned
<1>2. /\ k * Banksize \in Nat
      /\ k * Banksize + Banksize = (k + 1) * Banksize
  BY <1>0
<1>3. (k + 1) * Banksize <= Bankmax * Banksize
  BY <1>0
<1>4. w \in Slot /\ w \in Nat /\ w + Banksize <= Bufmax
  BY <1>0, <1>1, <1>2, <1>3, Sizes DEF Slot, Bufmax
<1>5. Wrap(w + Banksize) = IF w + Banksize = Bufmax THEN 0 ELSE w + Banksize
  BY <1>4, Sizes DEF Wrap
<1>6. CASE w + Banksize = Bufmax
  <2>1. 0 \in 0 .. Bankmax - 1 /\ 0 = 0 * Banksize
    BY <1>0
  <2> QED BY <1>4, <1>5, <1>6, <2>1 DEF Aligned
<1>7. CASE w + Banksize # Bufmax
  <2>1. k + 1 # Bankmax
    BY <1>1, <1>2, <1>7 DEF Bufmax
  <2>2. k + 1 \in 0 .. Bankmax - 1
    BY <1>0, <2>1
  <2> QED BY <1>1, <1>2, <1>4, <1>5, <1>7, <2>2 DEF Aligned
<1> QED BY <1>4, <1>5, <1>6, <1>7

LEMMA FirstBank == Aligned(0)
<1>1. 0 \in 0 .. Bankmax - 1 /\ 0 = 0 * Banksize
  BY DriveAssumption
<1> QED BY <1>1 DEF Aligned

LEMMA PlaceIsMod ==
    ASSUME NEW x \in Nat, x < 2 * Bufmax
    PROVE  x % Bufmax = Place(x) /\ Place(x) \in Slot
<1>1. Bufmax \in Nat /\ Bufmax >= 1
  BY Sizes
<1>2. CASE x < Bufmax
  BY <1>1, <1>2 DEF Place, Slot
<1>3. CASE x >= Bufmax
  <2>1. (x - Bufmax) % Bufmax = x - Bufmax
    BY <1>1, <1>3
  <2>2. x % Bufmax = (x - Bufmax) % Bufmax
    BY <1>1, <1>3
  <2> QED BY <1>1, <1>3, <2>1, <2>2 DEF Place, Slot
<1> QED BY <1>1, <1>2, <1>3

\* StmCallback and AllocBank: the bank that is counted follows the others.
LEMMA CountedBank ==
    ASSUME NEW s, IsStream(s), Pointers(s), s.reading = TRUE, Room(s)
    PROVE  /\ Pointers(Counted(s)) /\ IsStream(Counted(s))
           /\ Counted(s).lsn = s.lsn + Banksize
           /\ Counted(s).streamed = s.streamed + Banksize
           /\ Counted(s).rd = s.rd
           /\ s.streamed + Banksize <= Bufmax
           /\ \A j \in 0 .. Banksize - 1 :
                Place(s.rd + (s.streamed + j)) = s.wr + j
<1>1. /\ Counted(s).lsn = s.lsn + Banksize
      /\ Counted(s).streamed = s.streamed + Banksize
      /\ Counted(s).wr = Wrap(s.wr + Banksize)
      /\ Counted(s).rd = s.rd /\ IsStream(Counted(s))
  BY DEF Counted, IsStream
<1>2. /\ s.wr \in Nat /\ s.wr + Banksize <= Bufmax
      /\ Wrap(s.wr + Banksize) =
           IF s.wr + Banksize = Bufmax THEN 0 ELSE s.wr + Banksize
      /\ Aligned(Wrap(s.wr + Banksize))
  BY BankFits DEF Pointers
<1>3. /\ s.rd \in 0 .. Bufmax - 1 /\ s.lsn \in Nat
      /\ s.streamed \in 0 .. Bufmax
      /\ s.streamed + Banksize <= Bufmax
      /\ Place(s.rd + s.streamed) = s.wr
  BY Sizes DEF Pointers, Slot, Room
<1>4. \A j \in 0 .. Banksize - 1 :
        Place(s.rd + (s.streamed + j)) = s.wr + j
  BY <1>2, <1>3, Sizes DEF Place
<1>5. Place(s.rd + (s.streamed + Banksize)) = Wrap(s.wr + Banksize)
  BY <1>2, <1>3, Sizes DEF Place
<1>6. Pointers(Counted(s))
  BY <1>1, <1>2, <1>3, <1>5, Sizes DEF Pointers, Slot
<1> QED BY <1>1, <1>3, <1>4, <1>6

\* ReadSectors takes no more than there is, nor more than asked.
LEMMA TakesWhatThereIs ==
    ASSUME NEW s, Pointers(s), NEW max \in Nat
    PROVE  /\ Takes(s, max) \in Nat /\ Takes(s, max) <= s.streamed
           /\ Takes(s, max) <= max
<1>1. /\ s.rd \in 0 .. Bufmax - 1 /\ s.streamed \in 0 .. Bufmax
      /\ s.wr \in 0 .. Bufmax - 1
      /\ Place(s.rd + s.streamed) = s.wr
  BY BankFits DEF Pointers, Slot
<1> DEFINE tail == IF s.wr <= s.rd /\ s.streamed > 0
                     THEN Lesser(Bufmax - s.rd, max) ELSE 0
           rd == Wrap(s.rd + tail)
           head == IF tail < max /\ rd < s.wr
                     THEN Lesser(s.wr - rd, max - tail) ELSE 0
<1>2. Takes(s, max) = tail + head
  BY DEF Takes
<1>3. CASE s.wr <= s.rd /\ s.streamed > 0
  <2>1. s.streamed = (Bufmax - s.rd) + s.wr
    BY <1>1, <1>3, Sizes DEF Place
  <2>2. CASE Bufmax - s.rd < max
    <3>1. tail = Bufmax - s.rd /\ rd = 0
      BY <1>1, <1>3, <2>2, Sizes DEF Lesser, Wrap
    <3>2. head \in Nat /\ head <= s.wr /\ head <= max - tail
      <4> HIDE DEF tail, rd
      <4> QED BY <1>1, <2>2, <3>1, Sizes DEF Lesser
    <3> HIDE DEF tail, rd, head
    <3> QED BY <1>1, <1>2, <2>1, <2>2, <3>1, <3>2, Sizes
  <2>3. CASE ~(Bufmax - s.rd < max)
    <3>1. tail = max
      BY <1>1, <1>3, <2>3, Sizes DEF Lesser
    <3>2. head = 0
      BY <3>1
    <3> HIDE DEF tail, rd, head
    <3> QED BY <1>1, <1>2, <2>1, <2>3, <3>1, <3>2, Sizes
  <2> QED BY <2>2, <2>3
<1>4. CASE ~(s.wr <= s.rd /\ s.streamed > 0)
  <2>1. tail = 0 /\ rd = s.rd
    BY <1>1, <1>4, Sizes DEF Wrap
  <2>2. s.rd < s.wr => s.streamed = s.wr - s.rd
    BY <1>1, Sizes DEF Place
  <2>3. head = IF 0 < max /\ s.rd < s.wr THEN Lesser(s.wr - s.rd, max) ELSE 0
    BY <2>1
  <2>4. head \in Nat /\ head <= s.streamed /\ head <= max
    <3> HIDE DEF tail, rd, head
    <3> QED BY <1>1, <2>2, <2>3, Sizes DEF Lesser
  <2> HIDE DEF tail, rd, head
  <2> QED BY <1>2, <2>1, <2>4
<1> QED BY <1>3, <1>4

\* Taking n sectors leaves the others where they are.
LEMMA ConsumedSectors ==
    ASSUME NEW s, IsStream(s), Pointers(s), NEW n \in 0 .. s.streamed
    PROVE  /\ Pointers(Consumed(s, n)) /\ IsStream(Consumed(s, n))
           /\ Consumed(s, n).lsn = s.lsn /\ Consumed(s, n).wr = s.wr
           /\ Consumed(s, n).streamed = s.streamed - n
           /\ \A i \in 0 .. s.streamed - n - 1 :
                Place(Consumed(s, n).rd + i) = Place(s.rd + (n + i))
<1>1. /\ s.rd \in 0 .. Bufmax - 1 /\ s.streamed \in 0 .. Bufmax
      /\ Place(s.rd + s.streamed) = s.wr /\ Bufmax \in Nat
  BY Sizes DEF Pointers, Slot
<1>2. (s.rd + n) % Bufmax = Place(s.rd + n) /\ Place(s.rd + n) \in Slot
  BY <1>1, PlaceIsMod
<1>3. /\ Consumed(s, n).rd = Place(s.rd + n)
      /\ Consumed(s, n).lsn = s.lsn /\ Consumed(s, n).wr = s.wr
      /\ Consumed(s, n).streamed = s.streamed - n /\ IsStream(Consumed(s, n))
  <2> DEFINE r == (s.rd + n) % Bufmax
  <2>1. Consumed(s, n) = [s EXCEPT !.rd = r, !.streamed = @ - n]
    BY DEF Consumed
  <2>2. r = Place(s.rd + n)
    BY <1>2
  <2> HIDE DEF r
  <2> QED BY <2>1, <2>2 DEF IsStream
<1>4. \A i \in 0 .. s.streamed - n :
        Place(Place(s.rd + n) + i) = Place(s.rd + (n + i))
  BY <1>1 DEF Place
<1>5. Place(Place(s.rd + n) + (s.streamed - n)) = Place(s.rd + s.streamed)
  BY <1>1 DEF Place
<1>6. Pointers(Consumed(s, n))
  BY <1>1, <1>2, <1>3, <1>5 DEF Pointers
<1>7. \A i \in 0 .. s.streamed - n - 1 : i \in 0 .. s.streamed - n
  BY <1>1
<1> QED BY <1>3, <1>4, <1>6, <1>7

\* What ReadSectors copies.
LEMMA ContentsAre ==
    ASSUME slots \in [Slot -> Int], NEW rd \in Slot, NEW n \in 0 .. Bufmax
    PROVE  /\ Contents(rd, n) \in Seq(Int) /\ Len(Contents(rd, n)) = n
           /\ \A i \in 1 .. n : Contents(rd, n)[i] = slots[Place(rd + (i - 1))]
<1>1. Bufmax \in Nat /\ rd \in 0 .. Bufmax - 1 /\ n \in Nat
  BY Sizes DEF Slot
<1>2. \A i \in 1 .. n : /\ (rd + i - 1) % Bufmax = Place(rd + (i - 1))
                        /\ Place(rd + (i - 1)) \in Slot
  <2>1. SUFFICES ASSUME NEW i \in 1 .. n
                 PROVE  /\ (rd + i - 1) % Bufmax = Place(rd + (i - 1))
                        /\ Place(rd + (i - 1)) \in Slot
    OBVIOUS
  <2>2. /\ rd + (i - 1) \in Nat /\ rd + (i - 1) < 2 * Bufmax
        /\ rd + i - 1 = rd + (i - 1)
    BY <1>1
  <2> QED BY <2>2, PlaceIsMod
<1>3. Contents(rd, n) = [i \in 1 .. n |-> slots[Place(rd + (i - 1))]]
  BY <1>2 DEF Contents
<1>4. \A i \in 1 .. n : slots[Place(rd + (i - 1))] \in Int
  BY <1>2
<1>5. Contents(rd, n) \in [1 .. n -> Int]
  BY <1>3, <1>4
<1>6. Contents(rd, n) \in Seq(Int)
  BY <1>1, <1>5, SeqDef
<1>7. Len(Contents(rd, n)) = n
  <2>1. DOMAIN Contents(rd, n) = 1 .. n
    BY <1>5
  <2>2. /\ DOMAIN Contents(rd, n) = 1 .. Len(Contents(rd, n))
        /\ Len(Contents(rd, n)) \in Nat
    BY <1>6, LenProperties
  <2> QED BY <1>1, <2>1, <2>2
<1> QED BY <1>3, <1>6, <1>7

LEMMA BufferInitially == ASSUME Init PROVE BufferInv
<1> USE Sizes, FirstBank DEF Init, DriveInit, StreamInit
<1>1. Pointers(stm)
  BY DEF Pointers, Slot, Place
<1>2. RoomPart /\ CopyPart
  BY DEF RoomPart, CopyPart
<1>3. ReadPart
  BY DEF ReadPart, WholeRequest, GameRead
<1>4. QueuePart
  BY DEF QueuePart
<1> QED BY <1>1, <1>2, <1>3, <1>4 DEF BufferInv

\* A step that moves neither reader nor writer.
SamePlaces ==
    /\ stm'.lsn = stm.lsn /\ stm'.wr = stm.wr /\ stm'.rd = stm.rd
    /\ stm'.streamed = stm.streamed /\ (stm'.stat => stm.stat)

LEMMA PlacesKept ==
    ASSUME Pointers(stm), QueuePart, SamePlaces, UNCHANGED <<slots, from, out>>
    PROVE  Pointers(stm') /\ QueuePart'
BY DEF Pointers, QueuePart, SamePlaces

LEMMA RequestKept ==
    ASSUME ReadPart, UNCHANGED <<rt, cur, slots, faults>>,
           WholeRequest(drv'.req)
    PROVE  ReadPart'
BY DEF ReadPart

\* The read thread reads into the room that was left for the bank.
LEMMA BufferReadThread ==
    ASSUME StreamInv, BufferInv, NothingFails, ReadThreadStep
    PROVE  BufferInv'
<1>0. /\ UNCHANGED <<stm, cbSet, g, from, out, userReads>>
      /\ ~Beyond(drv.req.lsn) /\ \A l : ~Beyond(l)
  BY DEF ReadThreadStep, gameVars, NothingFails, Beyond
<1>1. Pointers(stm') /\ CopyPart'
  BY <1>0 DEF BufferInv, CopyPart
<1>2. CASE ReadTake
  <2>1. /\ rt = "wait" /\ rt' = "read" /\ cur' = [req |-> drv.req, done |-> 0]
        /\ drv'.req = drv.req /\ drv'.locked = drv.locked /\ drv.sema = 1
        /\ UNCHANGED <<slots, faults>>
    BY <1>0, <1>2 DEF ReadTake, StreamInv, LockPart, IsDrive
  <2>2. drv.req.n >= 1 /\ drv.req.n \in Nat
    BY Sizes DEF BufferInv, ReadPart, WholeRequest, GameRead, FillRequest
  <2>3. ReadPart'
    BY <2>1, <2>2 DEF BufferInv, ReadPart
  <2>4. RoomPart'
    BY <1>0, <2>1 DEF BufferInv, RoomPart, Flying
  <2>5. QueuePart'
    BY <1>0, <2>1 DEF BufferInv, QueuePart
  <2> QED BY <1>1, <2>3, <2>4, <2>5 DEF BufferInv
<1>3. CASE ReadSector
  <2> DEFINE r == cur.req
             next == cur.done + 1
  <2>1. /\ rt = "read" /\ UNCHANGED <<drv, faults>> /\ cur'.req = r
        /\ cur' = [req |-> cur'.req, done |-> cur'.done]
        /\ cur'.done = next /\ next \in 0 .. r.n /\ r.n \in Nat
        /\ rt' = IF next = r.n THEN "reason" ELSE "read"
        /\ slots' = IF r.to = "game" THEN slots
                    ELSE [slots EXCEPT ![r.slot + cur.done] = r.lsn + cur.done]
    <3>1. /\ rt = "read" /\ UNCHANGED <<drv, faults>>
          /\ cur' = [cur EXCEPT !.done = @ + 1]
          /\ rt' = IF next = r.n \/ Beyond(r.lsn + next) THEN "reason"
                   ELSE "read"
          /\ slots' = IF r.to = "game" THEN slots
                    ELSE [slots EXCEPT ![r.slot + cur.done] = r.lsn + cur.done]
      BY <1>3 DEF ReadSector
    <3>2. r.n \in Nat /\ cur.done \in 0 .. r.n /\ cur.done < r.n
      BY <3>1, Sizes DEF BufferInv, ReadPart, WholeRequest, GameRead,
         FillRequest
    <3>3. /\ cur'.req = r /\ cur'.done = next
          /\ cur' = [req |-> cur'.req, done |-> cur'.done]
      BY <3>1 DEF BufferInv, ReadPart
    <3> QED BY <1>0, <3>1, <3>2, <3>3
  <2>2. RoomPart'
    BY <1>0, <2>1 DEF BufferInv, RoomPart, Flying
  <2>3. CASE r.to = "game"
    <3>1. ReadPart'
      BY <2>1, <2>3 DEF BufferInv, ReadPart
    <3>2. QueuePart'
      BY <1>0, <2>1, <2>3 DEF BufferInv, QueuePart
    <3> QED BY <1>1, <2>2, <3>1, <3>2 DEF BufferInv
  <2>4. CASE r.to # "game"
    <3>1. /\ r = FillRequest(r.lsn, r.slot) /\ r.lsn \in Nat
          /\ Aligned(r.slot)
      BY <2>4 DEF BufferInv, ReadPart, WholeRequest, GameRead
    <3>2. r.to = "buffer" /\ r.n = Banksize
      BY <3>1 DEF FillRequest
    <3>3. /\ r.slot \in Nat /\ r.slot + Banksize <= Bufmax
      BY <3>1, BankFits
    <3>4. r.slot + cur.done \in Slot /\ cur.done \in Nat
          /\ cur.done < Banksize
      BY <2>1, <3>2, <3>3, Sizes DEF Slot, BufferInv, ReadPart
    <3>5. slots \in [Slot -> Int]
      BY DEF BufferInv, ReadPart
    <3>6. \A p \in Slot : slots'[p] = IF p = r.slot + cur.done
                                      THEN r.lsn + cur.done ELSE slots[p]
      BY <2>1, <2>4, <3>4, <3>5
    <3>7. slots' \in [Slot -> Int]
      BY <2>1, <2>4, <3>1, <3>4, <3>5
    <3>8. \A j \in 0 .. next - 1 : slots'[r.slot + j] = r.lsn + j
      <4>1. SUFFICES ASSUME NEW j \in 0 .. next - 1
                     PROVE  slots'[r.slot + j] = r.lsn + j
        OBVIOUS
      <4>2. r.slot + j \in Slot
        BY <3>3, <3>4, Sizes DEF Slot
      <4>3. j # cur.done => slots[r.slot + j] = r.lsn + j
        BY <2>1, <3>2, <3>4 DEF BufferInv, ReadPart
      <4> QED BY <3>3, <3>4, <3>6, <4>2, <4>3
    <3>9. ReadPart'
      BY <2>1, <3>7, <3>8 DEF BufferInv, ReadPart
    <3>10. QueuePart'
      <4>1. CASE ~stm.stat
        BY <1>0, <4>1 DEF BufferInv, QueuePart
      <4>2. CASE stm.stat
        <5>1. r = FillRequest(stm.lsn, stm.wr) /\ Room(stm)
          BY <2>1, <3>2, <4>2 DEF StreamInv, LockPart, FlyPart, Flying,
             GameRead, BufferInv, RoomPart
        <5>2. r.slot = stm.wr
          BY <5>1 DEF FillRequest
        <5>3. /\ stm.rd \in 0 .. Bufmax - 1 /\ stm.streamed \in Nat
              /\ stm.streamed + Banksize <= Bufmax
              /\ Place(stm.rd + stm.streamed) = stm.wr
          BY <5>1, Sizes DEF BufferInv, Pointers, Room, Slot
        <5>4. \A i \in 0 .. stm.streamed - 1 :
                /\ Place(stm.rd + i) \in Slot
                /\ Place(stm.rd + i) # stm.wr + cur.done
          BY <3>3, <3>4, <5>2, <5>3, Sizes DEF Place, Slot
        <5>5. \A i \in 0 .. stm.streamed - 1 :
                slots'[Place(stm.rd + i)] = slots[Place(stm.rd + i)]
          BY <3>6, <5>2, <5>4
        <5> QED BY <1>0, <4>2, <5>5 DEF BufferInv, QueuePart
      <4> QED BY <4>1, <4>2
    <3> QED BY <1>1, <2>2, <3>9, <3>10 DEF BufferInv
  <2> QED BY <2>3, <2>4
<1>4. CASE ReadFault
  BY <1>4 DEF ReadFault, NothingFails, BufferInv, ReadPart
<1>5. CASE ReadReason
  BY <1>0, <1>1, <1>5 DEF ReadReason, BufferInv, ReadPart, RoomPart, QueuePart,
     Flying
<1>6. CASE ReadClear
  BY <1>0, <1>1, <1>6 DEF ReadClear, BufferInv, ReadPart, RoomPart, QueuePart,
     Flying, StreamInv, LockPart, IsDrive
<1>7. CASE ReadArm
  BY <1>0, <1>1, <1>7 DEF ReadArm, BufferInv, ReadPart, RoomPart, QueuePart,
     Flying
<1> QED BY <1>2, <1>3, <1>4, <1>5, <1>6, <1>7 DEF ReadThreadStep, ReadThread


\* The event of a bank joins it to the queue; the next bank, asked for by the
\* callback or by the alarm, has room.
LEMMA BufferEvent ==
    ASSUME StreamInv, StreamInv', BufferInv, EventAlarm, MaxUserReads = 0
    PROVE  BufferInv'
<1>1. /\ EventKeeps
      /\ CommandEvent \/ PlainEvent \/ FullEvent \/ NextEvent
  BY EventForms
<1>2. faults' = faults /\ UNCHANGED <<cur, slots, from, out, cbSet>>
  BY <1>1 DEF EventAlarm, EventKeeps
<1>3. IsGame(g) /\ IsStream(stm) /\ stm.reading \in BOOLEAN /\ IsDrive(drv)
  BY DEF StreamInv, ThreadPart, LockPart
<1>4. CopyPart' \/ g.pc = "dma"
  BY <1>1, <1>3 DEF EventKeeps, BufferInv, CopyPart, IsGame
<1>5. CASE CommandEvent \/ PlainEvent
  <2>1. /\ stm' = stm /\ drv'.locked = FALSE /\ drv'.req = drv.req
        /\ g' = g \/ g'.pc = "idle"
        /\ rt' = rt \/ rt' = "wait"
    BY <1>1, <1>3, <1>5 DEF CommandEvent, PlainEvent, DriveOpen, ReadOver,
       EventKeeps, IsGame
  <2>2. Pointers(stm') /\ QueuePart'
    BY <1>2, <2>1 DEF BufferInv, QueuePart
  <2>3. ReadPart'
    BY <1>2, <2>1 DEF BufferInv, ReadPart
  <2>4. RoomPart' /\ CopyPart'
    BY <2>1 DEF BufferInv, RoomPart, CopyPart
  <2> QED BY <2>2, <2>3, <2>4 DEF BufferInv
<1>6. CASE FullEvent \/ NextEvent
  <2>1. /\ ReadOver /\ cbSet /\ (g' = g \/ g'.pc = "idle")
        /\ stm' = [Counted(stm) EXCEPT !.alarm = FALSE]
           \/ stm' = [Counted(stm) EXCEPT !.alarm = FALSE, !.reading = TRUE]
    BY <1>1, <1>3, <1>6 DEF FullEvent, NextEvent, EventKeeps, IsGame
  <2>2. CASE stm.reading = FALSE
    <3>1. Counted(stm) = stm
      BY <2>2 DEF Counted
    <3>2. SamePlaces
      <4>1. \/ stm' = [stm EXCEPT !.alarm = FALSE]
            \/ stm' = [stm EXCEPT !.alarm = FALSE, !.reading = TRUE]
        BY <2>1, <3>1
      <4> QED BY <1>3, <4>1 DEF SamePlaces, IsStream
    <3>3. Pointers(stm') /\ QueuePart'
      BY <1>2, <3>2, PlacesKept DEF BufferInv
    <3>4. CopyPart'
      BY <2>1, <3>2 DEF BufferInv, CopyPart, SamePlaces
    <3>5. ReadPart'
      <4>1. WholeRequest(drv'.req)
        BY <1>6, <3>1 DEF FullEvent, NextEvent, DriveOpen, BufferInv, ReadPart,
           WholeRequest, Pointers, FillRequest
      <4> QED BY <1>2, <2>1, <4>1 DEF BufferInv, ReadPart, ReadOver
    <3>6. RoomPart'
      <4>1. drv'.locked = TRUE => Room(stm)
        BY <1>6, <3>1 DEF FullEvent, NextEvent, DriveOpen
      <4>2. Room(stm') = Room(stm)
        BY <3>2 DEF Room, SamePlaces
      <4>3. drv'.locked \in BOOLEAN
        BY DEF StreamInv, LockPart
      <4>4. g'.pc \in {"args", "submit"} => g' = g
        BY <2>1
      <4> QED BY <4>1, <4>2, <4>3, <4>4 DEF RoomPart, BufferInv
    <3> QED BY <3>3, <3>4, <3>5, <3>6 DEF BufferInv
  <2>3. CASE stm.reading = TRUE
    <3>1. rt = "end" /\ drv.locked
      BY <2>1 DEF ReadOver
    <3>2. stm.stat => cur.req = FillRequest(stm.lsn, stm.wr)
      BY <2>1, <3>1 DEF StreamInv, FlyPart, Flying
    <3>3. Room(stm)
      BY <2>1, <2>3, <3>1, <3>2 DEF BufferInv, RoomPart, Flying, FillRequest
    <3>4. /\ Pointers(Counted(stm)) /\ IsStream(Counted(stm))
          /\ Counted(stm).lsn = stm.lsn + Banksize
          /\ Counted(stm).streamed = stm.streamed + Banksize
          /\ Counted(stm).rd = stm.rd
          /\ stm.streamed + Banksize <= Bufmax
          /\ \A j \in 0 .. Banksize - 1 :
               Place(stm.rd + (stm.streamed + j)) = stm.wr + j
      BY <1>3, <2>3, <3>3, CountedBank DEF BufferInv
    <3>5. /\ stm'.lsn = Counted(stm).lsn /\ stm'.wr = Counted(stm).wr
          /\ stm'.rd = Counted(stm).rd
          /\ stm'.streamed = Counted(stm).streamed
      BY <2>1, <3>4 DEF IsStream
    <3>6. Pointers(stm')
      BY <3>4, <3>5 DEF Pointers
    <3>7. stm'.stat = stm.stat
      BY <1>3, <2>1 DEF Counted, IsStream
    <3>8. CopyPart'
      BY <2>1, <3>4, <3>5, Sizes DEF BufferInv, CopyPart, Pointers
    <3>9. ReadPart'
      <4>1. WholeRequest(drv'.req)
        BY <1>6, <3>4 DEF FullEvent, NextEvent, DriveOpen, BufferInv, ReadPart,
           WholeRequest, Pointers, FillRequest
      <4> QED BY <1>2, <2>1, <4>1 DEF BufferInv, ReadPart, ReadOver
    <3>10. RoomPart'
      <4>1. drv'.locked = TRUE => Room(Counted(stm))
        BY <1>6 DEF FullEvent, NextEvent, DriveOpen
      <4>2. Room(stm') = Room(Counted(stm))
        BY <3>5 DEF Room
      <4>3. drv'.locked \in BOOLEAN
        BY DEF StreamInv, LockPart
      <4>4. g'.pc \notin {"args", "submit"}
        BY <2>1, <3>1 DEF StreamInv, ThreadPart
      <4> QED BY <4>1, <4>2, <4>3, <4>4 DEF RoomPart
    <3>11. QueuePart'
      <4>1. CASE ~stm.stat
        BY <1>2, <3>7, <4>1 DEF BufferInv, QueuePart
      <4>2. CASE stm.stat
        <5>1. \A j \in 0 .. Banksize - 1 : slots[stm.wr + j] = stm.lsn + j
          BY <3>1, <3>2, <4>2 DEF BufferInv, ReadPart, FillRequest
        <5>2. /\ stm.streamed \in Nat /\ stm.rd \in Nat /\ stm.lsn \in Nat
              /\ Banksize \in Nat
          BY Sizes DEF BufferInv, Pointers, Slot
        <5>3. /\ from \in Nat /\ Len(out) \in Nat
              /\ stm.lsn = from + Len(out) + stm.streamed
              /\ \A i \in 0 .. stm.streamed - 1 :
                   slots[Place(stm.rd + i)] = from + Len(out) + i
          BY <4>2, LenProperties DEF BufferInv, QueuePart
        <5>4. \A i \in 0 .. stm.streamed + Banksize - 1 :
                slots[Place(stm.rd + i)] = from + Len(out) + i
          <6>1. SUFFICES ASSUME NEW i \in 0 .. stm.streamed + Banksize - 1,
                                i >= stm.streamed
                         PROVE  slots[Place(stm.rd + i)] = from + Len(out) + i
            BY <5>2, <5>3
          <6> DEFINE j == i - stm.streamed
          <6>2. j \in 0 .. Banksize - 1 /\ i = stm.streamed + j
            BY <5>2, <6>1
          <6>3. /\ Place(stm.rd + i) = stm.wr + j
                /\ slots[stm.wr + j] = stm.lsn + j
            BY <3>4, <5>1, <6>2
          <6> QED BY <5>2, <5>3, <6>2, <6>3
        <5> QED BY <1>2, <3>4, <3>5, <5>2, <5>3, <5>4 DEF BufferInv, QueuePart
      <4> QED BY <4>1, <4>2
    <3> QED BY <3>6, <3>8, <3>9, <3>10, <3>11 DEF BufferInv
  <2> QED BY <1>3, <2>2, <2>3
<1> QED BY <1>1, <1>5, <1>6

LEMMA BufferRetry ==
    ASSUME StreamInv, StreamInv', BufferInv, StreamAlarm PROVE BufferInv'
<1>1. stm.alarm = TRUE /\ (RetryNone \/ RetryRefused \/ RetryFill)
  BY RetryForms
<1>2. UNCHANGED <<rt, cur, slots, faults, g, from, out, cbSet>>
  BY DEF StreamAlarm, gameVars
<1>3. IsStream(stm) /\ IsDrive(drv)
  BY DEF StreamInv, ThreadPart, LockPart
<1>4. SamePlaces
  BY <1>1, <1>3 DEF RetryNone, RetryRefused, RetryFill, SamePlaces, IsStream
<1>5. Pointers(stm') /\ QueuePart'
  BY <1>2, <1>4, PlacesKept DEF BufferInv
<1>6. CopyPart'
  BY <1>2, <1>4 DEF BufferInv, CopyPart, SamePlaces
<1>7. ReadPart'
  <2>1. WholeRequest(drv'.req)
    BY <1>1 DEF RetryNone, RetryRefused, RetryFill, BufferInv, ReadPart,
       WholeRequest, Pointers, FillRequest
  <2> QED BY <1>2, <2>1, RequestKept DEF BufferInv
<1>8. RoomPart'
  <2>1. Room(stm') = Room(stm)
    BY <1>4 DEF Room, SamePlaces
  <2>2. CASE RetryFill
    BY <2>1, <2>2 DEF RetryFill, RoomPart
  <2>3. CASE RetryNone \/ RetryRefused
    <3>1. drv' = drv /\ stm'.stat = stm.stat /\ stm'.reading = stm.reading
      BY <1>3, <2>3 DEF RetryNone, RetryRefused, IsStream
    <3> QED BY <1>2, <2>1, <3>1 DEF RoomPart, BufferInv, Flying
  <2> QED BY <1>1, <2>2, <2>3
<1> QED BY <1>5, <1>6, <1>7, <1>8 DEF BufferInv


\* The game's thread where it moves neither reader nor writer and asks for
\* nothing.
LEMMA BufferSame ==
    ASSUME BufferInv, DriveKept, SamePlaces, UNCHANGED <<from, out>>,
           drv'.req = drv.req \/ WholeRequest(drv'.req), CopyPart', RoomPart'
    PROVE  BufferInv'
<1>1. Pointers(stm') /\ QueuePart'
  BY PlacesKept DEF BufferInv, DriveKept
<1>2. ReadPart'
  BY RequestKept DEF BufferInv, DriveKept, ReadPart
<1> QED BY <1>1, <1>2 DEF BufferInv

\* An empty buffer.
LEMMA ResetPointers ==
    ASSUME NEW s, IsStream(s), Pointers(s)
    PROVE  /\ Pointers(StReset(s)) /\ IsStream(StReset(s))
           /\ StReset(s).lsn = s.lsn /\ StReset(s).streamed = 0
           /\ StReset(s).reading = FALSE /\ StReset(s).stat = s.stat
<1>1. /\ IsStream(StReset(s)) /\ StReset(s).wr = 0 /\ StReset(s).rd = 0
      /\ StReset(s).lsn = s.lsn /\ StReset(s).streamed = 0
      /\ StReset(s).reading = FALSE /\ StReset(s).stat = s.stat
  <2>1. StReset(s) = [lsn |-> s.lsn, wr |-> 0, rd |-> 0, streamed |-> 0,
                      reading |-> FALSE, stat |-> s.stat, alarm |-> s.alarm]
    <3>1. StReset(s) = [s EXCEPT !.wr = 0, !.rd = 0, !.streamed = 0,
                                 !.reading = FALSE]
      BY DEF StReset
    <3>2. s = [lsn |-> s.lsn, wr |-> s.wr, rd |-> s.rd,
               streamed |-> s.streamed, reading |-> s.reading,
               stat |-> s.stat, alarm |-> s.alarm]
      BY DEF IsStream
    <3> DEFINE a == s.lsn
               b == s.stat
               c == s.alarm
               w == s.wr
               x == s.rd
               y == s.streamed
               z == s.reading
    <3>3. s = [lsn |-> a, wr |-> w, rd |-> x, streamed |-> y, reading |-> z,
               stat |-> b, alarm |-> c]
      BY <3>2
    <3> HIDE DEF a, b, c, w, x, y, z
    <3>4. StReset(s) = [lsn |-> a, wr |-> 0, rd |-> 0, streamed |-> 0,
                        reading |-> FALSE, stat |-> b, alarm |-> c]
      BY <3>1, <3>3
    <3> QED BY <3>4 DEF a, b, c
  <2> QED BY <2>1 DEF IsStream
<1> QED BY <1>1, FirstBank, Sizes DEF Pointers, Slot, Place

\* The end and the start of a stream.
LEMMA BufferControl ==
    ASSUME StreamInv, StreamInv', BufferInv,
           CancelAlarm \/ Halt \/ Sync \/ Begin \/ Resume
    PROVE  BufferInv'
<1>0. /\ IsGame(g) /\ IsStream(stm) /\ IsDrive(drv) /\ IsGame(g')
      /\ UNCHANGED <<rt, cur, slots, faults, drv>>
      /\ Pointers(stm) /\ QueuePart /\ RoomPart /\ ReadPart
  BY DEF StreamInv, ThreadPart, LockPart, CancelAlarm, Halt, Sync, Begin,
     Resume, DriveKept, BufferInv
<1> USE DEF At, Goto
<1>1. ReadPart'
  BY <1>0, RequestKept DEF ReadPart
<1>2. CASE CancelAlarm
  <2>1. /\ SamePlaces /\ stm'.stat = stm.stat /\ stm'.reading = stm.reading
        /\ g'.pc = "halt" /\ UNCHANGED <<cbSet, from, out>>
    BY <1>0, <1>2 DEF CancelAlarm, IsStream, IsGame, SamePlaces
  <2>2. RoomPart'
    BY <1>0, <2>1 DEF RoomPart, SamePlaces, Room, Flying
  <2>3. CopyPart'
    BY <2>1 DEF CopyPart
  <2> QED BY <1>0, <1>1, <2>1, <2>2, <2>3, PlacesKept DEF BufferInv
<1>3. CASE Halt
  <2>0. /\ g.op \in {"StInit", "StStop", "StPause", "StStart"}
        /\ stm.stat <=> g.op # "StInit"
    BY <1>3 DEF Halt, StreamInv, ThreadPart
  <2>1. g'.pc \in {"idle", "sync"} /\ UNCHANGED <<from, out>>
    BY <1>0, <1>3 DEF Halt, IsGame
  <2>2. CopyPart'
    BY <2>1 DEF CopyPart
  <2>3. CASE g.op = "StPause"
    <3>1. stm' = [stm EXCEPT !.reading = FALSE]
      BY <1>3, <2>3 DEF Halt
    <3>2. SamePlaces /\ stm'.stat = stm.stat
      BY <1>0, <3>1 DEF IsStream, SamePlaces
    <3>3. RoomPart'
      BY <1>0, <2>0, <2>1, <2>3, <3>2 DEF RoomPart, SamePlaces, Room, Flying
    <3> QED BY <1>0, <1>1, <2>1, <2>2, <3>2, <3>3, PlacesKept DEF BufferInv
  <2>4. CASE g.op # "StPause"
    <3>1. /\ \/ stm' = StReset(stm) /\ stm.stat # TRUE
             \/ stm' = [StReset(stm) EXCEPT !.stat = FALSE]
      BY <1>3, <2>0, <2>4 DEF Halt
    <3>2. Pointers(stm') /\ stm'.reading = FALSE /\ ~stm'.stat
      <4>1. CASE stm' = StReset(stm) /\ stm.stat # TRUE
        BY <1>0, <4>1, ResetPointers DEF StreamInv, ThreadPart
      <4>2. CASE stm' = [StReset(stm) EXCEPT !.stat = FALSE]
        <5>1. /\ stm'.lsn = StReset(stm).lsn /\ stm'.wr = StReset(stm).wr
              /\ stm'.rd = StReset(stm).rd
              /\ stm'.streamed = StReset(stm).streamed
              /\ stm'.reading = StReset(stm).reading /\ stm'.stat = FALSE
          BY <1>0, <4>2, ResetPointers DEF IsStream
        <5>2. Pointers(StReset(stm)) /\ StReset(stm).reading = FALSE
          BY <1>0, ResetPointers
        <5> QED BY <5>1, <5>2 DEF Pointers
      <4> QED BY <3>1, <4>1, <4>2
    <3>3. RoomPart' /\ QueuePart'
      BY <1>0, <2>1, <3>2 DEF RoomPart, QueuePart
    <3> QED BY <1>1, <2>2, <3>2, <3>3 DEF BufferInv
  <2> QED BY <2>3, <2>4
<1>4. CASE Sync
  <2>1. /\ stm' = stm /\ g'.pc \in {"begin", "idle"}
        /\ UNCHANGED <<cbSet, from, out>>
    BY <1>0, <1>4 DEF Sync, IsGame
  <2>2. RoomPart' /\ CopyPart' /\ QueuePart'
    BY <1>0, <2>1 DEF RoomPart, CopyPart, Flying, QueuePart
  <2> QED BY <1>0, <1>1, <2>1, <2>2 DEF BufferInv
<1>5. CASE Begin
  <2>1. /\ stm' = [StReset(stm) EXCEPT !.lsn = g.lsn, !.stat = TRUE]
        /\ g'.pc = "fill" /\ from' = g.lsn /\ out' = <<>>
        /\ g.lsn \in Nat
    BY <1>0, <1>5, StreamAssumption DEF Begin, IsGame, StreamInv, ThreadPart
  <2>2. /\ stm'.lsn = g.lsn /\ stm'.wr = StReset(stm).wr
        /\ stm'.rd = StReset(stm).rd
        /\ stm'.streamed = StReset(stm).streamed /\ stm'.stat = TRUE
    BY <1>0, <2>1, ResetPointers DEF IsStream
  <2>3. Pointers(StReset(stm)) /\ StReset(stm).streamed = 0
    BY <1>0, ResetPointers
  <2>4. Pointers(stm')
    BY <2>1, <2>2, <2>3 DEF Pointers
  <2>5. QueuePart'
    BY <2>1, <2>2, <2>3 DEF QueuePart
  <2>6. drv.locked => Flying.to = "game"
    BY <1>5 DEF Begin, StreamInv, ThreadPart, FlyPart, Stopping, GameRead
  <2>7. RoomPart' /\ CopyPart'
    BY <1>0, <2>1, <2>2, <2>6 DEF RoomPart, CopyPart, Flying
  <2> QED BY <1>1, <2>4, <2>5, <2>7 DEF BufferInv
<1>6. CASE Resume
  <2>1. stm' = stm /\ g'.pc = "fill" /\ UNCHANGED <<from, out>> /\ stm.stat
    BY <1>0, <1>6 DEF Resume, IsGame, StreamInv, ThreadPart, StreamPcs
  <2>2. RoomPart' /\ CopyPart' /\ QueuePart'
    BY <1>0, <2>1 DEF RoomPart, CopyPart, Flying, QueuePart
  <2> QED BY <1>0, <1>1, <2>1, <2>2 DEF BufferInv
<1> QED BY <1>2, <1>3, <1>4, <1>5, <1>6

\* Filling by the game's thread: room is looked at before a bank is asked for.
LEMMA BufferFill ==
    ASSUME StreamInv, StreamInv', BufferInv,
           FillTest \/ FillArguments \/ FillSubmit \/ FillNone \/ FillRetry
    PROVE  BufferInv'
<1>0. /\ IsGame(g) /\ IsStream(stm) /\ IsDrive(drv) /\ DriveKept
      /\ UNCHANGED <<rt, cur, slots, faults, cbSet, from, out>>
      /\ stm.stat /\ RoomPart /\ ReadPart /\ Pointers(stm)
  BY DEF StreamInv, ThreadPart, LockPart, FillTest, FillArguments, FillSubmit,
     FillNone, FillRetry, DriveKept, BufferInv, At, StreamPcs
<1>1. SamePlaces /\ stm'.stat = stm.stat
  BY <1>0 DEF FillTest, FillArguments, FillSubmit, FillNone, FillRetry,
     SamePlaces, IsStream
<1>2. Room(stm') = Room(stm)
  BY <1>1 DEF SamePlaces, Room
<1>3. CopyPart'
  BY <1>0 DEF FillTest, FillArguments, FillSubmit, FillNone, FillRetry,
     CopyPart, IsGame, At, Goto
<1>4. CASE FillSubmit
  <2>1. g.slot = stm.wr /\ g.lsn = stm.lsn /\ Room(stm)
        /\ drv' = Submit(drv, FillRequest(g.lsn, g.slot))
        /\ g'.pc \in {"refused", "idle"}
    BY <1>0, <1>4 DEF FillSubmit, At, Goto, IsGame, StreamInv, ThreadPart,
       RoomPart
  <2>2. drv'.req = drv.req \/ drv'.req = FillRequest(stm.lsn, stm.wr)
    BY <2>1 DEF Submit
  <2>3. drv'.req = drv.req \/ WholeRequest(drv'.req)
    BY <1>0, <2>2 DEF WholeRequest, FillRequest, Pointers
  <2>4. RoomPart'
    BY <1>0, <1>1, <1>2, <2>1 DEF RoomPart
  <2> QED BY <1>0, <1>1, <1>3, <2>3, <2>4, BufferSame
<1>5. CASE ~FillSubmit
  <2>1. /\ drv' = drv /\ (g'.pc \in {"args", "submit"} => Room(stm))
    BY <1>0, <1>5 DEF FillTest, FillArguments, FillNone, FillRetry, At, Goto,
       IsGame, RoomPart
  <2>2. RoomPart'
    BY <1>0, <1>1, <1>2, <2>1 DEF RoomPart, Flying
  <2> QED BY <1>0, <1>1, <1>3, <2>1, <2>2, BufferSame
<1> QED BY <1>4, <1>5

\* n sectors are copied out of the buffer.
LEMMA BufferDeliver ==
    ASSUME StreamInv, StreamInv', BufferInv, NEW n \in 0 .. stm.streamed,
           Deliver(n), stm' = Consumed(stm, n), stm.stat, DriveKept,
           g.got \in Nat, g.ask.n \in Nat, g.pc \notin {"args", "submit"},
           UNCHANGED <<drv, cbSet, from>>
    PROVE  BufferInv'
<1>0. /\ IsGame(g) /\ IsStream(stm) /\ ReadPart /\ RoomPart /\ QueuePart
      /\ Pointers(stm) /\ UNCHANGED <<rt, cur, slots, faults>>
  BY DEF StreamInv, ThreadPart, BufferInv, DriveKept
<1>1. /\ Pointers(stm') /\ stm'.lsn = stm.lsn
      /\ stm'.streamed = stm.streamed - n
      /\ \A i \in 0 .. stm.streamed - n - 1 :
           Place(stm'.rd + i) = Place(stm.rd + (n + i))
  BY <1>0, ConsumedSectors
<1>2. stm'.stat = stm.stat
  BY <1>0 DEF Consumed, IsStream
<1>3. /\ stm.rd \in Slot /\ stm.streamed \in 0 .. Bufmax /\ n \in 0 .. Bufmax
      /\ slots \in [Slot -> Int] /\ Bufmax \in Nat
  BY <1>0, Sizes DEF Pointers, ReadPart
<1>4. Contents(stm.rd, n) \in Seq(Int) /\ Len(Contents(stm.rd, n)) = n
  BY <1>3, ContentsAre
<1>5. out' \in Seq(Int) /\ Len(out') = Len(out) + n /\ Len(out) \in Nat
  <2>1. out' = out \o Contents(stm.rd, n) /\ out \in Seq(Int)
    BY <1>0 DEF Deliver, QueuePart
  <2>2. Len(out) \in Nat
    BY <2>1, LenProperties
  <2>3. /\ out \o Contents(stm.rd, n) \in Seq(Int)
        /\ Len(out \o Contents(stm.rd, n)) = Len(out) + Len(Contents(stm.rd, n))
    BY <1>4, <2>1, ConcatProperties
  <2> QED BY <1>4, <2>1, <2>2, <2>3
<1>6. QueuePart'
  <2>1. \A i \in 0 .. stm.streamed - n - 1 :
          slots[Place(stm'.rd + i)] = from + Len(out) + n + i
    <3>1. SUFFICES ASSUME NEW i \in 0 .. stm.streamed - n - 1
                   PROVE  slots[Place(stm'.rd + i)] = from + Len(out) + n + i
      OBVIOUS
    <3>2. n + i \in 0 .. stm.streamed - 1
      BY <1>3
    <3>3. slots[Place(stm.rd + (n + i))] = from + Len(out) + (n + i)
      BY <1>0, <3>2 DEF QueuePart
    <3> QED BY <1>0, <1>1, <1>3, <1>5, <3>3, SMTT(30) DEF QueuePart
  <2> QED BY <1>0, <1>1, <1>3, <1>5, <2>1 DEF QueuePart
<1>7. CopyPart'
  <2>1. /\ g'.pc = IF g.got + n < g.ask.n /\ g.ask.block THEN "await"
                   ELSE "fill"
        /\ g'.got = g.got + n /\ g'.ask = g.ask
    BY <1>0 DEF Deliver, IsGame
  <2> QED BY <1>3, <2>1 DEF CopyPart
<1>8. RoomPart'
  <2>1. g'.pc \notin {"args", "submit"}
    BY <1>0 DEF Deliver, IsGame
  <2>2. Room(stm) => Room(stm')
    BY <1>1, <1>3, Sizes DEF Room
  <2> QED BY <1>0, <1>2, <2>1, <2>2 DEF RoomPart, Flying
<1>9. ReadPart'
  BY <1>0, RequestKept DEF ReadPart
<1> QED BY <1>1, <1>6, <1>7, <1>8, <1>9 DEF BufferInv

LEMMA BufferTake ==
    ASSUME StreamInv, StreamInv', BufferInv,
           Await \/ ClearEvent \/ Copy \/ StartDma \/ EndDma
    PROVE  BufferInv'
<1>0. /\ IsGame(g) /\ IsStream(stm) /\ IsDrive(drv) /\ DriveKept /\ CopyPart
      /\ UNCHANGED <<rt, cur, slots, faults, cbSet, from>>
      /\ stm.stat /\ RoomPart /\ ReadPart /\ Pointers(stm)
      /\ g.pc \in {"await", "clearSt", "copy", "dma"}
      /\ g.ask.n \in Nat /\ g.got \in Nat /\ g.got < g.ask.n
  BY DEF StreamInv, ThreadPart, LockPart, Await, ClearEvent, Copy, StartDma,
     EndDma, DriveKept, BufferInv, At, StreamPcs, CopyPart
<1> DEFINE n == Takes(stm, g.ask.n - g.got)
<1>1. n \in 0 .. stm.streamed
  <2>1. g.ask.n - g.got \in Nat /\ stm.streamed \in Nat
    BY <1>0, Sizes DEF Pointers
  <2> QED BY <1>0, <2>1, TakesWhatThereIs
<1>2. CASE Await \/ ClearEvent
  <2>1. /\ stm' = stm /\ g'.pc \in {"clearSt", "copy"} /\ drv'.req = drv.req
        /\ drv'.locked = drv.locked /\ g'.ask = g.ask /\ g'.got = g.got
        /\ UNCHANGED <<from, out>>
    BY <1>0, <1>2 DEF Await, ClearEvent, At, Goto, IsGame, IsDrive
  <2>2. CopyPart' /\ RoomPart'
    BY <1>0, <2>1 DEF CopyPart, RoomPart, Flying
  <2> QED BY <1>0, <2>1, <2>2, BufferSame DEF SamePlaces
<1>3. CASE Copy
  BY <1>0, <1>1, <1>3, BufferDeliver DEF Copy, At
<1>4. CASE StartDma
  <2>0. stm' = stm /\ UNCHANGED drv
    BY <1>4 DEF StartDma
  <2>1. CASE n = 0
    <3>1. Deliver(0) /\ UNCHANGED <<drv, cbSet, from>> /\ g.pc = "copy"
      BY <1>4, <2>1 DEF StartDma, At
    <3>2. stm' = Consumed(stm, 0)
      <4>1. stm.rd \in 0 .. Bufmax - 1 /\ stm.streamed \in Nat /\ Bufmax \in Nat
        BY <1>0, Sizes DEF Pointers, Slot
      <4>2. (stm.rd + 0) % Bufmax = stm.rd /\ stm.streamed - 0 = stm.streamed
        BY <4>1
      <4>3. Consumed(stm, 0) = [stm EXCEPT !.rd = stm.rd,
                                           !.streamed = stm.streamed]
        BY <4>2 DEF Consumed
      <4> QED BY <1>0, <2>0, <4>3 DEF IsStream
    <3> QED BY <1>0, <1>1, <2>1, <3>1, <3>2, BufferDeliver
  <2>2. CASE n # 0
    <3>1. /\ g'.pc = "dma" /\ g'.taken = n /\ out' = out /\ from' = from
          /\ g'.ask = g.ask /\ g'.got = g.got
      BY <1>0, <1>4, <2>2 DEF StartDma, IsGame
    <3>2. CopyPart' /\ RoomPart'
      BY <1>0, <1>1, <2>0, <2>2, <3>1 DEF CopyPart, RoomPart, Flying
    <3> QED BY <1>0, <2>0, <3>1, <3>2, BufferSame DEF SamePlaces
  <2> QED BY <2>1, <2>2
<1>5. CASE EndDma
  <2>1. g.taken \in 0 .. stm.streamed
    BY <1>0, <1>5, Sizes DEF EndDma, At, CopyPart, Pointers
  <2> QED BY <1>0, <1>5, <2>1, BufferDeliver DEF EndDma, At
<1> QED BY <1>2, <1>3, <1>4, <1>5


LEMMA BufferDrive ==
    ASSUME StreamInv, StreamInv', BufferInv,
           \/ CdRead \/ CdReadWait
           \/ CommandReason \/ CommandClear \/ CommandArm
    PROVE  BufferInv'
<1>0. /\ IsGame(g) /\ IsDrive(drv) /\ DriveKept
      /\ UNCHANGED <<stm, from, out, cbSet>> /\ ~stm.stat /\ ~cbSet
  BY DEF StreamInv, ThreadPart, LockPart, CdRead, CdReadWait, CommandReason,
     CommandClear, CommandArm, DrivePcs, CommandPcs, At
<1>1. g'.pc \notin {"args", "submit", "await", "clearSt", "copy", "dma"}
  BY <1>0 DEF CdRead, CdReadWait, CommandReason, CommandClear, CommandArm,
     Goto, IsGame
<1>2. CopyPart' /\ RoomPart'
  BY <1>0, <1>1 DEF CopyPart, RoomPart
<1>3. drv'.req = drv.req \/ drv'.req = GameRead
  BY <1>0 DEF CdRead, CdReadWait, CommandReason, CommandClear, CommandArm,
     Submit, IsDrive
<1> QED BY <1>0, <1>2, <1>3, BufferSame DEF SamePlaces, WholeRequest

LEMMA BufferCall ==
    ASSUME StreamInv, StreamInv', BufferInv, Call PROVE BufferInv'
<1>0. /\ IsGame(g) /\ IsDrive(drv) /\ DriveKept /\ RoomPart
      /\ UNCHANGED <<stm, from, out, cbSet>>
  BY DEF StreamInv, ThreadPart, LockPart, Call, CallInit, CallStop, CallPause,
     CallResume, CallStart, CallRead, CallCdRead, CallSync, CallSeek,
     CallStandby, Enter, BufferInv
<1>1. drv'.req = drv.req /\ drv'.locked = drv.locked
  BY <1>0 DEF Call, CallInit, CallStop, CallPause, CallResume, CallStart,
     CallRead, CallCdRead, CallSync, CallSeek, CallStandby, IsDrive
<1>2. g'.pc \notin {"args", "submit"} /\ CopyPart'
  <2>1. CASE CallRead
    <3>1. PICK r \in Reads :
            g' = [g EXCEPT !.pc = IF stm.stat THEN "await" ELSE "idle",
                           !.op = "StRead", !.ask = r, !.got = 0, !.err = "NO"]
      BY <2>1 DEF CallRead
    <3>2. r.n \in Nat \ {0}
      BY StreamAssumption DEF StreamRead
    <3>3. g'.pc \in {"await", "idle"} /\ g'.ask = r /\ g'.got = 0
      BY <1>0, <3>1 DEF IsGame
    <3> QED BY <3>2, <3>3 DEF CopyPart
  <2>2. CASE CallStart
    <3>1. PICK l \in StartLsns :
            g' = [g EXCEPT !.pc = IF stm.stat THEN "cancel" ELSE "begin",
                           !.op = "StStart", !.lsn = l, !.got = 0,
                           !.err = "NO"]
      BY <2>2 DEF CallStart
    <3>2. g'.pc \in {"cancel", "begin"}
      BY <1>0, <3>1 DEF IsGame
    <3> QED BY <3>2 DEF CopyPart
  <2>3. ASSUME NEW op, NEW pc, Enter(op, pc),
               pc \in {"idle", "cancel", "resume", "read", "sync", "reason"}
        PROVE  g'.pc \notin {"args", "submit"} /\ CopyPart'
    <3>1. g'.pc = pc
      BY <1>0, <2>3 DEF Enter, IsGame
    <3> QED BY <2>3, <3>1 DEF CopyPart
  <2>4. CASE CallInit \/ CallStop \/ CallPause \/ CallResume
    BY <2>3, <2>4 DEF CallInit, CallStop, CallPause, CallResume
  <2>5. CASE CallCdRead \/ CallSync \/ CallSeek \/ CallStandby
    BY <2>3, <2>5 DEF CallCdRead, CallSync, CallSeek, CallStandby
  <2> QED BY <2>1, <2>2, <2>4, <2>5 DEF Call
<1>3. RoomPart'
  BY <1>0, <1>1, <1>2 DEF RoomPart, Flying, DriveKept
<1> QED BY <1>0, <1>1, <1>2, <1>3, BufferSame DEF SamePlaces

\* What the game leaves alone: its own reads and commands come beside no
\* stream, and its callback starts none.
GameApart == Apart /\ MaxUserReads = 0

LEMMA StreamNext ==
    ASSUME GameApart, StreamInv, [Next]_vars PROVE StreamInv'
<1>1. CASE ReadThreadStep
  BY <1>1, StreamReadThread
<1>2. CASE EventAlarm
  BY <1>2, StreamEvent DEF GameApart
<1>3. CASE StreamAlarm
  BY <1>3, StreamRetry
<1>4. CASE GameStep
  BY <1>4, StreamControl, StreamFill, StreamTake, StreamDrive DEF GameStep
<1>5. CASE Call
  BY <1>5, StreamCall DEF GameApart
<1>6. CASE UNCHANGED vars
  BY <1>6 DEF vars, driveVars, gameVars, StreamInv, LockPart, ThreadPart,
     FlyPart, IsDrive, IsGame, IsStream, Stopping, Pausing, Flying
<1> QED BY <1>1, <1>2, <1>3, <1>4, <1>5, <1>6 DEF Next

LEMMA BufferNext ==
    ASSUME GameApart, NothingFails, StreamInv, BufferInv, [Next]_vars
    PROVE  BufferInv'
<1>0. StreamInv'
  BY StreamNext
<1>1. CASE ReadThreadStep
  BY <1>1, BufferReadThread
<1>2. CASE EventAlarm
  BY <1>0, <1>2, BufferEvent DEF GameApart
<1>3. CASE StreamAlarm
  BY <1>0, <1>3, BufferRetry
<1>4. CASE GameStep
  BY <1>0, <1>4, BufferControl, BufferFill, BufferTake, BufferDrive
     DEF GameStep
<1>5. CASE Call
  BY <1>0, <1>5, BufferCall
<1>6. CASE UNCHANGED vars
  BY <1>6 DEF vars, driveVars, gameVars, BufferInv, Pointers, RoomPart,
     CopyPart, ReadPart, QueuePart, Flying
<1> QED BY <1>1, <1>2, <1>3, <1>4, <1>5, <1>6 DEF Next

LEMMA BufferIsInOrder == ASSUME BufferInv PROVE BufferInOrder
<1> SUFFICES ASSUME stm.stat
             PROVE  /\ (stm.rd + stm.streamed) % Bufmax = stm.wr
                    /\ \A i \in 0 .. stm.streamed - 1 :
                         slots[(stm.rd + i) % Bufmax] = from + Len(out) + i
  BY DEF BufferInOrder
<1>1. /\ stm.rd \in 0 .. Bufmax - 1 /\ stm.streamed \in 0 .. Bufmax
      /\ Bufmax \in Nat /\ Place(stm.rd + stm.streamed) = stm.wr
  BY Sizes DEF BufferInv, Pointers, Slot
<1>2. \A i \in 0 .. stm.streamed :
        (stm.rd + i) % Bufmax = Place(stm.rd + i)
  <2>1. SUFFICES ASSUME NEW i \in 0 .. stm.streamed
                 PROVE  (stm.rd + i) % Bufmax = Place(stm.rd + i)
    OBVIOUS
  <2>2. stm.rd + i \in Nat /\ stm.rd + i < 2 * Bufmax
    BY <1>1
  <2> QED BY <2>2, PlaceIsMod
<1>3. (stm.rd + stm.streamed) % Bufmax = stm.wr
  BY <1>1, <1>2
<1>4. \A i \in 0 .. stm.streamed - 1 :
        slots[(stm.rd + i) % Bufmax] = from + Len(out) + i
  <2>1. \A i \in 0 .. stm.streamed - 1 : i \in 0 .. stm.streamed
    BY <1>1
  <2> QED BY <1>2, <2>1 DEF BufferInv, QueuePart
<1> QED BY <1>3, <1>4

\* A game that uses the drive itself only beside no stream may seek and call
\* sceCdStandby as well, whatever fails: a read that was accepted holds the
\* lock until its event (sceCdRead_internal, event_alarm_cb, cdvdman_cb_event).
THEOREM LockHeldApart == ASSUME GameApart PROVE Spec => []OneReadAtATime
<1>1. Init => StreamInv
  BY StreamInitially
<1>2. StreamInv /\ [Next]_vars => StreamInv'
  BY StreamNext
<1>3. StreamInv => OneReadAtATime
  BY DEF StreamInv, LockPart, OneReadAtATime
<1> QED BY <1>1, <1>2, <1>3, PTL DEF Spec

\* Between reader and writer of the ring buffer are the sectors of the disc
\* that the game is to get next, in order, whatever the sizes of banks and
\* buffer, and whenever the game reads, pauses, stops and starts streams
\* (AllocBank, StmCallback, StFillStreamBuffer, ReadSectors).
THEOREM StreamInOrder ==
    ASSUME GameApart, NothingFails PROVE Spec => []BufferInOrder
<1>1. Init => StreamInv /\ BufferInv
  BY StreamInitially, BufferInitially
<1>2. StreamInv /\ BufferInv /\ [Next]_vars => (StreamInv /\ BufferInv)'
  BY StreamNext, BufferNext
<1>3. BufferInv => BufferInOrder
  BY BufferIsInOrder
<1> QED BY <1>1, <1>2, <1>3, PTL DEF Spec

----------------------------------------------------------------------------
(* The ring buffer implements the queue of CdvdStreamQueue. *)

\* What is proved of the queue, for the queue of the stream.
QueueFacts == INSTANCE CdvdStreamQueue_proofs WITH
    Bank <- Banksize, Capacity <- Bufmax, Sectors <- StartLsns,
    on <- stm.stat, next <- IF stm.stat THEN stm.lsn ELSE 0,
    queue <- IF stm.stat THEN Contents(stm.rd, stm.streamed) ELSE <<>>

\* The variables of the queue.
Waiting == IF stm.stat THEN Contents(stm.rd, stm.streamed) ELSE <<>>
NextLsn == IF stm.stat THEN stm.lsn ELSE 0

LEMMA SectorsOfRun ==
    ASSUME NEW f \in Nat, NEW n \in Nat
    PROVE  /\ Queue!Run(f, n) \in Seq(Nat)
           /\ Len(Queue!Run(f, n)) = n
           /\ \A i \in 1 .. n : Queue!Run(f, n)[i] = f + i - 1
BY QueueFacts!RunType DEF Queue!Run, QueueFacts!Run

LEMMA JoinedRuns ==
    ASSUME NEW f \in Nat, NEW n \in Nat, NEW m \in Nat
    PROVE  Queue!Run(f, n) \o Queue!Run(f + n, m) = Queue!Run(f, n + m)
BY QueueFacts!RunsJoin DEF Queue!Run, QueueFacts!Run

\* What waits is the run of sectors that follows those delivered.
LEMMA WaitingIsRun ==
    ASSUME BufferInv, stm.stat
    PROVE  /\ Waiting = Queue!Run(from + Len(out), stm.streamed)
           /\ from + Len(out) \in Nat /\ stm.streamed \in Nat
           /\ Len(Waiting) = stm.streamed
           /\ stm.lsn = from + Len(out) + stm.streamed
           /\ Len(out) \in Nat /\ from \in Nat
<1>1. /\ stm.rd \in Slot /\ stm.streamed \in 0 .. Bufmax
      /\ slots \in [Slot -> Int] /\ Bufmax \in Nat
      /\ out \in Seq(Int) /\ from \in Nat
      /\ stm.lsn = from + Len(out) + stm.streamed
      /\ \A i \in 0 .. stm.streamed - 1 :
           slots[Place(stm.rd + i)] = from + Len(out) + i
  BY Sizes DEF BufferInv, Pointers, ReadPart, QueuePart
<1>2. Len(out) \in Nat
  BY <1>1, LenProperties
<1> DEFINE f == from + Len(out)
           n == stm.streamed
           c == Contents(stm.rd, n)
           r == Queue!Run(f, n)
<1>3. f \in Nat /\ n \in Nat
  BY <1>1, <1>2
<1>4. /\ c \in Seq(Int) /\ Len(c) = n
      /\ \A i \in 1 .. n : c[i] = slots[Place(stm.rd + (i - 1))]
  BY <1>1, ContentsAre
<1>5. /\ r \in Seq(Int) /\ Len(r) = n
      /\ \A i \in 1 .. n : r[i] = f + i - 1
  <2>1. r \in Seq(Nat) /\ Len(r) = n /\ \A i \in 1 .. n : r[i] = f + i - 1
    BY <1>3, SectorsOfRun
  <2>2. Nat \subseteq Int
    OBVIOUS
  <2>3. r \in Seq(Int)
    BY <2>1, <2>2, SeqMonotonic, Zenon
  <2> QED BY <2>1, <2>3
<1>6. \A i \in 1 .. n : slots[Place(stm.rd + (i - 1))] = f + i - 1
  <2>1. SUFFICES ASSUME NEW i \in 1 .. n
                 PROVE  slots[Place(stm.rd + (i - 1))] = f + i - 1
    OBVIOUS
  <2>2. i - 1 \in 0 .. n - 1 /\ f + (i - 1) = f + i - 1
    BY <1>3
  <2> QED BY <1>1, <2>2
<1>7. c = r
  <2> HIDE DEF c, r
  <2>1. \A i \in 1 .. Len(c) : c[i] = r[i]
    BY <1>4, <1>5, <1>6
  <2> QED BY <1>4, <1>5, <2>1, SeqEqual
<1> QED BY <1>1, <1>2, <1>3, <1>4, <1>7 DEF Waiting

\* A step that keeps the stream, its place and what was delivered is none of
\* the queue's.
LEMMA StreamStutters ==
    ASSUME BufferInv, BufferInv', stm'.stat = stm.stat, stm.stat \in BOOLEAN,
           stm.stat => stm'.lsn = stm.lsn /\ stm'.streamed = stm.streamed,
           UNCHANGED <<from, out>>
    PROVE  UNCHANGED <<stm.stat, NextLsn, Waiting, from, out>>
<1>1. CASE ~stm.stat
  BY <1>1 DEF NextLsn, Waiting
<1>2. CASE stm.stat
  <2>1. Waiting = Queue!Run(from + Len(out), stm.streamed)
    BY <1>2, WaitingIsRun
  <2>2. BufferInv' /\ stm'.stat
    BY <1>2
  <2>3. Waiting' = Queue!Run(from' + Len(out'), stm'.streamed)
    <3>1. (BufferInv /\ stm.stat =>
             Waiting = Queue!Run(from + Len(out), stm.streamed))'
      BY WaitingIsRun, PTL
    <3> QED BY <2>2, <3>1 DEF Queue!Run
  <2>4. Waiting' = Waiting
    BY <1>2, <2>1, <2>3
  <2> QED BY <1>2, <2>4 DEF NextLsn
<1> QED BY <1>1, <1>2


\* The end of a read that fills a bank puts the bank at the end of the queue.
LEMMA EventFills ==
    ASSUME StreamInv, BufferInv, BufferInv', EventAlarm, MaxUserReads = 0
    PROVE  Queue!Fill \/ UNCHANGED <<stm.stat, NextLsn, Waiting, from, out>>
<1>1. /\ EventKeeps
      /\ CommandEvent \/ PlainEvent \/ FullEvent \/ NextEvent
  BY EventForms
<1>2. /\ UNCHANGED <<slots, from, out, cbSet>> /\ IsStream(stm)
      /\ stm.reading \in BOOLEAN /\ stm.stat \in BOOLEAN
  BY <1>1 DEF EventKeeps, StreamInv, ThreadPart
<1>3. CASE CommandEvent \/ PlainEvent
  <2>1. stm' = stm
    BY <1>3 DEF CommandEvent, PlainEvent
  <2> QED BY <1>2, <2>1, StreamStutters
<1>4. CASE FullEvent \/ NextEvent
  <2>1. /\ ReadOver /\ cbSet
        /\ stm' = [Counted(stm) EXCEPT !.alarm = FALSE]
           \/ stm' = [Counted(stm) EXCEPT !.alarm = FALSE, !.reading = TRUE]
    BY <1>4 DEF FullEvent, NextEvent
  <2>2. stm'.stat = stm.stat
    BY <1>2, <2>1 DEF Counted, IsStream
  <2>3. CASE stm.reading = FALSE
    <3>1. Counted(stm) = stm
      BY <2>3 DEF Counted
    <3>2. \/ stm' = [stm EXCEPT !.alarm = FALSE]
          \/ stm' = [stm EXCEPT !.alarm = FALSE, !.reading = TRUE]
      BY <2>1, <3>1
    <3>3. stm'.lsn = stm.lsn /\ stm'.streamed = stm.streamed
      BY <1>2, <3>2 DEF IsStream
    <3> QED BY <1>2, <2>2, <3>3, StreamStutters
  <2>4. CASE ~stm.stat
    BY <1>2, <2>2, <2>4, StreamStutters
  <2>5. CASE stm.stat /\ stm.reading = TRUE
    <3>1. cur.req = FillRequest(stm.lsn, stm.wr) /\ drv.locked /\ rt = "end"
      BY <2>1, <2>5 DEF ReadOver, StreamInv, FlyPart, Flying
    <3>2. Room(stm)
      BY <2>5, <3>1 DEF BufferInv, RoomPart, Flying, FillRequest
    <3>3. /\ IsStream(Counted(stm))
          /\ Counted(stm).lsn = stm.lsn + Banksize
          /\ Counted(stm).streamed = stm.streamed + Banksize
          /\ stm.streamed + Banksize <= Bufmax
      BY <1>2, <2>5, <3>2, CountedBank DEF BufferInv
    <3>4. /\ stm'.lsn = stm.lsn + Banksize
          /\ stm'.streamed = stm.streamed + Banksize
      BY <2>1, <3>3 DEF IsStream
    <3> DEFINE f == from + Len(out)
               n == stm.streamed
    <3>5. /\ Waiting = Queue!Run(f, n) /\ Len(Waiting) = n
          /\ f \in Nat /\ n \in Nat /\ stm.lsn = f + n
      BY <2>5, WaitingIsRun
    <3>6. Waiting' = Queue!Run(f, n + Banksize)
      <4>1. (BufferInv /\ stm.stat =>
               Waiting = Queue!Run(from + Len(out), stm.streamed))'
        BY WaitingIsRun, PTL
      <4> QED BY <1>2, <2>2, <2>5, <3>4, <4>1 DEF Queue!Run
    <3>7. Waiting' = Waiting \o Queue!Run(stm.lsn, Banksize)
      <4>1. Queue!Run(f, n) \o Queue!Run(f + n, Banksize)
              = Queue!Run(f, n + Banksize)
        BY <3>5, Sizes, JoinedRuns
      <4> QED BY <3>5, <3>6, <4>1
    <3> QED BY <1>2, <2>2, <2>5, <3>3, <3>4, <3>5, <3>7
            DEF Queue!Fill, Waiting, NextLsn
  <2> QED BY <1>2, <2>3, <2>4, <2>5
<1> QED BY <1>1, <1>3, <1>4

\* Copying takes sectors from its front.
LEMMA DeliverTakes ==
    ASSUME StreamInv, BufferInv, BufferInv', NEW n \in 0 .. stm.streamed,
           Deliver(n), stm' = Consumed(stm, n), stm.stat, UNCHANGED from
    PROVE  \/ n \in 1 .. Len(Waiting) /\ Queue!Take(n)
           \/ UNCHANGED <<stm.stat, NextLsn, Waiting, from, out>>
<1>0. /\ IsStream(stm) /\ stm.stat \in BOOLEAN /\ Pointers(stm)
      /\ out \in Seq(Int) /\ slots \in [Slot -> Int]
      /\ stm.rd \in Slot /\ n \in 0 .. Bufmax /\ n \in Nat
      /\ stm.streamed \in 0 .. Bufmax
  <2>1. IsStream(stm) /\ stm.stat \in BOOLEAN
    BY DEF StreamInv, ThreadPart
  <2>2. /\ Pointers(stm) /\ out \in Seq(Int) /\ slots \in [Slot -> Int]
    BY DEF BufferInv, QueuePart, ReadPart
  <2>3. stm.rd \in Slot /\ stm.streamed \in 0 .. Bufmax
    BY <2>2 DEF Pointers
  <2>4. n \in 0 .. Bufmax /\ n \in Nat
    BY <2>3, Sizes
  <2> QED BY <2>1, <2>2, <2>3, <2>4
<1>1. /\ stm'.lsn = stm.lsn /\ stm'.streamed = stm.streamed - n
      /\ stm'.stat = stm.stat
  BY <1>0 DEF Consumed, IsStream
<1> DEFINE c == Contents(stm.rd, n)
           f == from + Len(out)
           m == stm.streamed
<1>2. /\ c \in Seq(Int) /\ Len(c) = n
      /\ \A i \in 1 .. n : c[i] = slots[Place(stm.rd + (i - 1))]
  BY <1>0, ContentsAre
<1>3. out' = out \o c
  BY DEF Deliver
<1>4. /\ Waiting = Queue!Run(f, m) /\ Len(Waiting) = m
      /\ f \in Nat /\ m \in Nat /\ stm.lsn = f + m /\ Len(out) \in Nat
      /\ from \in Nat
  BY WaitingIsRun
<1>5. Len(out') = Len(out) + n
  BY <1>0, <1>2, <1>3, ConcatProperties
<1>6. Waiting' = Queue!Run(f + n, m - n)
  <2>1. (BufferInv /\ stm.stat =>
           Waiting = Queue!Run(from + Len(out), stm.streamed))'
    BY WaitingIsRun, PTL
  <2>2. from' + Len(out') = f + n
    BY <1>0, <1>4, <1>5
  <2> QED BY <1>1, <2>1, <2>2 DEF Queue!Run
<1>7. CASE n = 0
  <2>1. c = <<>>
    BY <1>2, <1>7, EmptySeq
  <2>2. out' = out
    BY <1>0, <1>3, <2>1, ConcatEmptySeq
  <2>3. stm'.streamed = stm.streamed
    BY <1>1, <1>4, <1>7
  <2> QED BY <1>0, <1>1, <2>2, <2>3, StreamStutters
<1>8. CASE n # 0
  <2> DEFINE w == Waiting
  <2>1. /\ w \in Seq(Nat) /\ Len(w) = m
        /\ \A i \in 1 .. m : w[i] = f + i - 1
    BY <1>4, SectorsOfRun
  <2>2. n \in 1 .. m /\ m - n \in Nat /\ f + n \in Nat
    BY <1>0, <1>4, <1>8
  <2>3. c = SubSeq(w, 1, n)
    <3>1. /\ SubSeq(w, 1, n) \in Seq(Nat) /\ Len(SubSeq(w, 1, n)) = n
          /\ \A i \in 1 .. n : SubSeq(w, 1, n)[i] = w[i]
      <4> HIDE DEF w
      <4>1. /\ 1 \in 1 .. Len(w) + 1 /\ n \in 1 - 1 .. Len(w)
        BY <2>1, <2>2
      <4>2. /\ SubSeq(w, 1, n) \in Seq(Nat)
            /\ Len(SubSeq(w, 1, n)) = n - 1 + 1
            /\ \A i \in 1 .. n - 1 + 1 : SubSeq(w, 1, n)[i] = w[1 + i - 1]
        BY <2>1, <4>1, SubSeqProperties
      <4>3. n - 1 + 1 = n /\ \A i \in 1 .. n : 1 + i - 1 = i
        BY <1>0
      <4> QED BY <4>2, <4>3
    <3>2. \A i \in 1 .. n : c[i] = f + i - 1
      <4>1. SUFFICES ASSUME NEW i \in 1 .. n PROVE c[i] = f + i - 1
        OBVIOUS
      <4>2. i - 1 \in 0 .. stm.streamed - 1
        BY <2>2, <1>4
      <4>3. slots[Place(stm.rd + (i - 1))] = from + Len(out) + (i - 1)
        BY <4>2 DEF BufferInv, QueuePart
      <4>4. from + Len(out) + (i - 1) = f + i - 1
        BY <1>4
      <4> QED BY <1>2, <4>3, <4>4
    <3>3. \A i \in 1 .. Len(c) : c[i] = SubSeq(w, 1, n)[i]
      <4> HIDE DEF c, w, f
      <4>1. SUFFICES ASSUME NEW i \in 1 .. n PROVE c[i] = SubSeq(w, 1, n)[i]
        BY <1>2
      <4>2. i \in 1 .. m
        BY <1>4, <2>2
      <4>3. w[i] = f + i - 1 /\ c[i] = f + i - 1
        BY <2>1, <3>2, <4>2
      <4> QED BY <3>1, <4>3
    <3>4. SubSeq(w, 1, n) \in Seq(Int)
      <4> HIDE DEF w
      <4>1. Nat \subseteq Int
        OBVIOUS
      <4> QED BY <3>1, <4>1, SeqMonotonic, Zenon
    <3> HIDE DEF c, w
    <3> QED BY <1>2, <3>1, <3>3, <3>4, SeqEqual
  <2>4. Waiting' = SubSeq(w, n + 1, Len(w))
    <3> DEFINE t == SubSeq(w, n + 1, m)
               r == Queue!Run(f + n, m - n)
    <3>1. /\ t \in Seq(Nat) /\ Len(t) = m - n
          /\ \A i \in 1 .. m - n : t[i] = w[n + i]
      <4> HIDE DEF w
      <4>1. n + 1 \in Int /\ m \in Int /\ \A i \in n + 1 .. m : w[i] \in Nat
        BY <1>4, <2>1, <2>2, ElementOfSeq, SMTT(30)
      <4>2. /\ t \in Seq(Nat)
            /\ Len(t) = IF n + 1 <= m THEN m - (n + 1) + 1 ELSE 0
            /\ \A i \in 1 .. m - (n + 1) + 1 : t[i] = w[(n + 1) + i - 1]
        BY <4>1, SubSeqProperties, SMTT(30)
      <4>3. /\ m - (n + 1) + 1 = m - n
            /\ \A i \in 1 .. m - n : (n + 1) + i - 1 = n + i
            /\ n + 1 <= m \/ m - n = 0
        BY <1>4, <2>2
      <4> HIDE DEF t
      <4> QED BY <4>2, <4>3
    <3>2. /\ r \in Seq(Nat) /\ Len(r) = m - n
          /\ \A i \in 1 .. m - n : r[i] = (f + n) + i - 1
      BY <2>2, SectorsOfRun
    <3>3. \A i \in 1 .. Len(t) : t[i] = r[i]
      <4> HIDE DEF t, r, w
      <4>1. SUFFICES ASSUME NEW i \in 1 .. m - n PROVE t[i] = r[i]
        BY <3>1
      <4>2. n + i \in 1 .. m /\ f + (n + i) - 1 = (f + n) + i - 1
        BY <1>4, <2>2
      <4>3. w[n + i] = f + (n + i) - 1
        BY <2>1, <4>2
      <4> QED BY <3>1, <3>2, <4>2, <4>3
    <3>4. t = r
      <4> HIDE DEF t, r
      <4> QED BY <3>1, <3>2, <3>3, SeqEqual
    <3> QED BY <1>6, <2>1, <3>4
  <2> QED BY <1>1, <1>3, <1>4, <2>2, <2>3, <2>4
          DEF Queue!Take, Waiting, NextLsn
<1> QED BY <1>7, <1>8


\* Stopping a stream empties the queue, starting one starts it anew, and the
\* rest of those calls is none of its.
LEMMA ControlRefines ==
    ASSUME StreamInv, BufferInv, BufferInv',
           CancelAlarm \/ Halt \/ Sync \/ Begin \/ Resume
    PROVE  \/ Queue!Stop \/ \E l \in StartLsns : Queue!Start(l)
           \/ UNCHANGED <<stm.stat, NextLsn, Waiting, from, out>>
<1>0. IsStream(stm) /\ stm.stat \in BOOLEAN
  BY DEF StreamInv, ThreadPart
<1>1. CASE CancelAlarm \/ Sync \/ Resume
  <2>1. /\ stm'.stat = stm.stat /\ stm'.lsn = stm.lsn
        /\ stm'.streamed = stm.streamed /\ UNCHANGED <<from, out>>
    BY <1>0, <1>1 DEF CancelAlarm, Sync, Resume, IsStream
  <2> QED BY <1>0, <2>1, StreamStutters
<1>2. CASE Halt
  <2>0. /\ g.op \in {"StInit", "StStop", "StPause", "StStart"}
        /\ stm.stat <=> g.op # "StInit"
        /\ UNCHANGED <<from, out>>
    BY <1>2 DEF Halt, At, StreamInv, ThreadPart
  <2>1. CASE g.op = "StInit"
    <3>1. stm' = StReset(stm) /\ stm.stat = FALSE
      BY <1>0, <1>2, <2>0, <2>1 DEF Halt
    <3>2. stm'.stat = stm.stat
      BY <1>0, <3>1, ResetPointers DEF BufferInv
    <3> QED BY <1>0, <2>0, <3>1, <3>2, StreamStutters
  <2>2. CASE g.op = "StPause"
    <3>1. stm' = [stm EXCEPT !.reading = FALSE]
      BY <1>2, <2>2 DEF Halt
    <3>2. /\ stm'.stat = stm.stat /\ stm'.lsn = stm.lsn
          /\ stm'.streamed = stm.streamed
      BY <1>0, <3>1 DEF IsStream
    <3> QED BY <1>0, <2>0, <3>2, StreamStutters
  <2>3. CASE g.op \in {"StStop", "StStart"}
    <3>1. stm' = [StReset(stm) EXCEPT !.stat = FALSE] /\ stm.stat = TRUE
      BY <1>0, <1>2, <2>0, <2>3 DEF Halt
    <3>2. IsStream(StReset(stm))
      BY <1>0, ResetPointers DEF BufferInv
    <3>3. stm'.stat = FALSE
      BY <3>1, <3>2 DEF IsStream
    <3> QED BY <2>0, <3>1, <3>3 DEF Queue!Stop
  <2> QED BY <2>0, <2>1, <2>2, <2>3
<1>3. CASE Begin
  <2>1. /\ stm' = [StReset(stm) EXCEPT !.lsn = g.lsn, !.stat = TRUE]
        /\ from' = g.lsn /\ out' = <<>> /\ g.lsn \in StartLsns
    BY <1>3 DEF Begin, At, StreamInv, ThreadPart
  <2>2. IsStream(StReset(stm)) /\ StReset(stm).streamed = 0
    BY <1>0, ResetPointers DEF BufferInv
  <2>3. stm'.stat = TRUE /\ stm'.lsn = g.lsn /\ stm'.streamed = 0
    BY <2>1, <2>2 DEF IsStream
  <2>4. Waiting' = <<>>
    <3>1. (BufferInv /\ stm.stat =>
             Waiting = Queue!Run(from + Len(out), stm.streamed)
             /\ from + Len(out) \in Nat /\ Len(Waiting) = stm.streamed)'
      BY WaitingIsRun, PTL
    <3>2. Waiting' = Queue!Run(from' + Len(out'), 0) /\ Len(Waiting') = 0
          /\ from' + Len(out') \in Nat
      BY <2>3, <3>1 DEF Queue!Run
    <3>3. Waiting' \in Seq(Nat)
      BY <3>2, SectorsOfRun
    <3> QED BY <3>2, <3>3, EmptySeq
  <2>5. Queue!Start(g.lsn)
    BY <2>1, <2>3, <2>4 DEF Queue!Start, Waiting
  <2> QED BY <2>1, <2>5
<1> QED BY <1>1, <1>2, <1>3

\* The other steps of the game's thread.
LEMMA TakeRefines ==
    ASSUME StreamInv, BufferInv, BufferInv',
           Await \/ ClearEvent \/ Copy \/ StartDma \/ EndDma
    PROVE  \/ \E n \in 1 .. Len(Waiting) : Queue!Take(n)
           \/ UNCHANGED <<stm.stat, NextLsn, Waiting, from, out>>
<1>0. /\ IsStream(stm) /\ stm.stat /\ stm.stat \in BOOLEAN /\ CopyPart
      /\ Pointers(stm) /\ UNCHANGED from
      /\ g.pc \in {"await", "clearSt", "copy", "dma"}
      /\ g.ask.n \in Nat /\ g.got \in Nat /\ g.got < g.ask.n
  BY DEF StreamInv, ThreadPart, Await, ClearEvent, Copy, StartDma,
     EndDma, BufferInv, At, StreamPcs, CopyPart
<1> DEFINE n == Takes(stm, g.ask.n - g.got)
<1>1. n \in 0 .. stm.streamed
  <2>1. g.ask.n - g.got \in Nat /\ stm.streamed \in Nat
    BY <1>0, Sizes DEF Pointers
  <2> QED BY <1>0, <2>1, TakesWhatThereIs
<1>2. CASE Await \/ ClearEvent
  BY <1>0, <1>2, StreamStutters DEF Await, ClearEvent
<1>3. CASE Copy
  BY <1>0, <1>1, <1>3, DeliverTakes DEF Copy
<1>4. CASE StartDma
  <2>1. stm' = stm
    BY <1>4 DEF StartDma
  <2>2. out' = out
    <3>1. CASE n # 0
      BY <1>4, <3>1 DEF StartDma
    <3>2. CASE n = 0
      <4>1. out' = out \o Contents(stm.rd, 0) /\ out \in Seq(Int)
        BY <1>4, <3>2 DEF StartDma, Deliver, BufferInv, QueuePart
      <4>2. Contents(stm.rd, 0) \in Seq(Int) /\ Len(Contents(stm.rd, 0)) = 0
        <5>1. stm.rd \in Slot /\ 0 \in 0 .. Bufmax
          BY <1>0, Sizes DEF Pointers
        <5> QED BY <5>1, ContentsAre DEF BufferInv, ReadPart
      <4> QED BY <4>1, <4>2, EmptySeq, ConcatEmptySeq
    <3> QED BY <3>1, <3>2
  <2> QED BY <1>0, <2>1, <2>2, StreamStutters
<1>5. CASE EndDma
  <2>1. g.taken \in 0 .. stm.streamed
    BY <1>0, <1>5, Sizes DEF EndDma, At, CopyPart, Pointers
  <2> QED BY <1>0, <1>5, <2>1, DeliverTakes DEF EndDma
<1> QED BY <1>2, <1>3, <1>4, <1>5

\* Every step of streaming is a step of the queue or none.
LEMMA StepRefines ==
    ASSUME GameApart, NothingFails, StreamInv, BufferInv, [Next]_vars
    PROVE  Queue!Next \/ UNCHANGED <<stm.stat, NextLsn, Waiting, from, out>>
<1>0. BufferInv' /\ IsStream(stm) /\ stm.stat \in BOOLEAN
  BY BufferNext DEF StreamInv, ThreadPart
<1>1. CASE ReadThreadStep
  BY <1>0, <1>1, StreamStutters DEF ReadThreadStep, gameVars
<1>2. CASE EventAlarm
  BY <1>0, <1>2, EventFills DEF GameApart, Queue!Next
<1>3. CASE StreamAlarm
  <2>1. RetryNone \/ RetryRefused \/ RetryFill
    BY <1>3, RetryForms
  <2>2. /\ stm'.stat = stm.stat /\ stm'.lsn = stm.lsn
        /\ stm'.streamed = stm.streamed /\ UNCHANGED <<from, out>>
    BY <1>0, <1>3, <2>1 DEF StreamAlarm, gameVars, RetryNone, RetryRefused,
       RetryFill, IsStream
  <2> QED BY <1>0, <2>2, StreamStutters
<1>4. CASE CancelAlarm \/ Halt \/ Sync \/ Begin \/ Resume
  BY <1>0, <1>4, ControlRefines DEF Queue!Next
<1>5. CASE FillTest \/ FillArguments \/ FillSubmit \/ FillNone \/ FillRetry
  <2>1. /\ stm'.stat = stm.stat /\ stm'.lsn = stm.lsn
        /\ stm'.streamed = stm.streamed /\ UNCHANGED <<from, out>>
    BY <1>0, <1>5 DEF FillTest, FillArguments, FillSubmit, FillNone, FillRetry,
       IsStream
  <2> QED BY <1>0, <2>1, StreamStutters
<1>6. CASE Await \/ ClearEvent \/ Copy \/ StartDma \/ EndDma
  <2>1. \/ \E n \in 1 .. Len(Waiting) : Queue!Take(n)
        \/ UNCHANGED <<stm.stat, NextLsn, Waiting, from, out>>
    BY <1>0, <1>6, TakeRefines
  <2> QED BY <2>1 DEF Queue!Next, Waiting
<1>7. CASE \/ CdRead \/ CdReadWait
           \/ CommandReason \/ CommandClear \/ CommandArm
  BY <1>0, <1>7, StreamStutters DEF CdRead, CdReadWait, CommandReason,
     CommandClear, CommandArm
<1>8. CASE Call
  BY <1>0, <1>8, StreamStutters DEF Call, CallInit, CallStop, CallPause,
     CallResume, CallStart, CallRead, CallCdRead, CallSync, CallSeek,
     CallStandby, Enter
<1>9. CASE UNCHANGED vars
  BY <1>9 DEF vars, driveVars, gameVars, NextLsn, Waiting, Contents
<1> QED BY <1>1, <1>2, <1>3, <1>4, <1>5, <1>6, <1>7, <1>8, <1>9
        DEF Next, GameStep

\* The ring buffer implements the queue: a bank joins it in StmCallback,
\* sectors leave it in ReadSectors and ReadSectorsEE, and no other step of the
\* drive, its interrupts or the game changes what waits in it.
THEOREM StreamIsQueue == ASSUME GameApart, NothingFails PROVE Spec => IsQueue
<1>1. Init => StreamInv /\ BufferInv
  BY StreamInitially, BufferInitially
<1>2. StreamInv /\ BufferInv /\ [Next]_vars => (StreamInv /\ BufferInv)'
  BY StreamNext, BufferNext
<1>3. Init => Queue!Init
  BY DEF Init, StreamInit, Queue!Init
<1>4. StreamInv /\ BufferInv /\ [Next]_vars => [Queue!Next]_(Queue!vars)
  BY StepRefines DEF Queue!vars, Waiting, NextLsn
<1> QED BY <1>1, <1>2, <1>3, <1>4, PTL DEF Spec, IsQueue, Queue!Spec

\* What sceCdStRead has given the game, and what waits for it, are the sectors
\* of the disc from where sceCdStStart began, none missing and none twice.
THEOREM GameGetsDisc ==
    ASSUME GameApart, NothingFails
    PROVE  Spec => []Queue!InDiscOrder
<1>1. QueueFacts!Spec => []QueueFacts!InDiscOrder
  BY QueueFacts!QueueInOrder, DriveAssumption, StreamAssumption, Sizes
     DEF QueueFacts!QueueAssumption
<1>2. Queue!Init <=> QueueFacts!Init
  BY DEF Queue!Init, QueueFacts!Init
<1>3. [Queue!Next]_(Queue!vars) <=> [QueueFacts!Next]_(QueueFacts!vars)
  BY DEF Queue!Next, QueueFacts!Next, Queue!vars, QueueFacts!vars, Queue!Start,
     QueueFacts!Start, Queue!Stop, QueueFacts!Stop, Queue!Fill, QueueFacts!Fill,
     Queue!Take, QueueFacts!Take, Queue!Run, QueueFacts!Run
<1>4. Queue!InDiscOrder <=> QueueFacts!InDiscOrder
  BY DEF Queue!InDiscOrder, QueueFacts!InDiscOrder, Queue!Run, QueueFacts!Run
<1> QED BY <1>1, <1>2, <1>3, <1>4, StreamIsQueue, PTL
        DEF IsQueue, Queue!Spec, QueueFacts!Spec
====

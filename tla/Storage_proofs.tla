---- MODULE Storage_proofs ----
(***************************************************************************)
(* The SIO2 port is one user's at a time: proofs about Storage, for every  *)
(* history of calls, files, drives and faults.                             *)
(***************************************************************************)
EXTENDS Storage, TLAPS

----------------------------------------------------------------------------
(* The invariant.                                                          *)

\* Where a caller has lock_sema, both semaphores, a transfer on the port.
OnPort == {"send", "started", "waiting", "unlock"}
Locked == {"lock2"} \cup OnPort
InTransfer == {"started", "waiting"}

\* Whoever takes lock_sema: the callers, padman, and the memory card driver.
Users == Callers \cup {"padman", "mcman"}
Has(a) ==
    \/ a \in Callers /\ call[a].pc \in Locked
    \/ a = "padman" /\ pad # "idle"
    \/ a = "mcman" /\ mc.pc \in {"asked", "answered"}
HasPort(a) ==
    \/ a \in Callers /\ call[a].pc \in OnPort
    \/ a = "padman" /\ pad \in {"sent", "told"}

\* The state is made of records with the parts that the locks are about.
Shape ==
    /\ DOMAIN call = Callers /\ \A t \in Callers : "pc" \in DOMAIN call[t]
    /\ "pc" \in DOMAIN mc
    /\ sema \in [lock_sema : {0, 1}, lock_sema2 : {0, 1}]
    /\ pad \in {"idle", "begun", "sent", "told", "over"}
    /\ alarm \in BOOLEAN

\* lock_sema is with one user or free, and only who has it asks for
\* lock_sema2.
LockInv ==
    /\ \A a, b \in Users : Has(a) /\ Has(b) => a = b
    /\ sema.lock_sema = 1 <=> \A a \in Users : ~Has(a)
    /\ sema.lock_sema2 = 1 <=> \A a \in Users : ~HasPort(a)

\* The handler in entry 17 is that of the user who has both, and the transfer
\* on the port is his.
PortInv ==
    /\ handler = IF \E t \in Callers : call[t].pc \in OnPort THEN "mmce" ELSE "sio2man"
    /\ port.by = "pad" => pad = "sent"
    /\ port.by = "mmce" => \E t \in Callers : call[t].pc \in InTransfer
    /\ port.by \notin {"pad", "mmce"} => port = Quiet

\* What is left of a transfer is of the one on the port: an alarm that has
\* rung is not set, a transfer that is complete is off the port.
FlagInv ==
    /\ (\A t \in Callers : call[t].pc \notin InTransfer) => bits = {} /\ ~alarm
    /\ resbits \subseteq bits /\ bits \subseteq {"complete", "timeout"}
    /\ "timeout" \in bits => ~alarm
    /\ "complete" \in bits => port = Quiet

\* The drive's semaphore: one reader at a time, and only while the drive is
\* there; free means that it is.
DriveInv ==
    /\ \A t \in Callers : call[t].pc = "defrag" => g_bd /\ bdm_io_sema = 0
    /\ \A t, u \in Callers : call[t].pc = "defrag" /\ call[u].pc = "defrag" => t = u
    /\ bdm_io_sema > 0 => g_bd

\* The virtual card has a call under way only while it waits for its file.
CardInv ==
    mc.pc \notin {"reading", "writing", "erasing"} => call["card"].pc = "idle"

PortLockInv == Shape /\ LockInv /\ PortInv /\ FlagInv /\ DriveInv /\ CardInv

----------------------------------------------------------------------------
(* A caller moves and the other one does not.                              *)

Moves(t, pc) ==
    /\ DOMAIN call' = Callers /\ \A u \in Callers : "pc" \in DOMAIN call'[u]
    /\ call'[t].pc = pc
    /\ \A u \in Callers : u # t => call'[u].pc = call[u].pc

LEMMA AtMoves ==
    ASSUME Shape, NEW t \in Callers, NEW pc, At(t, pc)
    PROVE  Moves(t, pc)
BY DEF Shape, At, Moves

LEMMA CallMoves ==
    ASSUME Shape, NEW t \in Callers, NEW c, "pc" \in DOMAIN c,
           call' = [call EXCEPT ![t] = c]
    PROVE  Moves(t, c.pc)
BY DEF Shape, Moves

\* A step of a caller that has neither lock and stays without, which leaves
\* the port and the drive's semaphore alone.
Apart == {"idle", "lock", "bdm", "done"}

LEMMA StaysApart ==
    ASSUME PortLockInv, Shape', NEW t \in Callers, NEW pc \in Apart,
           call[t].pc \in Apart, Moves(t, pc),
           UNCHANGED <<sema, handler, flagVars, port, pad, g_bd, bdm_io_sema>>,
           mc.pc \in {"asked", "answered"} <=> mc'.pc \in {"asked", "answered"},
           CardInv'
    PROVE  PortLockInv'
<1> USE DEF PortLockInv, Apart, Moves, flagVars
<1>1. \A u \in Callers : /\ call[u].pc \in OnPort <=> call'[u].pc \in OnPort
                         /\ call[u].pc \in Locked <=> call'[u].pc \in Locked
                         /\ call[u].pc \in InTransfer <=> call'[u].pc \in InTransfer
                         /\ call[u].pc = "defrag" <=> call'[u].pc = "defrag"
  BY DEF OnPort, Locked, InTransfer
<1>2. \A a \in Users : (Has(a) <=> Has(a)') /\ (HasPort(a) <=> HasPort(a)')
  BY <1>1 DEF Has, HasPort
<1>3. LockInv'
  BY <1>2 DEF LockInv
<1>4. PortInv' /\ FlagInv'
  BY <1>1 DEF PortInv, FlagInv
<1>5. DriveInv'
  BY <1>1 DEF DriveInv
<1> QED BY <1>3, <1>4, <1>5

\* The emulator of the virtual card works without the port.
LEMMA CardWorks ==
    ASSUME PortLockInv, Shape', UNCHANGED call,
           UNCHANGED <<sema, handler, flagVars, port, pad, g_bd, bdm_io_sema>>,
           mc.pc \in {"asked", "answered"} <=> mc'.pc \in {"asked", "answered"},
           CardInv'
    PROVE  PortLockInv'
<1> USE DEF PortLockInv, flagVars
<1>2. \A a \in Users : (Has(a) <=> Has(a)') /\ (HasPort(a) <=> HasPort(a)')
  BY DEF Has, HasPort
<1>3. LockInv'
  BY <1>2 DEF LockInv
<1>4. PortInv' /\ FlagInv' /\ DriveInv'
  BY DEF PortInv, FlagInv, DriveInv
<1> QED BY <1>3, <1>4

----------------------------------------------------------------------------
(* padman.                                                                 *)

\* Who has lock_sema has it alone.
LEMMA Alone ==
    ASSUME LockInv
    PROVE  /\ pad # "idle" => /\ \A t \in Callers : call[t].pc \notin Locked
                              /\ mc.pc \notin {"asked", "answered"}
           /\ mc.pc \in {"asked", "answered"} =>
                /\ \A t \in Callers : call[t].pc \notin Locked
                /\ pad = "idle"
           /\ \A t \in Callers : call[t].pc \in Locked =>
                /\ \A u \in Callers : u # t => call[u].pc \notin Locked
                /\ pad = "idle" /\ mc.pc \notin {"asked", "answered"}
BY DEF LockInv, Has, Users, Callers

LEMMA PadSteps ==
    ASSUME PortLockInv, PadStep
    PROVE  PortLockInv'
<1> USE DEF PortLockInv
<1>1. UNCHANGED <<call, mc, g_bd, bdm_io_sema, handler, bits, alarm, resbits>>
  BY DEF PadStep, driveVars, flagVars, PadTransferInit, PadTransfer, PadTransferDone,
         PadTransferReset
<1>2. DriveInv' /\ CardInv'
  BY <1>1 DEF DriveInv, CardInv
<1>3. CASE PadTransferInit
  <2>1. \A a \in Users : ~Has(a) /\ ~HasPort(a)
    BY <1>3 DEF PadTransferInit, Shape, LockInv, Has, HasPort, Locked, OnPort
  <2>2. Shape' /\ LockInv'
    BY <1>1, <1>3, <2>1
       DEF PadTransferInit, Taken, Shape, LockInv, Has, HasPort, Users, Callers
  <2>3. PortInv' /\ FlagInv'
    BY <1>1, <1>3 DEF PadTransferInit, PortInv, FlagInv
  <2> QED BY <1>2, <2>2, <2>3
<1>4. CASE PadTransfer
  <2>1. /\ \A t \in Callers : call[t].pc \notin Locked
        /\ mc.pc \notin {"asked", "answered"}
    BY <1>4, Alone DEF PadTransfer
  <2>2. Shape' /\ LockInv'
    BY <1>1, <1>4, <2>1
       DEF PadTransfer, Taken, Shape, LockInv, Has, HasPort, Users, Callers, Locked
  <2>3. bits = {} /\ handler = "sio2man"
    BY <2>1 DEF FlagInv, PortInv, Locked, OnPort, InTransfer
  <2>4. PortInv' /\ FlagInv'
    BY <1>1, <1>4, <2>1, <2>3 DEF PadTransfer, PortInv, FlagInv
  <2> QED BY <1>2, <2>2, <2>4
<1>5. CASE PadTransferDone
  <2>1. /\ \A t \in Callers : call[t].pc \notin Locked
        /\ mc.pc \notin {"asked", "answered"}
    BY <1>5, Alone DEF PadTransferDone
  <2>2. Shape' /\ LockInv'
    BY <1>1, <1>5, <2>1
       DEF PadTransferDone, Given, Shape, LockInv, Has, HasPort, Users, Callers, Locked
  <2>3. PortInv' /\ FlagInv'
    BY <1>1, <1>5 DEF PadTransferDone, PortInv, FlagInv
  <2> QED BY <1>2, <2>2, <2>3
<1>6. CASE PadTransferReset
  <2>1. /\ \A t \in Callers : call[t].pc \notin Locked
        /\ mc.pc \notin {"asked", "answered"}
    BY <1>6, Alone DEF PadTransferReset
  <2>2. Shape' /\ LockInv'
    BY <1>1, <1>6, <2>1
       DEF PadTransferReset, Given, Shape, LockInv, Has, HasPort, Users, Callers, Locked
  <2>3. PortInv' /\ FlagInv'
    BY <1>1, <1>6 DEF PadTransferReset, PortInv, FlagInv
  <2> QED BY <1>2, <2>2, <2>3
<1> QED BY <1>3, <1>4, <1>5, <1>6 DEF PadStep

----------------------------------------------------------------------------
(* The interrupts and the alarm.                                           *)

LEMMA PortSteps ==
    ASSUME PortLockInv, PortStep
    PROVE  PortLockInv'
<1> USE DEF PortLockInv
<1>1. UNCHANGED <<call, mc, g_bd, bdm_io_sema, handler, sema>>
  BY DEF PortStep, driveVars, mmce_sio2_intr_handler, Sio2manInterrupt,
         mmce_sio2_timeout_handler
<1>2. DriveInv' /\ CardInv'
  BY <1>1 DEF DriveInv, CardInv
<1>3. CASE mmce_sio2_intr_handler
  <2>1. UNCHANGED <<pad, alarm>> /\ port' = Quiet /\ bits' = bits \cup {"complete"}
        /\ port.st = "busy" /\ handler = "mmce" /\ resbits' = Woken(bits')
    BY <1>3 DEF mmce_sio2_intr_handler
  <2>2. Shape' /\ LockInv'
    BY <1>1, <2>1 DEF Shape, LockInv, Has, HasPort
  <2>3. PICK t \in Callers : call[t].pc \in OnPort
    BY <2>1 DEF PortInv
  <2>4. pad = "idle"
    BY <2>3, Alone DEF Locked
  <2>5. port.by = "mmce"
    BY <2>1, <2>4 DEF PortInv, Quiet
  <2>6. PortInv'
    BY <1>1, <2>1 DEF PortInv, Quiet
  <2>7. FlagInv'
    BY <1>1, <2>1, <2>5 DEF PortInv, FlagInv, Woken
  <2> QED BY <1>2, <2>2, <2>6, <2>7
<1>4. CASE Sio2manInterrupt
  <2>1. UNCHANGED flagVars /\ port' = Quiet /\ port.st = "busy" /\ handler = "sio2man"
        /\ pad' = IF pad = "sent" THEN "told" ELSE pad
    BY <1>4 DEF Sio2manInterrupt
  <2>2. Shape'
    BY <1>1, <2>1 DEF Shape, flagVars
  <2>3. \A a \in Users : (Has(a) <=> Has(a)') /\ (HasPort(a) <=> HasPort(a)')
    BY <1>1, <2>1 DEF Has, HasPort
  <2>4. LockInv'
    BY <1>1, <2>3 DEF LockInv
  <2>5. PortInv' /\ FlagInv'
    BY <1>1, <2>1 DEF PortInv, FlagInv, Quiet, flagVars
  <2> QED BY <1>2, <2>2, <2>4, <2>5
<1>5. CASE mmce_sio2_timeout_handler
  <2>1. UNCHANGED <<pad, port>> /\ alarm /\ alarm' = FALSE
        /\ bits' = bits \cup {"timeout"} /\ resbits' = Woken(bits')
    BY <1>5 DEF mmce_sio2_timeout_handler
  <2>2. Shape' /\ LockInv'
    BY <1>1, <2>1 DEF Shape, LockInv, Has, HasPort
  <2>3. PortInv'
    BY <1>1, <2>1 DEF PortInv
  <2>4. FlagInv'
    BY <1>1, <2>1 DEF FlagInv, Woken
  <2> QED BY <1>2, <2>2, <2>3, <2>4
<1> QED BY <1>3, <1>4, <1>5 DEF PortStep

----------------------------------------------------------------------------
(* A caller on the port.                                                   *)

\* A step of the one who has both semaphores to another place where he does.
LEMMA OnPortStays ==
    ASSUME PortLockInv, NEW t \in Callers, NEW pc \in OnPort,
           call[t].pc \in OnPort, Moves(t, pc), alarm' \in BOOLEAN,
           UNCHANGED <<sema, handler, pad, mc, g_bd, bdm_io_sema>>
    PROVE  Shape' /\ LockInv' /\ DriveInv' /\ CardInv' /\ handler' = "mmce"
           /\ handler' = IF \E u \in Callers : call'[u].pc \in OnPort
                         THEN "mmce" ELSE "sio2man"
<1> USE DEF PortLockInv, Moves
<1>1. \A u \in Callers : /\ call[u].pc \in OnPort <=> call'[u].pc \in OnPort
                         /\ call[u].pc \in Locked <=> call'[u].pc \in Locked
                         /\ call[u].pc = "defrag" <=> call'[u].pc = "defrag"
  BY DEF OnPort, Locked
<1>2. \A a \in Users : (Has(a) <=> Has(a)') /\ (HasPort(a) <=> HasPort(a)')
  BY <1>1 DEF Has, HasPort
<1>3. Shape' /\ LockInv'
  BY <1>2 DEF Shape, LockInv
<1>4. DriveInv' /\ handler' = IF \E u \in Callers : call'[u].pc \in OnPort
                             THEN "mmce" ELSE "sio2man"
  BY <1>1 DEF DriveInv, PortInv
<1>5. CardInv'
  BY DEF CardInv, OnPort, Callers
<1>6. handler' = "mmce"
  BY DEF PortInv
<1> QED BY <1>3, <1>4, <1>5, <1>6

LEMMA MmceSteps ==
    ASSUME PortLockInv, NEW t \in Callers, MmceStep(t), UNCHANGED <<mc, driveVars>>
    PROVE  PortLockInv'
<1> USE DEF PortLockInv
<1>1. UNCHANGED <<pad, mc, g_bd, bdm_io_sema>>
  BY DEF MmceStep, driveVars
<1>2. CASE Lock(t)
  <2>1. /\ call[t].pc = "lock" /\ sema.lock_sema > 0 /\ sema' = Taken("lock_sema")
        /\ UNCHANGED <<handler, bits, alarm, resbits, port>> /\ At(t, "lock2")
    BY <1>2 DEF Lock, LockOrder, flagVars
  <2>2. Moves(t, "lock2")
    BY <2>1, AtMoves
  <2>3. \A a \in Users : ~Has(a) /\ ~HasPort(a)
    BY <2>1 DEF Shape, LockInv, Has, HasPort, Locked
  <2>4. Shape' /\ LockInv'
    <3>1. Shape'
      BY <1>1, <2>1, <2>2 DEF Taken, Shape, Moves
    <3>2. sema'.lock_sema = 0 /\ sema'.lock_sema2 = sema.lock_sema2
      BY <2>1 DEF Taken, Shape
    <3>3. \A a \in Users : (Has(a)' <=> a = t) /\ ~HasPort(a)'
      BY <1>1, <2>2, <2>3 DEF Has, HasPort, Users, Moves, Locked, OnPort, Callers
    <3> QED BY <3>1, <3>2, <3>3, <2>3 DEF LockInv, Users
  <2>5. PortInv' /\ FlagInv' /\ DriveInv' /\ CardInv'
    BY <1>1, <2>1, <2>2 DEF PortInv, FlagInv, DriveInv, CardInv, Moves, OnPort, InTransfer, Callers
  <2> QED BY <2>4, <2>5
<1>3. CASE Lock2(t)
  <2>1. /\ call[t].pc = "lock2" /\ sema.lock_sema2 > 0 /\ sema' = Taken("lock_sema2")
        /\ UNCHANGED <<bits, alarm, resbits, port>> /\ At(t, "send") /\ handler' = "mmce"
    BY <1>3 DEF Lock2, LockOrder, flagVars
  <2>2. Moves(t, "send")
    BY <2>1, AtMoves
  <2>3. \A a \in Users : ~HasPort(a)
    BY <2>1 DEF Shape, LockInv
  <2>4. Shape' /\ LockInv'
    <3>1. Shape'
      BY <1>1, <2>1, <2>2 DEF Taken, Shape, Moves
    <3>2. sema'.lock_sema2 = 0 /\ sema'.lock_sema = sema.lock_sema
      BY <2>1 DEF Taken, Shape
    <3>3. \A a \in Users : (Has(a)' <=> Has(a)) /\ (HasPort(a)' <=> a = t)
      BY <1>1, <2>1, <2>2, <2>3 DEF Has, HasPort, Users, Moves, Locked, OnPort, Callers
    <3> QED BY <3>1, <3>2, <3>3 DEF LockInv, Users
  <2>5. pad = "idle"
    BY <2>1, Alone DEF Locked
  <2>6. PortInv' /\ FlagInv' /\ DriveInv' /\ CardInv'
    BY <1>1, <2>1, <2>2, <2>5 DEF PortInv, FlagInv, DriveInv, CardInv, Moves, OnPort, InTransfer, Callers
  <2> QED BY <2>4, <2>6
<1>4. CASE WaitFlag(t)
  <2>1. /\ call[t].pc = "started" /\ resbits' = bits /\ At(t, "waiting")
        /\ UNCHANGED <<sema, handler, bits, alarm, port>>
    BY <1>4 DEF WaitFlag
  <2>2. Moves(t, "waiting")
    BY <2>1, AtMoves
  <2>3. alarm' \in BOOLEAN
    BY <2>1 DEF Shape
  <2>4. Shape' /\ LockInv' /\ DriveInv' /\ CardInv'
        /\ handler' = IF \E u \in Callers : call'[u].pc \in OnPort THEN "mmce" ELSE "sio2man"
    BY <1>1, <2>1, <2>2, <2>3, OnPortStays DEF OnPort
  <2>5. \A u \in Callers : call[u].pc \in InTransfer <=> call'[u].pc \in InTransfer
    BY <2>1, <2>2 DEF Moves, InTransfer
  <2>6. PortInv' /\ FlagInv'
    BY <1>1, <2>1, <2>4, <2>5 DEF PortInv, FlagInv
  <2> QED BY <2>4, <2>6
<1>5. CASE Transfer(t)
  <2>1. /\ call[t].pc = "send" /\ At(t, "started")
        /\ \E mute, dma : Started(mute, dma)
    BY <1>5, Zenon DEF Transfer
  <2>2. Moves(t, "started")
    BY <2>1, AtMoves
  <2>3. bits = {} /\ ~alarm /\ resbits = {} /\ pad = "idle"
    <3>1. \A u \in Callers : call[u].pc \notin InTransfer
      BY <2>1, Alone DEF Locked, OnPort, InTransfer
    <3> QED BY <2>1, <3>1, Alone DEF FlagInv, Locked, OnPort
  <2>4. /\ UNCHANGED <<sema, handler, bits, resbits>> /\ port'.by = "mmce"
        /\ alarm' \in BOOLEAN
    BY <2>1 DEF Started
  <2>5. Shape' /\ LockInv' /\ DriveInv' /\ CardInv'
        /\ handler' = IF \E u \in Callers : call'[u].pc \in OnPort THEN "mmce" ELSE "sio2man"
    BY <1>1, <2>1, <2>2, <2>4, OnPortStays DEF OnPort
  <2>6. call'[t].pc \in InTransfer
    BY <2>2 DEF Moves, InTransfer
  <2>7. PortInv' /\ FlagInv'
    BY <1>1, <2>3, <2>4, <2>5, <2>6 DEF PortInv, FlagInv
  <2> QED BY <2>5, <2>7
<1>6. CASE TransferTimedOut(t)
  <2>1. /\ call[t].pc = "waiting" /\ "timeout" \in resbits
        /\ port' = Quiet /\ bits' = {} /\ resbits' = {}
        /\ UNCHANGED <<sema, handler, alarm>>
        /\ call' = [call EXCEPT ![t] = Failed(call[t])]
    BY <1>6 DEF TransferTimedOut, Late, TimedOut, Shape
  <2>2. "pc" \in DOMAIN Failed(call[t]) /\ Failed(call[t]).pc = "unlock"
    BY DEF Failed, Shape
  <2>3. Moves(t, "unlock")
    BY <2>1, <2>2, CallMoves
  <2>4. ~alarm
    BY <2>1 DEF FlagInv
  <2>5. Shape' /\ LockInv' /\ DriveInv' /\ CardInv'
        /\ handler' = IF \E u \in Callers : call'[u].pc \in OnPort THEN "mmce" ELSE "sio2man"
    <3>1. alarm' \in BOOLEAN
      BY <2>1 DEF Shape
    <3> QED BY <1>1, <2>1, <2>3, <3>1, OnPortStays DEF OnPort
  <2>6. PortInv' /\ FlagInv'
    BY <1>1, <2>1, <2>4, <2>5 DEF PortInv, FlagInv, Quiet
  <2> QED BY <2>5, <2>6
<1>7. CASE TransferCompleted(t)
  <2> DEFINE next == IF Packet(t) \in {"receive", "sectors", "transmit"}
                     THEN Advanced(t) ELSE call[t]
  <2>1. /\ call[t].pc = "waiting" /\ "timeout" \notin resbits /\ resbits # {}
        /\ alarm' = FALSE /\ bits' = {} /\ resbits' = {}
        /\ UNCHANGED <<sema, handler, port>>
    BY <1>7 DEF TransferCompleted, Done, Completed
  <2>2. "pc" \in DOMAIN call[t] /\ "pc" \in DOMAIN next
    BY DEF Shape, Advanced
  <2>3. PICK c : /\ call' = [call EXCEPT ![t] = c] /\ "pc" \in DOMAIN c
                 /\ c.pc \in {"unlock", "send"}
    <3>1. call' = [call EXCEPT ![t] =
            IF Refused(t)
            THEN [Failed(call[t]) EXCEPT
                    !.res = IF call[t].op = "mmce_fs_close" /\ reply = "refused" THEN 1 ELSE -1]
            ELSE IF Packet(t) \in {"receive", "sectors", "transmit"} /\ ~DataOver(t)
            THEN [next EXCEPT !.pc = "send"]
            ELSE IF call[t].at < Len(Packets[call[t].op])
            THEN [next EXCEPT !.pc = "send", !.at = @ + 1]
            ELSE [next EXCEPT !.pc = "unlock", !.res = Answer(t)]]
      BY <1>7 DEF TransferCompleted
    <3>2. LET c == [Failed(call[t]) EXCEPT
                    !.res = IF call[t].op = "mmce_fs_close" /\ reply = "refused" THEN 1 ELSE -1]
          IN "pc" \in DOMAIN c /\ c.pc = "unlock"
      BY <2>2 DEF Failed
    <3> HIDE DEF next
    <3>3. LET c == [next EXCEPT !.pc = "send"] IN "pc" \in DOMAIN c /\ c.pc = "send"
      BY <2>2
    <3>4. LET c == [next EXCEPT !.pc = "send", !.at = @ + 1]
          IN "pc" \in DOMAIN c /\ c.pc = "send"
      BY <2>2
    <3>5. LET c == [next EXCEPT !.pc = "unlock", !.res = Answer(t)]
          IN "pc" \in DOMAIN c /\ c.pc = "unlock"
      BY <2>2
    <3> QED BY <3>1, <3>2, <3>3, <3>4, <3>5, Zenon
  <2>4. Moves(t, c.pc)
    BY <2>3, CallMoves
  <2>5. port = Quiet
    BY <2>1 DEF FlagInv
  <2>6. Shape' /\ LockInv' /\ DriveInv' /\ CardInv'
        /\ handler' = IF \E u \in Callers : call'[u].pc \in OnPort THEN "mmce" ELSE "sio2man"
    BY <1>1, <2>1, <2>3, <2>4, OnPortStays DEF OnPort
  <2>7. PortInv' /\ FlagInv'
    BY <1>1, <2>1, <2>5, <2>6 DEF PortInv, FlagInv, Quiet
  <2> QED BY <2>6, <2>7
<1>8. CASE Unlock(t)
  <2>1. /\ call[t].pc = "unlock" /\ At(t, "done") /\ handler' = "sio2man"
        /\ sema' = [lock_sema |-> 1, lock_sema2 |-> 1]
        /\ UNCHANGED <<bits, alarm, resbits, port>>
    BY <1>8 DEF Unlock, Unlocked, flagVars
  <2>2. Moves(t, "done")
    BY <2>1, AtMoves
  <2>3. /\ \A u \in Callers : call'[u].pc \notin Locked
        /\ pad = "idle" /\ mc.pc \notin {"asked", "answered"}
    BY <2>1, <2>2, Alone DEF Moves, Locked, OnPort
  <2>4. \A a \in Users : ~Has(a)' /\ ~HasPort(a)'
    BY <1>1, <2>3 DEF Has, HasPort, Locked
  <2>5. Shape' /\ LockInv'
    BY <1>1, <2>1, <2>2, <2>4 DEF Shape, LockInv, Moves
  <2>6. \A u \in Callers : call[u].pc \notin InTransfer
    BY <2>1, Alone DEF Locked, OnPort, InTransfer
  <2>7. PortInv' /\ FlagInv'
    BY <1>1, <2>1, <2>3, <2>6 DEF PortInv, FlagInv, Locked
  <2>8. DriveInv' /\ CardInv'
    BY <1>1, <2>1, <2>2 DEF DriveInv, CardInv, Moves, Callers
  <2> QED BY <2>5, <2>7, <2>8
<1> QED BY <1>2, <1>3, <1>4, <1>5, <1>6, <1>7, <1>8 DEF MmceStep

----------------------------------------------------------------------------
(* The drive.                                                              *)

LEMMA FhiSteps ==
    ASSUME PortLockInv, NEW t \in Callers, FhiStep(t), UNCHANGED mc
    PROVE  PortLockInv'
<1> USE DEF PortLockInv
<1>1. UNCHANGED <<sema, handler, bits, alarm, resbits, port, pad, mc, g_bd>>
  BY DEF FhiStep, FhiLock, Defragmented, FhiUnlock, sio2Vars, flagVars
<1>2. PICK pc \in {"defrag", "done"} :
        /\ Moves(t, pc) /\ call[t].pc \in {"bdm", "defrag"}
        /\ call[t].pc = "bdm" => pc = "defrag"
        /\ bdm_io_sema' \in {0, 1}
        /\ pc = "done" => bdm_io_sema' = 1
        /\ pc = "defrag" => bdm_io_sema' = 0
        /\ call[t].pc = "bdm" => bdm_io_sema > 0
  <2>1. CASE FhiLock(t)
    <3>1. /\ call[t].pc = "bdm" /\ bdm_io_sema > 0 /\ bdm_io_sema' = 0
          /\ At(t, "defrag")
      BY <2>1 DEF FhiLock
    <3> QED BY <3>1, AtMoves
  <2>2. CASE Defragmented(t)
    <3> DEFINE c == call[t]
               s == c.arg + c.done
               f == HoldingFragment(c.file, s)
               n == Lesser(c.todo, f.before + f.count - s)
               at == f.sector + s - f.before
               ok == [c EXCEPT !.todo = @ - n, !.done = @ + n, !.res = c.done + n,
                             !.buf = IF c.op = "fhi_write" THEN @
                                     ELSE [u \in DOMAIN @ |->
                                        LET k == u - 1 - c.done * SectorUnits IN
                                        IF k \in 0 .. n * SectorUnits - 1
                                        THEN disk[at + k \div SectorUnits][(k % SectorUnits) + 1]
                                        ELSE @[u]]]
               bad == [c EXCEPT !.todo = 0, !.res = -1]
    <3>1. /\ call[t].pc = "defrag" /\ UNCHANGED bdm_io_sema
          /\ call' = [call EXCEPT ![t] = ok] \/ call' = [call EXCEPT ![t] = bad]
      BY <2>2 DEF Defragmented
    <3>2. /\ "pc" \in DOMAIN ok /\ ok.pc = "defrag"
          /\ "pc" \in DOMAIN bad /\ bad.pc = "defrag"
      <4>1. "pc" \in DOMAIN c /\ c.pc = "defrag"
        BY <3>1 DEF Shape
      <4> QED BY <4>1, SMTT(30)
    <3> HIDE DEF ok, bad
    <3>3. Moves(t, "defrag")
      <4>1. CASE call' = [call EXCEPT ![t] = ok]
        BY <4>1, <3>2, CallMoves
      <4>2. CASE call' = [call EXCEPT ![t] = bad]
        BY <4>2, <3>2, CallMoves
      <4> QED BY <3>1, <4>1, <4>2
    <3>4. bdm_io_sema = 0
      BY <3>1 DEF DriveInv
    <3> QED BY <3>1, <3>3, <3>4, SMTT(30)
  <2>3. CASE FhiUnlock(t)
    <3>1. call[t].pc = "defrag" /\ bdm_io_sema' = 1 /\ At(t, "done")
      BY <2>3 DEF FhiUnlock
    <3> QED BY <3>1, AtMoves
  <2> QED BY <2>1, <2>2, <2>3 DEF FhiStep
<1>3. \A u \in Callers : /\ call[u].pc \in OnPort <=> call'[u].pc \in OnPort
                         /\ call[u].pc \in Locked <=> call'[u].pc \in Locked
                         /\ call[u].pc \in InTransfer <=> call'[u].pc \in InTransfer
  BY <1>2 DEF Moves, OnPort, Locked, InTransfer
<1>4. \A a \in Users : (Has(a) <=> Has(a)') /\ (HasPort(a) <=> HasPort(a)')
  BY <1>1, <1>3 DEF Has, HasPort
<1>5. Shape' /\ LockInv'
  BY <1>1, <1>2, <1>4 DEF Shape, LockInv, Moves
<1>6. PortInv' /\ FlagInv'
  BY <1>1, <1>3 DEF PortInv, FlagInv
<1>7. CardInv'
  BY <1>1, <1>2 DEF CardInv, Moves, Callers
<1>8. DriveInv'
  BY <1>1, <1>2 DEF DriveInv, Moves
<1> QED BY <1>5, <1>6, <1>7, <1>8, SMTT(30)

LEMMA DriveSteps ==
    ASSUME PortLockInv, DriveStep
    PROVE  PortLockInv'
<1> USE DEF PortLockInv
<1>1. UNCHANGED <<sema, handler, bits, alarm, resbits, port, pad, mc, call>>
  BY DEF DriveStep, bdm_connect_bd, bdm_disconnect_bd, sio2Vars, flagVars
<1>2. \A a \in Users : (Has(a) <=> Has(a)') /\ (HasPort(a) <=> HasPort(a)')
  BY <1>1 DEF Has, HasPort
<1>3. Shape' /\ LockInv' /\ PortInv' /\ FlagInv' /\ CardInv'
  BY <1>1, <1>2 DEF Shape, LockInv, PortInv, FlagInv, CardInv
<1>4. DriveInv'
  BY <1>1 DEF DriveStep, bdm_connect_bd, bdm_disconnect_bd, DriveInv
<1> QED BY <1>3, <1>4

----------------------------------------------------------------------------
(* What the callers ask for, and the virtual card.                         *)

LEMMA MmceBegins ==
    ASSUME NEW op, NEW slot, NEW fd, NEW file, NEW arg, NEW elements, NEW pio, NEW data
    PROVE  LET c == Mmce(op, slot, fd, file, arg, elements, pio, data)
           IN "pc" \in DOMAIN c /\ c.pc \in {"lock", "done"}
BY DEF Mmce, NoCall

LEMMA FhiBegins ==
    ASSUME NEW op, NEW file, NEW sector, NEW count, NEW data
    PROVE  LET c == Fhi(op, file, sector, count, data)
           IN "pc" \in DOMAIN c /\ c.pc = "bdm"
BY DEF Fhi, NoCall

LEMMA ReturnedIsDone ==
    ASSUME NEW op, NEW res, NEW buf
    PROVE  LET c == Returned(op, res, buf) IN "pc" \in DOMAIN c /\ c.pc = "done"
BY DEF Returned, NoCall

\* A call begins or ends apart from the port and the drive.
Places(t) == \E c : /\ call' = [call EXCEPT ![t] = c]
                    /\ "pc" \in DOMAIN c /\ c.pc \in Apart

LEMMA EndPlaces ==
    ASSUME NEW t, call' = [call EXCEPT ![t] = NoCall]
    PROVE  Places(t)
<1>1. "pc" \in DOMAIN NoCall /\ NoCall.pc \in Apart
  BY DEF NoCall, Apart
<1> QED BY <1>1 DEF Places

\* What the caller of the disc does between its calls.
LEMMA DiscSteps ==
    ASSUME PortLockInv,
           \/ \E op \in left.ops : MmceCall(op)
           \/ HdlCall \/ BdfsCall \/ FhiCall \/ DiscReturns
    PROVE  PortLockInv'
<1> DEFINE Rest == /\ UNCHANGED <<sema, handler, flagVars, port, pad>>
                   /\ UNCHANGED <<g_bd, bdm_io_sema, mc>>
                   /\ call["disc"].pc \in Apart
<1>1. ASSUME NEW op, MmceCall(op)
      PROVE  Rest /\ Places("disc")
  <2>1. Rest
    BY <1>1 DEF MmceCall, Asks, sio2Vars, driveVars, Apart
  <2>2. PICK h, file, arg, elements, pio : Sends(op, h, file, arg, elements, pio)
    BY <1>1, Zenon DEF MmceCall
  <2> DEFINE data == [i \in 1 .. elements + pio |-> <<"mine", disc.calls, i>>]
             game == Mmce(op, 0, h, file, arg, elements, pio, data)
             menu == Mmce(op, h, 0, file, arg, elements, pio, data)
  <2>3. call' = [call EXCEPT !["disc"] = game] \/ call' = [call EXCEPT !["disc"] = menu]
    BY <2>2 DEF Sends
  <2>4. /\ "pc" \in DOMAIN game /\ game.pc \in Apart
        /\ "pc" \in DOMAIN menu /\ menu.pc \in Apart
    BY MmceBegins DEF Apart
  <2> HIDE DEF game, menu
  <2> QED BY <2>1, <2>3, <2>4 DEF Places
<1>2. ASSUME HdlCall PROVE Rest /\ Places("disc")
  <2>1. Rest
    BY <1>2 DEF HdlCall, Asks, sio2Vars, Apart
  <2>2. ASSUME NEW x, hdl_open("disc", x) PROVE Places("disc")
    <3>1. \/ call' = [call EXCEPT !["disc"] = Returned("hdl_open", 1, <<>>)]
          \/ call' = [call EXCEPT !["disc"] = Returned("hdl_open", -1, <<>>)]
      BY <2>2, Zenon DEF hdl_open
    <3> QED BY <3>1, ReturnedIsDone DEF Places, Apart
  <2>3. ASSUME NEW x, NEW y, hdl_lseek64("disc", x, y) PROVE Places("disc")
    BY <2>3, ReturnedIsDone DEF hdl_lseek64, Places, Apart
  <2>4. ASSUME NEW x, hdl_read("disc", x) PROVE Places("disc")
    BY <2>4, ReturnedIsDone DEF hdl_read, Places, Apart
  <2>5. Places("disc")
    BY <1>2, <2>2, <2>3, <2>4, Zenon DEF HdlCall
  <2> QED BY <2>1, <2>5
<1>3. ASSUME BdfsCall PROVE Rest /\ Places("disc")
  <2>1. Rest
    BY <1>3 DEF BdfsCall, Asks, sio2Vars, Apart
  <2>2. ASSUME NEW x, bdfs_open("disc", x) PROVE Places("disc")
    BY <2>2, ReturnedIsDone DEF bdfs_open, Places, Apart
  <2>3. ASSUME NEW x, NEW y, bdfs_lseek64("disc", x, y) PROVE Places("disc")
    BY <2>3, ReturnedIsDone DEF bdfs_lseek64, Places, Apart
  <2>4. ASSUME NEW x, bdfs_read("disc", x) PROVE Places("disc")
    BY <2>4, ReturnedIsDone DEF bdfs_read, Places, Apart
  <2>5. Places("disc")
    BY <1>3, <2>2, <2>3, <2>4, Zenon DEF BdfsCall
  <2> QED BY <2>1, <2>5
<1>4. ASSUME FhiCall PROVE Rest /\ Places("disc")
  <2>1. Rest
    BY <1>4 DEF FhiCall, Asks, sio2Vars, driveVars, Apart
  <2>2. PICK r \in Runs :
          call' = [call EXCEPT !["disc"] = Fhi("fhi_read", "iso", r.sector, r.count, <<>>)]
    BY <1>4 DEF FhiCall
  <2> DEFINE c == Fhi("fhi_read", "iso", r.sector, r.count, <<>>)
  <2>3. "pc" \in DOMAIN c /\ c.pc \in Apart
    BY FhiBegins DEF Apart
  <2>4. call' = [call EXCEPT !["disc"] = c]
    BY <2>2
  <2> HIDE DEF c
  <2> QED BY <2>1, <2>3, <2>4 DEF Places
<1>5. ASSUME DiscReturns PROVE Rest /\ Places("disc")
  <2>1. Rest
    BY <1>5 DEF DiscReturns, sio2Vars, driveVars, Apart
  <2>2. call' = [call EXCEPT !["disc"] = NoCall]
    BY <1>5 DEF DiscReturns
  <2> QED BY <2>1, <2>2, EndPlaces
<1>6. Rest /\ Places("disc")
  BY <1>1, <1>2, <1>3, <1>4, <1>5
<1>7. PICK c : /\ call' = [call EXCEPT !["disc"] = c]
               /\ "pc" \in DOMAIN c /\ c.pc \in Apart
  BY <1>6 DEF Places
<1>8. "disc" \in Callers
  BY DEF Callers
<1>9. Moves("disc", c.pc)
  BY <1>7, <1>8, CallMoves DEF PortLockInv
<1>10. Shape' /\ CardInv'
  BY <1>6, <1>9 DEF PortLockInv, Shape, CardInv, Moves, flagVars, Callers
<1> QED BY <1>6, <1>7, <1>8, <1>9, <1>10, StaysApart

\* The steps of the card that call its file, or end a call.
McPlaces == /\ Places("card") /\ call["card"].pc \in Apart
            /\ UNCHANGED <<sema, handler, flagVars, port, pad, g_bd, bdm_io_sema>>
            /\ mc.pc \in {"asked", "answered"} <=> mc'.pc \in {"asked", "answered"}
            /\ "pc" \in DOMAIN mc'

LEMMA CardCalls ==
    ASSUME PortLockInv, McPlaces,
           \/ mc'.pc \in {"reading", "writing", "erasing"}
           \/ call' = [call EXCEPT !["card"] = NoCall]
    PROVE  PortLockInv'
<1>1. PICK c : /\ call' = [call EXCEPT !["card"] = c]
               /\ "pc" \in DOMAIN c /\ c.pc \in Apart
  BY DEF McPlaces, Places
<1>2. "card" \in Callers
  BY DEF Callers
<1>3. Moves("card", c.pc)
  BY <1>1, <1>2, CallMoves DEF PortLockInv
<1>4. Shape'
  BY <1>3 DEF PortLockInv, McPlaces, Shape, Moves, flagVars
<1>5. CardInv'
  <2>1. CASE mc'.pc \in {"reading", "writing", "erasing"}
    BY <2>1 DEF CardInv
  <2>2. CASE call' = [call EXCEPT !["card"] = NoCall]
    BY <2>2, <1>2 DEF PortLockInv, Shape, CardInv, NoCall
  <2> QED BY <2>1, <2>2
<1> QED BY <1>1, <1>2, <1>3, <1>4, <1>5, StaysApart DEF McPlaces

\* A result ends a command.
LEMMA ResultShape ==
    ASSUME NEW m, NEW r, "pc" \in DOMAIN m
    PROVE  "pc" \in DOMAIN Result(m, r) /\ Result(m, r).pc = "commands"
BY DEF Result

LEMMA PageReadShape ==
    ASSUME NEW m, "pc" \in DOMAIN m
    PROVE  "pc" \in DOMAIN PageRead(m) /\ PageRead(m).pc \in {"commands", "read"}
<1> DEFINE n == Lesser(m.size, PageBytes - m.rdoff)
           end == m.rdoff + n
           copied == [m EXCEPT !.answer = @ \o SubSeq(m.dbuf, m.rdoff \div PieceBytes + 1,
                                                      end \div PieceBytes),
                               !.rdoff = end % PageBytes, !.rcoff = @ + 3]
           over == [copied EXCEPT !.rpage = @ + 1, !.size = m.tot - n]
<1>1. "pc" \in DOMAIN copied /\ "pc" \in DOMAIN over
  OBVIOUS
<1>2. PageRead(m) \in {Result(copied, 1), Result(over, 1), [over EXCEPT !.pc = "read"]}
  BY Zenon DEF PageRead
<1> HIDE DEF copied, over
<1>3. /\ "pc" \in DOMAIN [over EXCEPT !.pc = "read"]
      /\ [over EXCEPT !.pc = "read"].pc = "read"
  BY <1>1
<1> QED BY <1>1, <1>2, <1>3, ResultShape

LEMMA SpareShape ==
    ASSUME NEW m, "pc" \in DOMAIN m
    PROVE  /\ "pc" \in DOMAIN SpareRead(m) /\ SpareRead(m).pc = m.pc
           /\ "pc" \in DOMAIN SpareWrite(m) /\ SpareWrite(m).pc = m.pc
BY DEF SpareRead, SpareWrite

\* The calls of the card's file.
LEMMA CallFhiPlaces ==
    ASSUME NEW op, NEW page, CallFhi(op, page)
    PROVE  Places("card")
<1>1. "pc" \in DOMAIN FhiPage(op, page) /\ FhiPage(op, page).pc \in Apart
  <2>1. CASE left.via = "bd"
    <3>1. FhiPage(op, page) = Fhi(op, "vmc", page, 1, mc.dbuf)
      BY <2>1 DEF FhiPage
    <3> QED BY <3>1, FhiBegins DEF Apart
  <2>2. CASE left.via # "bd"
    <3>1. FhiPage(op, page) = Mmce("mmcedrv_lseek", 0, VmcFd, "vmc", page * SectorUnits,
                                   0, 0, <<>>)
      BY <2>2 DEF FhiPage
    <3> QED BY <3>1, MmceBegins DEF Apart
  <2> QED BY <2>1, <2>2
<1> QED BY <1>1 DEF CallFhi, Places

LEMMA CardSteps ==
    ASSUME PortLockInv, CardStep
    PROVE  PortLockInv'
<1> DEFINE Rest == UNCHANGED <<sema, handler, flagVars, port, pad, g_bd, bdm_io_sema>>
<1> USE DEF PortLockInv
<1>1. CASE PageTransfer
  <2>1. Rest /\ UNCHANGED mc /\ call["card"].pc = "done"
        /\ mc.pc \in {"reading", "writing", "erasing"}
    BY <1>1 DEF PageTransfer, sio2Vars, driveVars
  <2> DEFINE op == IF mc.pc = "reading" THEN "mmcedrv_read" ELSE "mmcedrv_write"
             c == Mmce(op, 0, VmcFd, "vmc", call["card"].arg, SectorUnits, 0, mc.dbuf)
  <2>2. call' = [call EXCEPT !["card"] = c]
    BY <1>1 DEF PageTransfer
  <2>3. "pc" \in DOMAIN c /\ c.pc \in Apart
    BY MmceBegins DEF Apart
  <2> HIDE DEF c
  <2>4. McPlaces
    BY <2>1, <2>2, <2>3 DEF McPlaces, Places, Apart, Shape
  <2> QED BY <2>1, <2>4, CardCalls
<1>2. CASE MceRead
  <2> DEFINE m == SpareRead(mc)
  <2>1. Rest /\ mc.pc = "read"
    BY <1>2 DEF MceRead, Hangs, sio2Vars, driveVars
  <2>2. "pc" \in DOMAIN m /\ m.pc = "read"
    BY <2>1, SpareShape DEF Shape
  <2>3. \/ UNCHANGED call /\ mc' \in {Result(m, 1), PageRead(m)}
        \/ mc' = [m EXCEPT !.pc = "reading"] /\ CallFhi("fhi_read", m.rpage)
    BY <1>2 DEF MceRead
  <2> HIDE DEF m
  <2>4. call["card"].pc = "idle"
    BY <2>1 DEF CardInv
  <2>5. CASE UNCHANGED call /\ mc' \in {Result(m, 1), PageRead(m)}
    <3>1. "pc" \in DOMAIN mc' /\ mc'.pc \in {"commands", "read"}
      BY <2>2, <2>5, ResultShape, PageReadShape
    <3>2. Shape' /\ CardInv'
      BY <2>1, <2>4, <2>5, <3>1 DEF Shape, CardInv, flagVars
    <3> QED BY <2>1, <2>5, <3>1, <3>2, CardWorks
  <2>6. CASE mc' = [m EXCEPT !.pc = "reading"] /\ CallFhi("fhi_read", m.rpage)
    <3>1. "pc" \in DOMAIN mc' /\ mc'.pc = "reading"
      BY <2>2, <2>6
    <3>2. McPlaces
      BY <2>1, <2>4, <2>6, <3>1, CallFhiPlaces DEF McPlaces, Apart
    <3> QED BY <3>1, <3>2, CardCalls
  <2> QED BY <2>3, <2>5, <2>6
<1>3. CASE do_read
  <2> DEFINE m == [mc EXCEPT !.dbuf = call["card"].buf, !.cbuf = ECC(call["card"].buf)]
             e == [mc EXCEPT !.answer = Append(@, Garbage)]
  <2>1. Rest /\ mc.pc = "reading" /\ call["card"].pc = "done"
        /\ call' = [call EXCEPT !["card"] = NoCall]
    BY <1>3 DEF do_read, CardWaits, Ends, Hangs, sio2Vars, driveVars
  <2>2. mc' \in {PageRead(m), Result(e, 0)}
    BY <1>3 DEF do_read
  <2>3. "pc" \in DOMAIN m /\ "pc" \in DOMAIN e
    BY DEF Shape
  <2> HIDE DEF m, e
  <2>4. "pc" \in DOMAIN mc' /\ mc'.pc \in {"commands", "read"}
    BY <2>2, <2>3, PageReadShape, ResultShape
  <2>5. McPlaces
    BY <2>1, <2>4, EndPlaces DEF McPlaces, Apart
  <2> QED BY <2>1, <2>5, CardCalls
<1>4. CASE MceWrite
  <2> DEFINE m == SpareWrite(mc)
             n == Lesser(m.size, PageBytes - m.wroff)
             end == m.wroff + n
             data == Head(m.packet).data
             copied == [m EXCEPT
                        !.dbuf = [i \in DOMAIN @ |->
                            IF i - m.wroff \div PieceBytes \in DOMAIN data
                            THEN data[i - m.wroff \div PieceBytes] ELSE @[i]],
                        !.wroff = end % PageBytes, !.wcoff = @ + 3]
             due == [copied EXCEPT !.pc = "writing", !.size = m.tot - n]
  <2>1. Rest /\ mc.pc = "write"
    BY <1>4 DEF MceWrite, Hangs, sio2Vars, driveVars
  <2>2. "pc" \in DOMAIN m /\ m.pc = "write"
    BY <2>1, SpareShape DEF Shape
  <2>3. \/ UNCHANGED call /\ mc' \in {Result(m, 1), Result(copied, 1)}
        \/ /\ mc' = due
           /\ call' = [call EXCEPT !["card"] =
                    IF left.via = "bd" THEN Fhi("fhi_write", "vmc", m.wpage, 1, copied.dbuf)
                    ELSE FhiPage("fhi_write", m.wpage)]
    BY <1>4, Zenon DEF MceWrite
  <2> HIDE DEF m
  <2>a. "pc" \in DOMAIN copied
    BY <2>2
  <2> HIDE DEF copied
  <2>4. call["card"].pc = "idle"
    BY <2>1 DEF CardInv
  <2>5. CASE UNCHANGED call /\ mc' \in {Result(m, 1), Result(copied, 1)}
    <3>1. "pc" \in DOMAIN mc' /\ mc'.pc = "commands"
      BY <2>2, <2>a, <2>5, ResultShape
    <3>2. Shape' /\ CardInv'
      BY <2>1, <2>4, <2>5, <3>1 DEF Shape, CardInv, flagVars
    <3> QED BY <2>1, <2>5, <3>1, <3>2, CardWorks
  <2>6. ASSUME mc' = due, call' = [call EXCEPT !["card"] =
                    IF left.via = "bd" THEN Fhi("fhi_write", "vmc", m.wpage, 1, copied.dbuf)
                    ELSE FhiPage("fhi_write", m.wpage)]
        PROVE  PortLockInv'
    <3>1. "pc" \in DOMAIN mc' /\ mc'.pc = "writing"
      BY <2>a, <2>6
    <3>2. Places("card")
      <4>1. CASE left.via = "bd"
        <5> DEFINE c == Fhi("fhi_write", "vmc", m.wpage, 1, copied.dbuf)
        <5>1. call' = [call EXCEPT !["card"] = c]
          BY <2>6, <4>1
        <5>2. "pc" \in DOMAIN c /\ c.pc \in Apart
          BY FhiBegins DEF Apart
        <5> HIDE DEF c
        <5> QED BY <5>1, <5>2 DEF Places
      <4>2. CASE left.via # "bd"
        <5>1. CallFhi("fhi_write", m.wpage)
          BY <2>6, <4>2 DEF CallFhi
        <5> QED BY <5>1, CallFhiPlaces
      <4> QED BY <4>1, <4>2
    <3>3. McPlaces
      BY <2>1, <2>4, <3>1, <3>2 DEF McPlaces, Apart
    <3> QED BY <3>1, <3>3, CardCalls
  <2> QED BY <2>3, <2>5, <2>6
<1>5. CASE PageWritten
  <2> DEFINE m == [mc EXCEPT !.wpage = @ + 1]
  <2>1. Rest /\ mc.pc = "writing" /\ call["card"].pc = "done"
        /\ call' = [call EXCEPT !["card"] = NoCall]
    BY <1>5 DEF PageWritten, CardWaits, Ends, Hangs, sio2Vars, driveVars
  <2>2. mc' \in {Result(mc, 0), [m EXCEPT !.pc = "write"], Result(m, 1)}
    BY <1>5, Zenon DEF PageWritten
  <2>3. "pc" \in DOMAIN mc /\ "pc" \in DOMAIN m
    BY DEF Shape
  <2> HIDE DEF m
  <2>4. "pc" \in DOMAIN mc' /\ mc'.pc \in {"commands", "write"}
    BY <2>2, <2>3, ResultShape
  <2>5. McPlaces
    BY <2>1, <2>4, EndPlaces DEF McPlaces, Apart
  <2> QED BY <2>1, <2>5, CardCalls
<1>6. CASE MceEraseBlock
  <2>1. Rest /\ mc.pc = "erase" /\ mc' = [mc EXCEPT !.pc = "erasing"]
        /\ CallFhi("fhi_write", Head(mc.packet).page + mc.nth)
    BY <1>6 DEF MceEraseBlock, Hangs, sio2Vars, driveVars
  <2>2. "pc" \in DOMAIN mc' /\ mc'.pc = "erasing"
    BY <2>1 DEF Shape
  <2>3. call["card"].pc = "idle"
    BY <2>1 DEF CardInv
  <2>4. McPlaces
    BY <2>1, <2>2, <2>3, CallFhiPlaces DEF McPlaces, Apart
  <2> QED BY <2>2, <2>4, CardCalls
<1>7. CASE PageErased
  <2>1. Rest /\ mc.pc = "erasing" /\ call["card"].pc = "done"
        /\ call' = [call EXCEPT !["card"] = NoCall]
    BY <1>7 DEF PageErased, CardWaits, Ends, Hangs, sio2Vars, driveVars
  <2>2. mc' \in {Result(mc, 0), Result(mc, 1), [mc EXCEPT !.pc = "erase", !.nth = @ + 1]}
    BY <1>7, Zenon DEF PageErased
  <2>3. "pc" \in DOMAIN mc' /\ mc'.pc \in {"commands", "erase"}
    BY <2>2, ResultShape DEF Shape
  <2>4. McPlaces
    BY <2>1, <2>3, EndPlaces DEF McPlaces, Apart
  <2> QED BY <2>1, <2>4, CardCalls
<1>8. CASE DriverAsks
  <2>1. /\ mc.pc = "idle" /\ sema.lock_sema > 0 /\ sema' = Taken("lock_sema")
        /\ UNCHANGED <<handler, bits, alarm, resbits, port, pad, call, g_bd, bdm_io_sema>>
    BY <1>8 DEF DriverAsks, flagVars, driveVars
  <2>2. "pc" \in DOMAIN mc' /\ mc'.pc = "asked"
    BY <1>8 DEF DriverAsks, Shape
  <2>3. \A a \in Users : ~Has(a)
    BY <2>1 DEF Shape, LockInv
  <2>4. Shape' /\ LockInv'
    BY <2>1, <2>2, <2>3 DEF Taken, Shape, LockInv, Has, HasPort, Users, Callers
  <2>5. PortInv' /\ FlagInv' /\ DriveInv' /\ CardInv'
    BY <2>1, <2>2 DEF PortInv, FlagInv, DriveInv, CardInv
  <2> QED BY <2>4, <2>5
<1>9. CASE PortGivenBack
  <2>1. /\ mc.pc = "asked" /\ sema' = Given("lock_sema")
        /\ UNCHANGED <<handler, bits, alarm, resbits, port, pad, call, g_bd, bdm_io_sema>>
        /\ mc' = [mc EXCEPT !.pc = "commands"]
    BY <1>9 DEF PortGivenBack, flagVars, driveVars
  <2>2. "pc" \in DOMAIN mc' /\ mc'.pc = "commands"
    BY <2>1 DEF Shape
  <2>3. (\A t \in Callers : call[t].pc \notin Locked) /\ pad = "idle"
    BY <2>1, Alone
  <2>4. Shape' /\ LockInv'
    BY <2>1, <2>2, <2>3 DEF Given, Shape, LockInv, Has, HasPort, Users, Callers
  <2>5. PortInv' /\ FlagInv' /\ DriveInv' /\ CardInv'
    BY <2>1, <2>2 DEF PortInv, FlagInv, DriveInv, CardInv
  <2> QED BY <2>4, <2>5
<1>10. CASE Sio2McEmu
  <2>1. Rest /\ mc.pc = "commands" /\ UNCHANGED call
    BY <1>10 DEF Sio2McEmu, Hangs, sio2Vars, driveVars
  <2>2. "pc" \in DOMAIN mc' /\ mc'.pc \in {"commands", "erase", "read", "write"}
    <3> DEFINE c == Head(mc.packet)
               sized == [mc EXCEPT !.size = c.size, !.tot = c.size]
    <3>1. "pc" \in DOMAIN mc /\ "pc" \in DOMAIN sized
      BY DEF Shape
    <3>2. \E m, r : "pc" \in DOMAIN m /\ mc' \in
            {Result(m, r), [mc EXCEPT !.pc = "erase", !.dbuf = Erased, !.nth = 0],
             [sized EXCEPT !.pc = "read"], [sized EXCEPT !.pc = "write"]}
      <4> DEFINE start == [mc EXCEPT !.rpage = c.page, !.rdoff = 0, !.rcoff = 0]
                 begin == [mc EXCEPT !.wpage = c.page, !.wroff = 0, !.wcoff = 0]
                 gone == [mc EXCEPT !.answer = Append(@, Garbage)]
      <4>1. "pc" \in DOMAIN start /\ "pc" \in DOMAIN begin /\ "pc" \in DOMAIN gone
        BY <3>1
      <4>2. mc' \in {Result(start, 1), Result(begin, 1), Result(gone, 0), Result(mc, 0),
                     Result(mc, 1), [mc EXCEPT !.pc = "erase", !.dbuf = Erased, !.nth = 0],
                     [sized EXCEPT !.pc = "read"], [sized EXCEPT !.pc = "write"]}
        BY <1>10, Zenon DEF Sio2McEmu, MceStartRead, MceStartWrite
      <4> HIDE DEF start, begin, gone, sized
      <4> QED BY <3>1, <4>1, <4>2
    <3>3. PICK m, r : "pc" \in DOMAIN m /\ mc' \in
            {Result(m, r), [mc EXCEPT !.pc = "erase", !.dbuf = Erased, !.nth = 0],
             [sized EXCEPT !.pc = "read"], [sized EXCEPT !.pc = "write"]}
      BY <3>2
    <3> HIDE DEF sized
    <3>4. "pc" \in DOMAIN Result(m, r) /\ Result(m, r).pc = "commands"
      BY <3>3, ResultShape
    <3> QED BY <3>1, <3>3, <3>4
  <2>3. call["card"].pc = "idle"
    BY <2>1 DEF CardInv
  <2>4. Shape' /\ CardInv'
    BY <2>1, <2>2, <2>3 DEF Shape, CardInv, flagVars
  <2> QED BY <2>1, <2>2, <2>4, CardWorks
<1>11. CASE PortTakenAgain
  <2>1. /\ mc.pc = "commands" /\ sema.lock_sema > 0 /\ sema' = Taken("lock_sema")
        /\ UNCHANGED <<handler, bits, alarm, resbits, port, pad, call, g_bd, bdm_io_sema>>
        /\ mc' = [mc EXCEPT !.pc = "answered"]
    BY <1>11 DEF PortTakenAgain, flagVars, driveVars
  <2>2. "pc" \in DOMAIN mc' /\ mc'.pc = "answered"
    BY <2>1 DEF Shape
  <2>3. \A a \in Users : ~Has(a)
    BY <2>1 DEF Shape, LockInv
  <2>4. Shape' /\ LockInv'
    BY <2>1, <2>2, <2>3 DEF Taken, Shape, LockInv, Has, HasPort, Users, Callers
  <2>5. PortInv' /\ FlagInv' /\ DriveInv' /\ CardInv'
    BY <2>1, <2>2 DEF PortInv, FlagInv, DriveInv, CardInv
  <2> QED BY <2>4, <2>5
<1>12. CASE DriverTold
  <2>1. /\ mc.pc = "answered" /\ sema' = Given("lock_sema")
        /\ UNCHANGED <<handler, bits, alarm, resbits, port, pad, call, g_bd, bdm_io_sema>>
        /\ mc' = [mc EXCEPT !.pc = "idle", !.request = NoRequest, !.answer = <<>>]
    BY <1>12 DEF DriverTold, flagVars, driveVars
  <2>2. "pc" \in DOMAIN mc' /\ mc'.pc = "idle"
    BY <2>1 DEF Shape
  <2>3. (\A t \in Callers : call[t].pc \notin Locked) /\ pad = "idle"
    BY <2>1, Alone
  <2>4. Shape' /\ LockInv'
    BY <2>1, <2>2, <2>3 DEF Given, Shape, LockInv, Has, HasPort, Users, Callers
  <2>5. PortInv' /\ FlagInv' /\ DriveInv' /\ CardInv'
    BY <2>1, <2>2 DEF PortInv, FlagInv, DriveInv, CardInv
  <2> QED BY <2>4, <2>5
<1> QED BY <1>1, <1>2, <1>3, <1>4, <1>5, <1>6, <1>7, <1>8, <1>9, <1>10, <1>11, <1>12
       DEF CardStep

----------------------------------------------------------------------------
(* The theorems.                                                           *)

\* The port, its interrupt handler and its event flag are with one user at a
\* time, the card is idle unless it waits for its file, and the drive's
\* semaphore says who reads (sio2man_hook.c, mmce_sio2.c, fhi_bd).
THEOREM PortLock == Spec => []PortLockInv
<1>1. Init => PortLockInv
  <2> SUFFICES ASSUME Init PROVE PortLockInv
    OBVIOUS
  <2>1. /\ sema = [lock_sema |-> 1, lock_sema2 |-> 1] /\ handler = "sio2man"
        /\ bits = {} /\ resbits = {} /\ alarm = FALSE /\ port = Quiet /\ pad = "idle"
        /\ g_bd = FALSE /\ bdm_io_sema = 0
        /\ call = [t \in Callers |-> NoCall]
    BY Zenon DEF Init, Sio2Init, DriveInit
  <2>2. "pc" \in DOMAIN mc /\ mc.pc = "idle"
    <3>1. mc = [pc |-> "idle", request |-> NoRequest, packet |-> <<>>, result |-> 1, answer |-> <<>>,
             size |-> 0, tot |-> 0, nth |-> 0,
             rpage |-> 0, rdoff |-> 0, rcoff |-> 0, wpage |-> 0, wroff |-> 0, wcoff |-> 0,
             dbuf |-> Erased, cbuf |-> ECC(Erased)]
      BY Zenon DEF Init, McEmuInit
    <3> QED BY <3>1
  <2>3. "pc" \in DOMAIN NoCall /\ NoCall.pc = "idle"
    BY DEF NoCall
  <2>4. /\ DOMAIN call = Callers
        /\ \A t \in Callers : "pc" \in DOMAIN call[t] /\ call[t].pc = "idle"
    BY <2>1, <2>3
  <2>5. \A a \in Users : ~Has(a) /\ ~HasPort(a)
    BY <2>1, <2>2, <2>4 DEF Has, HasPort, Locked, OnPort
  <2>6. Shape /\ LockInv
    BY <2>1, <2>2, <2>4, <2>5 DEF Shape, LockInv
  <2>7. PortInv /\ FlagInv /\ DriveInv /\ CardInv
    BY <2>1, <2>4
       DEF PortInv, FlagInv, DriveInv, CardInv, OnPort, InTransfer, Quiet, Callers
  <2> QED BY <2>6, <2>7 DEF PortLockInv
<1>2. PortLockInv /\ [Next]_vars => PortLockInv'
  <2> SUFFICES ASSUME PortLockInv, [Next]_vars PROVE PortLockInv'
    OBVIOUS
  <2>1. CASE PadStep
    BY <2>1, PadSteps
  <2>2. CASE PortStep
    BY <2>2, PortSteps
  <2>3. CASE CallStep
    <3>1. PICK t \in Callers : (MmceStep(t) /\ UNCHANGED driveVars) \/ FhiStep(t)
      BY <2>3 DEF CallStep
    <3>2. UNCHANGED mc
      BY <2>3 DEF CallStep
    <3> QED BY <3>1, <3>2, MmceSteps, FhiSteps
  <2>4. CASE DriveStep
    BY <2>4, DriveSteps
  <2>5. CASE CardStep
    BY <2>5, CardSteps
  <2>6. CASE \/ \E op \in left.ops : MmceCall(op)
             \/ HdlCall \/ BdfsCall \/ FhiCall \/ DiscReturns
    BY <2>6, DiscSteps
  <2>7. CASE UNCHANGED vars
    BY <2>7 DEF vars, PortLockInv, Shape, LockInv, Has, HasPort, PortInv, FlagInv, DriveInv,
                CardInv, sio2Vars, flagVars, driveVars
  <2> QED BY <2>1, <2>2, <2>3, <2>4, <2>5, <2>6, <2>7 DEF Next
<1> QED BY <1>1, <1>2, PTL DEF Spec

\* A transfer on the SIO2 port ends at the one who started it and leaves
\* nothing to the next one, and a drive is not taken from under a read
\* (sio2man_hook.c, mmce_sio2.c, fhi_bd), in every history.
THEOREM TransfersAreOwn == Spec => []TransferIsOwn
<1>1. PortLockInv => TransferIsOwn
  <2> SUFFICES ASSUME PortLockInv PROVE TransferIsOwn
    OBVIOUS
  <2> USE DEF PortLockInv
  <2>1. port.by = "mmce" => handler = "mmce"
    BY DEF PortInv, OnPort, InTransfer
  <2>2. port.by = "pad" => handler = "sio2man"
    BY Alone DEF PortInv, Locked
  <2>3. (\A t \in Callers : call[t].pc \notin {"started", "waiting"}) => bits = {} /\ ~alarm
    BY DEF FlagInv, InTransfer
  <2>4. \A t \in Callers : call[t].pc = "defrag" => g_bd
    BY DEF DriveInv
  <2> QED BY <2>1, <2>2, <2>3, <2>4 DEF TransferIsOwn
<1> QED BY <1>1, PortLock, PTL

\* Nobody who has the port waits for the second semaphore: it is free
\* whenever the one who may take it next is about to, and never taken by
\* anybody else, so that two users cannot wait for each other
\* (mmce_sio2_lock, sio2man_hook.c).
SecondIsFree ==
    (pad = "begun" \/ \E t \in Callers : call[t].pc = "lock2") => sema.lock_sema2 = 1
THEOREM PortIsWhole == Spec => []SecondIsFree
<1>1. PortLockInv => SecondIsFree
  <2> SUFFICES ASSUME PortLockInv PROVE SecondIsFree
    OBVIOUS
  <2>1. (pad = "begun" \/ \E t \in Callers : call[t].pc = "lock2")
          => \A a \in Users : ~HasPort(a)
    BY Alone DEF PortLockInv, HasPort, Locked, OnPort
  <2> QED BY <2>1 DEF PortLockInv, LockInv, SecondIsFree
<1> QED BY <1>1, PortLock, PTL
====

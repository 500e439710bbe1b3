---- MODULE Sio2 ----
(***************************************************************************)
(* The SIO2 port shared by the pads, the memory card driver and the MMCE   *)
(* drivers: the two semaphores of sio2man_hook.c around sio2man, and one   *)
(* transfer of mmce_sio2.c, which replaces sio2man's interrupt handler,    *)
(* starts the port and waits for one event flag that the interrupt and a   *)
(* timeout alarm set.  The hooks are in place; padman is one thread.       *)
(***************************************************************************)
EXTENDS Integers, Sequences, FiniteSets

CONSTANTS
    UseAlarm,  \* mmce_sio2_use_alarm, for the transfers that ask for it
    Histories  \* what is asked for, of whom, and what may go wrong

ASSUME Sio2Assumption == UseAlarm \in BOOLEAN

VARIABLES
    sema,     \* lock_sema and lock_sema2
    handler,  \* whose interrupt handler entry 17 is
    bits,     \* event_flag
    alarm,    \* whether the timeout alarm is set
    port,     \* the transfer on the port
    pad,      \* where padman is
    resbits,  \* what WaitEventFlag gives the thread that waits
    call,     \* what each thread that uses a device is doing
    left      \* what may still be asked for, and go wrong

flagVars == <<bits, alarm, resbits>>
sio2Vars == <<sema, handler, flagVars, port>>

\* The threads: the caller of file and sector reads, and the memory card
\* driver, whose card is virtual.
Callers == {"disc", "card"}

Quiet == [by |-> "none", st |-> "idle"]

At(t, pc) == call' = [call EXCEPT ![t].pc = pc]
Spent(what) == left' = [left EXCEPT ![what] = @ - 1]
Fault == left.faults > 0 /\ Spent("faults")

Sio2Init ==
    /\ sema = [lock_sema |-> 1, lock_sema2 |-> 1]
    /\ handler = "sio2man"
    /\ bits = {} /\ resbits = {} /\ alarm = FALSE
    /\ port = Quiet
    /\ pad = "idle"

Taken(s) == [sema EXCEPT ![s] = @ - 1]
Given(s) == [sema EXCEPT ![s] = 1]

-----------------------------------------------------------------------------
(* padman, through the hooked calls of sio2man.                            *)

PadTransferInit ==
    /\ pad = "idle" /\ left.pads > 0 /\ sema.lock_sema > 0
    /\ sema' = Taken("lock_sema")
    /\ pad' = "begun"
    /\ Spent("pads")
    /\ UNCHANGED <<handler, flagVars, port, call>>

PadTransfer ==
    /\ pad = "begun" /\ sema.lock_sema2 > 0
    /\ sema' = Taken("lock_sema2")
    /\ port' = [by |-> "pad", st |-> "busy"]
    /\ pad' = "sent"
    /\ UNCHANGED <<handler, flagVars, call, left>>

PadTransferDone ==
    /\ pad = "told"
    /\ sema' = Given("lock_sema2")
    /\ pad' = "over"
    /\ UNCHANGED <<handler, flagVars, port, call, left>>

PadTransferReset ==
    /\ pad = "over"
    /\ sema' = Given("lock_sema")
    /\ pad' = "idle"
    /\ UNCHANGED <<handler, flagVars, port, call, left>>

-----------------------------------------------------------------------------
(* mmce_sio2.c: the port for one operation, and one transfer.              *)

\* A mutant: the other order.
LockOrderSwapped == <<"lock_sema2", "lock_sema">>
LockOrder == <<"lock_sema", "lock_sema2">>

Lock(t) ==
    /\ call[t].pc = "lock" /\ sema[LockOrder[1]] > 0
    /\ sema' = Taken(LockOrder[1])
    /\ At(t, "lock2")
    /\ UNCHANGED <<handler, flagVars, port>>

Lock2(t) ==
    /\ call[t].pc = "lock2" /\ sema[LockOrder[2]] > 0
    /\ sema' = Taken(LockOrder[2])
    /\ handler' = "mmce"
    /\ At(t, "send")
    /\ UNCHANGED <<flagVars, port>>

Unlocked ==
    /\ handler' = "sio2man"
    /\ sema' = [lock_sema |-> 1, lock_sema2 |-> 1]
    /\ UNCHANGED <<flagVars, port>>

\* The port is reset and the transfer started, muted when the card will not
\* answer, and the alarm set; dma: only when alarms are in use.
Started(mute, dma) ==
    /\ port' = [by |-> "mmce", st |-> IF mute THEN "mute" ELSE "busy"]
    /\ alarm' = (alarm \/ ~dma \/ UseAlarm)
    /\ UNCHANGED <<sema, handler, bits, resbits>>

\* WaitEventFlag, which returns at once when a bit is set already.
WaitFlag(t) ==
    /\ call[t].pc = "started"
    /\ resbits' = bits
    /\ At(t, "waiting")
    /\ UNCHANGED <<sema, handler, bits, alarm, port>>

Woken(set) == IF resbits = {} /\ \E t \in Callers : call[t].pc = "waiting"
              THEN set ELSE resbits

\* The transfer ends: the handler in entry 17 tells its owner.
mmce_sio2_intr_handler ==
    /\ port.st = "busy" /\ handler = "mmce"
    /\ port' = Quiet
    /\ bits' = bits \union {"complete"}
    /\ resbits' = Woken(bits')
    /\ UNCHANGED <<sema, handler, alarm, pad, call, left>>

Sio2manInterrupt ==
    /\ port.st = "busy" /\ handler = "sio2man"
    /\ port' = Quiet
    /\ pad' = IF pad = "sent" THEN "told" ELSE pad
    /\ UNCHANGED <<sema, handler, flagVars, call, left>>

\* The alarm of a transfer that works is a fault of the card: it was slow.
mmce_sio2_timeout_handler ==
    /\ alarm
    /\ IF port.st = "mute" THEN UNCHANGED left ELSE Fault
    /\ alarm' = FALSE
    /\ bits' = bits \union {"timeout"}
    /\ resbits' = Woken(bits')
    /\ UNCHANGED <<sema, handler, port, pad, call>>

Late(t) == call[t].pc = "waiting" /\ "timeout" \in resbits
Done(t) == call[t].pc = "waiting" /\ "timeout" \notin resbits /\ resbits # {}

\* The port is reset and the flag cleared: nothing of the transfer is left.
\* A mutant: the flag keeps its bits.
TimedOutKeepsFlag == port' = Quiet /\ resbits' = {}
                     /\ UNCHANGED <<sema, handler, bits, alarm>>
TimedOut == port' = Quiet /\ bits' = {} /\ resbits' = {}
            /\ UNCHANGED <<sema, handler, alarm>>

Completed == alarm' = FALSE /\ bits' = {} /\ resbits' = {}
             /\ UNCHANGED <<sema, handler, port>>
====

---- MODULE CdvdRead ----
(***************************************************************************)
(* The drive that neutrino/iop/cdvdman_emu emulates: one read at a time,   *)
(* guarded by sync_flag_locked, done by cdvdman_read_thread and ended by   *)
(* event_alarm_cb, which releases the lock and calls the user's and the    *)
(* streaming callback from interrupt context.                              *)
(***************************************************************************)
EXTENDS Integers, Sequences, FiniteSets

CONSTANTS
    Bankmax,    \* banks of the buffers that are looked at
    Banksize,   \* sectors of a bank
    MediaEnd,   \* fhi_get_lsn(): sectors of the disc, 0 when unknown
    MaxFaults   \* bound: reads the device fails

ASSUME DriveAssumption ==
    /\ Bankmax \in Nat \ {0} /\ Banksize \in Nat \ {0}
    /\ MediaEnd \in Nat /\ MaxFaults \in Nat

VARIABLES
    drv,      \* the lock, the request, the semaphore and the event flag
    rt,       \* where cdvdman_read_thread is
    cur,      \* its copy of the request, and how far it got
    reason,   \* cb_data.reason
    cbAlarm,  \* the alarm that runs event_alarm_cb is set
    err,      \* cdvdman_stat.err
    slots,    \* lsn held by each sector of these buffers, -1 for none
    faults    \* reads failed so far

driveVars == <<drv, rt, cur, reason, cbAlarm, err, slots, faults>>

Bufmax == Bankmax * Banksize
Slot == 0 .. Bufmax - 1

\* A request: its slot is where in these buffers the data go; a read of the
\* game has a buffer of its own, of no interest here.
GameRead == [to |-> "game", slot |-> 0, lsn |-> 0, n |-> 1]

DriveInit ==
    /\ drv = [locked |-> FALSE, req |-> GameRead, sema |-> 0,
              ef |-> {"UNLOCKED"}]
    /\ rt = "wait" /\ cur = [req |-> GameRead, done |-> 0]
    /\ reason = "Other" /\ cbAlarm = FALSE
    /\ err = "NO" /\ slots = [s \in Slot |-> -1] /\ faults = 0

\* A mutant: the lock is not looked at.
SubmitAlways(d, r) ==
    [d EXCEPT !.locked = TRUE, !.ef = @ \ {"UNLOCKED"}, !.req = r,
              !.sema = 1]
\* sceCdRead_internal: refused while the lock is held.
Submit(d, r) ==
    IF d.locked THEN d
    ELSE [locked |-> TRUE, ef |-> d.ef \ {"UNLOCKED"}, req |-> r, sema |-> 1]

\* event_alarm_cb: only the end of a read releases the lock.
Unlock(d) ==
    IF reason # "Read" THEN d
    ELSE [d EXCEPT !.locked = FALSE, !.ef = @ \cup {"UNLOCKED"}]

\* ------------------------------------------------------ cdvdman_read_thread

Beyond(lsn) == MediaEnd > 0 /\ lsn >= MediaEnd

\* cdvdman_read_thread takes the request, and the test at the start of
\* cdvdman_read_sectors.
ReadTake ==
    /\ rt = "wait" /\ drv.sema = 1
    /\ drv' = [drv EXCEPT !.sema = 0]
    /\ cur' = [req |-> drv.req, done |-> 0]
    /\ err' = IF Beyond(drv.req.lsn) THEN "IPI" ELSE "NO"
    /\ rt' = IF Beyond(drv.req.lsn) THEN "reason" ELSE "read"
    /\ UNCHANGED <<reason, cbAlarm, slots, faults>>

\* The request reaches past the end of the disc: what there is is read, and
\* the error set when that is over, whether or not the device failed.
PastEnd(r) == Beyond(r.lsn + r.n - 1)

\* One sector
ReadSector ==
    /\ rt = "read"
    /\ LET r == cur.req
           next == cur.done + 1
           over == next = r.n \/ Beyond(r.lsn + next)
       IN /\ slots' = IF r.to = "game" THEN slots
                      ELSE [slots EXCEPT ![r.slot + cur.done] =
                                           r.lsn + cur.done]
          /\ rt' = IF over THEN "reason" ELSE "read"
          /\ err' = IF over /\ PastEnd(r) THEN "EOM" ELSE err
    /\ cur' = [cur EXCEPT !.done = @ + 1]
    /\ UNCHANGED <<drv, reason, cbAlarm, faults>>

\* fhi_read_sectors fails: the rest of the request is left unread.
ReadFault ==
    /\ rt = "read" /\ faults < MaxFaults
    /\ faults' = faults + 1
    /\ err' = IF PastEnd(cur.req) THEN "EOM" ELSE "READ"
    /\ rt' = "reason"
    /\ UNCHANGED <<drv, cur, reason, cbAlarm, slots>>

\* cdvdman_cb_event: the reason, the flag and the alarm are set one by one.
ReadReason ==
    /\ rt = "reason" /\ rt' = "clear"
    /\ reason' = "Read"
    /\ UNCHANGED <<drv, cur, cbAlarm, err, slots, faults>>

ReadClear ==
    /\ rt = "clear" /\ rt' = "arm"
    /\ drv' = [drv EXCEPT !.ef = @ \ {"CB_DONE"}]
    /\ UNCHANGED <<cur, reason, cbAlarm, err, slots, faults>>

\* SetAlarm fails when the alarm is set already.  The thread then waits for
\* the flag, which the alarm raises (EventAlarm).
ReadArm ==
    /\ rt = "arm" /\ rt' = "end"
    /\ cbAlarm' = TRUE
    /\ UNCHANGED <<drv, cur, reason, err, slots, faults>>

ReadThread ==
    \/ ReadTake \/ ReadSector \/ ReadFault
    \/ ReadReason \/ ReadClear \/ ReadArm

\* The read thread has priority 8: a thread of the game runs when it blocks,
\* on the semaphore, on the device or on the event flag.
ReadThreadBlocked ==
    \/ rt = "wait" /\ drv.sema = 0
    \/ rt = "read"
    \/ rt = "end"
====

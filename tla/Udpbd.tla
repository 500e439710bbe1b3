------------------------------ MODULE Udpbd ------------------------------
(***************************************************************************)
(* The UDPBD block device (neutrino/iop/udpbd): reads and writes of        *)
(* sectors over UDP, one command at a time, its answer awaited on an event *)
(* flag that an alarm raises too.  The server is not part of the           *)
(* repository; it answers as udpbd.h lays down.                            *)
(***************************************************************************)
EXTENDS Integers, Sequences, FiniteSets

CONSTANTS
    SectorCount,  \* g_udpbd.sectorCount
    MaxRead,      \* UDPBD_MAX_SECTOR_READ
    MaxRetries,   \* UDPBD_MAX_RETRIES
    CmdIds,       \* values of the header's cmdid
    Ops,          \* the operations that are called
    Late,         \* those whose answer may come after the alarm
    MaxCalls,     \* bound: calls
    MaxLost,      \* bound: packets lost or not sent
    MaxEarly      \* bound: alarms that come before the answer

ASSUME UdpbdAssumption ==
    /\ SectorCount \in Nat \ {0} /\ MaxRead \in Nat \ {0}
    /\ MaxRetries \in Nat \ {0} /\ CmdIds \in Nat \ {0, 1}
    /\ Ops \subseteq {"read", "write"} /\ Late \subseteq Ops
    /\ MaxCalls \in Nat /\ MaxLost \in Nat /\ MaxEarly \in Nat

VARIABLES
    c,          \* the caller, in udpbd_read or udpbd_write; clear (history):
                \* its commands were all sent with no bit set in g_ev_done
    rx,         \* what udpbd_isr shares with it
    ef,         \* g_ev_done
    alarm,      \* _udpbd_timeout is set
    connected,  \* bdm_connected
    buf,        \* the caller's buffer (0: not written)
    toServer, toClient,  \* packets under way
    srv,        \* the server: its disc, and the write it is receiving
    lost, early, calls   \* packets lost or not sent, early alarms, calls

vars == <<c, rx, ef, alarm, connected, buf, toServer, toClient, srv,
          lost, early, calls>>

Sector == 0 .. SectorCount - 1
\* A sector holds the number of the write that wrote it.
Version == 1 .. MaxCalls + 1
NoWrite == [id |-> 0, sector |-> 0, left |-> 0, pkt |-> 0]

Id == 0 .. CmdIds - 1
ToServer ==
    [cmd : {"INFO"}, id : Id] \cup
    {p \in [cmd : {"READ", "WRITE"}, id : Id, sector : Sector,
            n : 1 .. SectorCount] : p.sector + p.n <= SectorCount} \cup
    [cmd : {"DATA"}, id : Id, pkt : Nat, data : Version]
ToClient ==
    [cmd : {"INFO_REPLY"}, id : Id] \cup
    [cmd : {"DATA"}, id : Id, pkt : Nat, data : Version] \cup
    [cmd : {"DONE"}, id : Id, ok : BOOLEAN]

Init ==
    /\ c = [pc |-> "idle", op |-> "none", sector |-> 0, n |-> 0, left |-> 0,
            retries |-> 0, bits |-> {}, res |-> "none", clear |-> TRUE]
    /\ rx = [id |-> 0, armed |-> FALSE, size |-> 0, pkt |-> 0, act |-> 0]
    /\ ef = {} /\ alarm = FALSE /\ connected = FALSE
    /\ buf = [i \in Sector |-> 0]
    /\ toServer = <<[cmd |-> "INFO", id |-> 0]>> /\ toClient = <<>>
    /\ srv = [disc |-> [s \in Sector |-> 1], write |-> NoWrite]
    /\ lost = 0 /\ early = 0 /\ calls = 0

----------------------------------------------------------------------------

Lesser(a, b) == IF a < b THEN a ELSE b
NetKept == UNCHANGED <<toServer, toClient, srv, lost, early>>

\* The block device manager calls once the device is connected; udpbd_read
\* and udpbd_write refuse a sector past the end and shorten the count.
Call ==
    /\ c.pc = "idle" /\ calls < MaxCalls /\ calls' = calls + 1
    /\ calls = 0 => connected
    /\ \E op \in Ops, s \in 0 .. SectorCount, n \in 1 .. SectorCount :
         LET count == Lesser(n, SectorCount - s)
             ok == connected /\ s < SectorCount
         IN c' = [c EXCEPT !.pc = IF ok THEN "command" ELSE "idle",
                           !.op = op, !.sector = IF ok THEN s ELSE 0,
                           !.n = count, !.left = count, !.retries = 0,
                           !.clear = TRUE,
                           !.res = IF ok THEN "none" ELSE "error"]
    /\ buf' = [i \in Sector |-> 0]
    /\ UNCHANGED <<rx, ef, alarm, connected>> /\ NetKept

NextId(id) == (id + 1) % CmdIds

\* Nothing of a command is held up for as long as it takes the numbers to
\* come round, CmdIds commands and their alarms: its packets have arrived or
\* are lost, and the server has given up the write that was cut off.
Fresh(net, id) == \A i \in 1 .. Len(net) : net[i].id # id
GivenUp(id) ==
    IF srv.write.id = id THEN [srv EXCEPT !.write = NoWrite] ELSE srv

Block == Lesser(c.left, MaxRead)
Data(id, n, ver) ==
    [i \in 1 .. n |-> [cmd |-> "DATA", id |-> id, pkt |-> i, data |-> ver]]

\* A mutant: the alarm is not set.
NoAlarm == alarm' = alarm
SetAlarm == alarm' = TRUE
Sent == c' = [c EXCEPT !.pc = "wait", !.clear = @ /\ ef = {}]

\* What _udpbd_read and udpbd_write set up, and what they send.
Armed(id) ==
    IF c.op = "read"
      THEN [id |-> id, armed |-> TRUE, size |-> Block, pkt |-> 1,
            act |-> c.n - c.left]
      ELSE [rx EXCEPT !.id = id]
Command(id) ==
    IF c.op = "read"
      THEN <<[cmd |-> "READ", id |-> id, n |-> Block,
              sector |-> c.sector + c.n - c.left]>>
      ELSE <<[cmd |-> "WRITE", id |-> id, n |-> c.n, sector |-> c.sector]>>
           \o Data(id, c.n, calls + 1)

\* The command goes out, a write's data with it, and the alarm is set.
Send ==
    /\ c.pc = "command"
    /\ LET id == NextId(rx.id)
       IN /\ Fresh(toServer, id) /\ Fresh(toClient, id)
          /\ rx' = Armed(id) /\ srv' = GivenUp(id)
          /\ toServer' = toServer \o Command(id)
    /\ SetAlarm /\ Sent
    /\ UNCHANGED <<ef, connected, buf, toClient, lost, early, calls>>

\* A mutant: the wait does not clear the flag.
Kept == ef
Cleared == {}

\* WaitEventFlag with WEF_CLEAR
Wake ==
    /\ c.pc = "wait" /\ ef # {}
    /\ c' = [c EXCEPT !.pc = "woken", !.bits = ef] /\ ef' = Cleared
    /\ UNCHANGED <<rx, alarm, connected, buf, calls>> /\ NetKept

CancelAlarm ==
    /\ c.pc = "woken" /\ c' = [c EXCEPT !.pc = "end"]
    /\ alarm' = FALSE
    /\ UNCHANGED <<rx, ef, connected, buf, calls>> /\ NetKept

Done == "done" \in c.bits
Disarmed == [rx EXCEPT !.armed = FALSE, !.size = 0, !.pkt = 0, !.act = 0]

\* A try of udpbd_read is over: the next block, another try, or the device
\* is given up.
ReadTried(done) ==
    LET left == IF done THEN c.left - Block ELSE c.left
        tries == IF done THEN 0 ELSE c.retries + 1
        res == IF left = 0 THEN "ok"
               ELSE IF tries = MaxRetries THEN "error" ELSE "none"
    IN /\ c' = [c EXCEPT !.pc = IF res = "none" THEN "command" ELSE "idle",
                         !.left = left, !.retries = tries, !.bits = {},
                         !.res = res]
       /\ connected' = (connected /\ res # "error")

EndRead ==
    /\ c.pc = "end" /\ c.op = "read" /\ rx' = Disarmed
    /\ ReadTried(Done)
    /\ UNCHANGED <<ef, alarm, buf, calls>> /\ NetKept

Written(done) ==
    /\ c' = [c EXCEPT !.pc = "idle", !.bits = {},
                      !.res = IF done THEN "ok" ELSE "error"]
    /\ UNCHANGED connected

EndWrite ==
    /\ c.pc = "end" /\ c.op = "write" /\ Written(Done)
    /\ UNCHANGED <<rx, ef, alarm, buf, calls>> /\ NetKept

\* A packet cannot be sent: the function returns there, its buffer armed,
\* with what went out before.
SendFails ==
    /\ c.pc = "command" /\ lost < MaxLost /\ lost' = lost + 1
    /\ LET id == NextId(rx.id)
       IN /\ Fresh(toServer, id) /\ Fresh(toClient, id)
          /\ rx' = Armed(id) /\ srv' = GivenUp(id)
          /\ \E k \in 0 .. Len(Command(id)) - 1 :
               toServer' = toServer \o SubSeq(Command(id), 1, k)
    /\ IF c.op = "read" THEN ReadTried(FALSE) ELSE Written(FALSE)
    /\ UNCHANGED <<ef, alarm, buf, toClient, early, calls>>

\* _udpbd_timeout.  It is due when no answer is under way; earlier, it is the
\* answer that is late.
AlarmFires ==
    /\ alarm /\ alarm' = FALSE
    /\ \/ toServer = <<>> /\ toClient = <<>> /\ ef = {} /\ c.pc = "wait"
          /\ UNCHANGED early
       \/ c.op \in Late /\ early < MaxEarly /\ early' = early + 1
    /\ rx' = [rx EXCEPT !.size = 0] /\ ef' = ef \cup {"failed"}
    /\ UNCHANGED <<c, connected, buf, toServer, toClient, srv, lost, calls>>

\* -------------------------------------------------------------- udpbd_isr

\* A mutant: a packet of an earlier command is taken.
Always(p) == TRUE
\* The packet belongs to the current command.
Current(p) == p.id = rx.id
InOrder(p) == p.pkt = rx.pkt

\* _cmd_read_rdma
ReceiveData(p) ==
    IF ~rx.armed THEN UNCHANGED <<rx, ef, buf>>
    ELSE IF ~InOrder(p)
      THEN /\ rx' = [rx EXCEPT !.size = 0] /\ ef' = ef \cup {"failed"}
           /\ UNCHANGED buf
    ELSE /\ buf' = [buf EXCEPT ![rx.act] = p.data]
         /\ rx' = [rx EXCEPT !.pkt = @ + 1, !.act = @ + 1, !.size = @ - 1]
         /\ ef' = IF rx.size = 1 THEN ef \cup {"done"} ELSE ef

Receive ==
    /\ toClient # <<>> /\ toClient' = Tail(toClient)
    /\ LET p == Head(toClient)
       IN CASE ~Current(p) -> UNCHANGED <<rx, ef, buf, connected>>
            [] Current(p) /\ p.cmd = "INFO_REPLY" ->
                 connected' = TRUE /\ UNCHANGED <<rx, ef, buf>>
            [] Current(p) /\ p.cmd = "DATA" ->
                 ReceiveData(p) /\ UNCHANGED connected
            [] Current(p) /\ p.cmd = "DONE" ->
                 /\ ef' = ef \cup {IF p.ok THEN "done" ELSE "failed"}
                 /\ UNCHANGED <<rx, buf, connected>>
    /\ UNCHANGED <<c, alarm, toServer, srv, lost, early, calls>>

\* ------------------------------------------------- the server, the network

WriteDone(p, ok) == [cmd |-> "DONE", id |-> p.id, ok |-> ok]

\* A data packet of the write in progress; one that does not follow is
\* answered with an error, or not at all.
Store(p) ==
    LET w == srv.write
    IN IF w.left > 0 /\ p.id = w.id /\ p.pkt = w.pkt
         THEN /\ srv' = [disc |-> [srv.disc EXCEPT ![w.sector] = p.data],
                         write |-> [w EXCEPT !.sector = @ + 1, !.left = @ - 1,
                                             !.pkt = @ + 1]]
              /\ toClient' = IF w.left = 1
                               THEN Append(toClient, WriteDone(p, TRUE))
                               ELSE toClient
         ELSE /\ srv' = [srv EXCEPT !.write = NoWrite]
              /\ toClient' \in {toClient, Append(toClient, WriteDone(p, FALSE))}

Serve ==
    /\ toServer # <<>> /\ toServer' = Tail(toServer)
    /\ LET p == Head(toServer)
       IN CASE p.cmd = "INFO" ->
                 /\ toClient' = Append(toClient,
                                       [cmd |-> "INFO_REPLY", id |-> p.id])
                 /\ UNCHANGED srv
            [] p.cmd = "READ" ->
                 /\ toClient' = toClient \o
                      [i \in 1 .. p.n |->
                         [cmd |-> "DATA", id |-> p.id, pkt |-> i,
                          data |-> srv.disc[p.sector + i - 1]]]
                 /\ srv' = [srv EXCEPT !.write = NoWrite]
            [] p.cmd = "WRITE" ->
                 /\ srv' = [srv EXCEPT !.write =
                              [id |-> p.id, sector |-> p.sector,
                               left |-> p.n, pkt |-> 1]]
                 /\ UNCHANGED toClient
            [] p.cmd = "DATA" -> Store(p)
    /\ UNCHANGED <<c, rx, ef, alarm, connected, buf, lost, early, calls>>

Lose ==
    /\ lost < MaxLost /\ lost' = lost + 1
    /\ \/ toServer # <<>> /\ toServer' = Tail(toServer) /\ UNCHANGED toClient
       \/ toClient # <<>> /\ toClient' = Tail(toClient) /\ UNCHANGED toServer
    /\ UNCHANGED <<c, rx, ef, alarm, connected, buf, srv, early, calls>>

Step == Send \/ Wake \/ CancelAlarm \/ EndRead \/ EndWrite
Next == Call \/ Step \/ AlarmFires \/ Receive \/ Serve \/ Lose \/ SendFails

Spec == Init /\ [][Next]_vars
\* A thread that can run does, the alarm rings, the interrupt thread takes
\* what arrives and the network delivers or loses.
FairSpec == Spec /\ WF_vars(Step) /\ WF_vars(AlarmFires)
                 /\ WF_vars(Receive) /\ WF_vars(Serve)

----------------------------------------------------------------------------

Caller ==
    [pc : {"idle", "command", "wait", "woken", "end"}, op : Ops \cup {"none"},
     sector : Sector, n : 0 .. SectorCount, left : 0 .. SectorCount,
     retries : 0 .. MaxRetries, bits : SUBSET {"done", "failed"},
     res : {"none", "ok", "error"}, clear : BOOLEAN]
Receiver ==
    [id : Id, armed : BOOLEAN, size : Int, pkt : Nat, act : 0 .. SectorCount]
Server ==
    [disc : [Sector -> Version],
     write : [id : Id, sector : Nat, left : Nat, pkt : Nat]]

\* Every variable holds a value of its type.
TypeOK ==
    /\ c \in Caller /\ rx \in Receiver /\ srv \in Server
    /\ ef \in SUBSET {"done", "failed"}
    /\ alarm \in BOOLEAN /\ connected \in BOOLEAN
    /\ buf \in [Sector -> Version \cup {0}]
    /\ toServer \in Seq(ToServer) /\ toClient \in Seq(ToClient)
    /\ lost \in 0 .. MaxLost /\ early \in 0 .. MaxEarly
    /\ calls \in 0 .. MaxCalls

Returned(op) == c.pc = "idle" /\ c.op = op /\ c.res = "ok"

\* udpbd_read that returns the count has put the sectors of the disc in the
\* buffer, whatever was lost, late or left over of earlier commands.
ReadIsRight ==
    Returned("read") =>
      \A i \in 0 .. c.n - 1 : buf[i] = srv.disc[c.sector + i]

\* In the same way udpbd_write that returns the count has its data on the
\* server.
WriteIsDone ==
    Returned("write") =>
      \A i \in 0 .. c.n - 1 : srv.disc[c.sector + i] = calls + 1

\* A call tells the truth, whatever is lost or late, when no command of it
\* was sent while g_ev_done held a bit of an earlier one: a packet of another
\* command or out of order never completes it.
ClearCallIsDone == c.clear => ReadIsRight /\ WriteIsDone

\* The device is given up (bdm_disconnect_bd) only after more than one
\* packet was lost or late, the wake-ups left over by a failed try included.
OneFaultSurvived ==
    c.res = "error" /\ c.op = "read" /\ c.n > 0 /\ c.retries = MaxRetries =>
      lost + early > 1

\* Every call returns: an answer that does not come is made up for by the
\* alarm, and tries are counted (UDPBD_MAX_RETRIES).
CallsReturn == (c.pc # "idle") ~> (c.pc = "idle")
==========================================================================

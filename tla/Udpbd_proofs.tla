--------------------------- MODULE Udpbd_proofs ---------------------------
(***************************************************************************)
(* A call of the UDPBD client tells the truth, for every number of         *)
(* sectors, calls, losses and early alarms: the invariant that ties what   *)
(* is under way to the command it belongs to.  And one fault is survived:  *)
(* the invariant that counts the tries it makes fail.                      *)
(***************************************************************************)
EXTENDS Udpbd, TLAPS, SequenceTheorems

USE UdpbdAssumption

Active == c.pc \in {"wait", "woken", "end"}
Reading == Active /\ c.op = "read"
Writing == Active /\ c.op = "write"

\* The sectors of the call that its finished blocks have read.
First == c.n - c.left
Bits == ef \cup c.bits

OnDisc(k) == \A j \in 0 .. k - 1 : srv.disc[c.sector + j] = calls + 1
InBuffer(k) == \A j \in 0 .. k - 1 : buf[j] = srv.disc[c.sector + j]
NoData == \A i \in 1 .. Len(toServer) : toServer[i].cmd # "DATA"

\* The types, with what each variable may hold in the states of a call.
Typing ==
    /\ TypeOK
    /\ c.left <= c.n /\ c.sector + c.n <= SectorCount
    /\ c.pc # "idle" => /\ c.left > 0 /\ c.op # "none" /\ c.res = "none"
                        /\ c.retries < MaxRetries
    /\ c.pc \in {"idle", "command", "wait"} => c.bits = {}
    /\ c.op = "read" /\ c.res = "ok" => c.left = 0

(* What is under way of the current command: its packets to the server are *)
(* the last ones, and every answer is one to it.                           *)
WriteSent ==
    Writing => \A i \in 1 .. Len(toServer) :
      /\ i < Len(toServer) - c.n => toServer[i].id # rx.id
      /\ i = Len(toServer) - c.n =>
           toServer[i] = [cmd |-> "WRITE", id |-> rx.id, n |-> c.n,
                          sector |-> c.sector]
      /\ i > Len(toServer) - c.n =>
           toServer[i] = [cmd |-> "DATA", id |-> rx.id,
                          pkt |-> c.n - Len(toServer) + i,
                          data |-> calls + 1]
WriteServed ==
    Writing /\ srv.write.id = rx.id /\ srv.write.left > 0 =>
      /\ Len(toServer) <= c.n
      /\ srv.write.pkt >= 1
      /\ srv.write.left = c.n - srv.write.pkt + 1
      /\ srv.write.sector = c.sector + srv.write.pkt - 1
      /\ OnDisc(srv.write.pkt - 1)
WriteAnswered ==
    Writing => \A i \in 1 .. Len(toClient) :
      toClient[i].id = rx.id =>
        /\ toClient[i].cmd = "DONE"
        /\ toClient[i].ok => toServer = <<>> /\ OnDisc(c.n)
WriteProgress ==
    Writing /\ c.clear /\ "done" \in Bits => toServer = <<>> /\ OnDisc(c.n)
WriteKept ==
    Returned("write") /\ c.clear => toServer = <<>> /\ OnDisc(c.n)

ReadSent ==
    Reading => \A i \in 1 .. Len(toServer) :
      toServer[i].id = rx.id =>
        /\ i = Len(toServer)
        /\ toServer[i] = [cmd |-> "READ", id |-> rx.id, n |-> Block,
                          sector |-> c.sector + First]
ReadAnswered ==
    Reading => \A i \in 1 .. Len(toClient) :
      toClient[i].id = rx.id =>
        /\ toServer = <<>>
        /\ toClient[i].cmd = "DATA"
        /\ toClient[i].pkt \in 1 .. Block
        /\ toClient[i].data = srv.disc[c.sector + First + toClient[i].pkt - 1]
ReadProgress ==
    Reading =>
      /\ rx.armed
      /\ rx.pkt \in 1 .. Block + 1 /\ rx.act = First + rx.pkt - 1
      /\ rx.size > 0 => rx.size = Block - rx.pkt + 1
      /\ rx.size <= Block - rx.pkt + 1
      /\ rx.pkt > 1 => toServer = <<>>
      /\ \A j \in First .. rx.act - 1 : buf[j] = srv.disc[c.sector + j]
      /\ c.clear /\ "done" \in Bits => rx.pkt = Block + 1
ReadKept ==
    c.op = "read" /\ c.clear => InBuffer(First) /\ (First > 0 => NoData)

\* A buffer left armed by a command that could not be sent is not filled.
LeftArmed ==
    ~Active /\ rx.armed =>
      /\ \A i \in 1 .. Len(toClient) :
           toClient[i].id = rx.id => toClient[i].cmd # "DATA"
      /\ \A i \in 1 .. Len(toServer) :
           toServer[i].id = rx.id => toServer[i].cmd # "READ"

WriteInv == WriteSent /\ WriteServed /\ WriteAnswered /\ WriteProgress
            /\ WriteKept
ReadInv == ReadSent /\ ReadAnswered /\ ReadProgress /\ ReadKept /\ LeftArmed
ClearInv == Typing /\ WriteInv /\ ReadInv
----------------------------------------------------------------------------

LEMMA Packets ==
    /\ \A p \in ToServer : p.id \in Id
    /\ \A p \in ToServer : p.cmd \in {"INFO", "READ", "WRITE", "DATA"}
    /\ \A p \in ToServer : p.cmd \in {"READ", "WRITE"} =>
         /\ p.sector \in Sector /\ p.n \in 1 .. SectorCount
         /\ p.sector + p.n <= SectorCount
    /\ \A p \in ToServer : p.cmd = "DATA" => p.pkt \in Nat /\ p.data \in Version
    /\ \A p \in ToClient : p.id \in Id
    /\ \A p \in ToClient : p.cmd \in {"INFO_REPLY", "DATA", "DONE"}
    /\ \A p \in ToClient : p.cmd = "DATA" => p.pkt \in Nat /\ p.data \in Version
    /\ \A p \in ToClient : p.cmd = "DONE" => p.ok \in BOOLEAN
BY DEF ToServer, ToClient

LEMMA InitTyped == Init => Typing
<1> SUFFICES ASSUME Init PROVE Typing
  OBVIOUS
<1>1. 0 \in Sector /\ 1 \in Version /\ 0 \in Id
  BY DEF Sector, Version, Id
<1>2. c \in Caller /\ rx \in Receiver /\ srv \in Server
  BY <1>1 DEF Init, Caller, Receiver, Server, NoWrite
<1>3. toServer \in Seq(ToServer) /\ toClient \in Seq(ToClient)
  BY <1>1, EmptySeq DEF Init, ToServer
<1>4. TypeOK
  BY <1>1, <1>2, <1>3 DEF Init, TypeOK
<1>5. QED BY <1>4 DEF Init, Typing

LEMMA CallTyped == Typing /\ Call => Typing'
<1> SUFFICES ASSUME Typing, Call PROVE Typing'
  OBVIOUS
<1>1. PICK op \in Ops, s \in 0 .. SectorCount, n \in 1 .. SectorCount :
        LET count == Lesser(n, SectorCount - s)
            ok == connected /\ s < SectorCount
        IN c' = [c EXCEPT !.pc = IF ok THEN "command" ELSE "idle",
                          !.op = op, !.sector = IF ok THEN s ELSE 0,
                          !.n = count, !.left = count, !.retries = 0,
                          !.clear = TRUE,
                          !.res = IF ok THEN "none" ELSE "error"]
  BY DEF Call
<1> DEFINE count == Lesser(n, SectorCount - s)
           ok == connected /\ s < SectorCount
<1>2. /\ count \in 0 .. SectorCount /\ s + count <= SectorCount
      /\ s < SectorCount => count > 0
      /\ (IF ok THEN s ELSE 0) \in Sector
      /\ (IF ok THEN "command" ELSE "idle") \in
           {"idle", "command", "wait", "woken", "end"}
      /\ (IF ok THEN "none" ELSE "error") \in {"none", "ok", "error"}
      /\ op \in Ops \cup {"none"} /\ 0 \in 0 .. MaxRetries /\ TRUE \in BOOLEAN
      /\ c \in Caller /\ ok \in BOOLEAN
  BY DEF Lesser, Sector, Typing, TypeOK
<1>3. c' \in Caller
  <2> HIDE DEF count, ok
  <2>1. c' = [c EXCEPT !.pc = IF ok THEN "command" ELSE "idle",
                       !.op = op, !.sector = IF ok THEN s ELSE 0,
                       !.n = count, !.left = count, !.retries = 0,
                       !.clear = TRUE,
                       !.res = IF ok THEN "none" ELSE "error"]
    BY <1>1 DEF count, ok
  <2>2. QED BY <2>1, <1>2, Zenon DEF Caller
<1>4. /\ c'.n = count /\ c'.left = count /\ c'.op = op /\ c'.bits = c.bits
      /\ c'.pc = (IF ok THEN "command" ELSE "idle")
      /\ c'.res = (IF ok THEN "none" ELSE "error")
      /\ c'.sector = (IF ok THEN s ELSE 0) /\ c'.retries = 0
  <2> HIDE DEF count, ok
  <2>1. QED BY <1>1, <1>2 DEF Caller, count, ok
<1>5. buf' \in [Sector -> Version \cup {0}] /\ calls' \in 0 .. MaxCalls
  BY SMTT(30) DEF Call, Typing, TypeOK
<1>6. c.bits = {}
  BY DEF Typing, Call
<1>7. op # "none"
  OBVIOUS
<1>8. UNCHANGED <<rx, ef, alarm, connected, toServer, toClient, srv, lost,
                  early>>
  BY DEF Call, NetKept
<1>9. Version' = Version
  BY DEF Version
<1>10. QED
  <2> HIDE DEF count, ok
  <2>1. TypeOK'
    BY <1>3, <1>5, <1>8, <1>9 DEF Typing, TypeOK
  <2>2. QED BY <2>1, <1>2, <1>4, <1>6, <1>7 DEF Typing, count, ok

LEMMA WakeTyped == Typing /\ (Wake \/ CancelAlarm) => Typing'
<1> SUFFICES ASSUME Typing, Wake \/ CancelAlarm PROVE Typing'
  OBVIOUS
<1>1. /\ c' \in Caller /\ ef' \in SUBSET {"done", "failed"}
      /\ alarm' \in BOOLEAN
  <2>1. CASE Wake
    <3>1. ef \in SUBSET {"done", "failed"} /\ c \in Caller /\ alarm' = alarm
      BY <2>1 DEF Typing, TypeOK, Wake
    <3>2. c' = [c EXCEPT !.pc = "woken", !.bits = ef] /\ ef' = {}
      BY <2>1 DEF Wake, Cleared
    <3>3. c' \in Caller
      BY <3>1, <3>2, Zenon DEF Caller
    <3>4. QED BY <3>1, <3>2, <3>3 DEF Typing, TypeOK
  <2>2. CASE CancelAlarm
    BY <2>2 DEF CancelAlarm, Typing, TypeOK, Caller
  <2>3. QED BY <2>1, <2>2
<1>2. /\ c'.n = c.n /\ c'.left = c.left /\ c'.op = c.op /\ c'.res = c.res
      /\ c'.sector = c.sector /\ c'.retries = c.retries
      /\ c'.pc \in {"woken", "end"} /\ c.pc # "idle"
  BY ZenonT(60) DEF Wake, CancelAlarm, Typing, TypeOK, Caller
<1>3. UNCHANGED <<rx, connected, buf, toServer, toClient, srv, lost, early,
                  calls>>
  BY DEF Wake, CancelAlarm, NetKept
<1>4. QED BY <1>1, <1>2, <1>3 DEF Typing, TypeOK

LEMMA AlarmTyped == Typing /\ AlarmFires => Typing'
<1> SUFFICES ASSUME Typing, AlarmFires PROVE Typing'
  OBVIOUS
<1>1. rx \in Receiver /\ rx' = [rx EXCEPT !.size = 0]
  BY DEF AlarmFires, Typing, TypeOK
<1>2. rx' \in Receiver
  BY <1>1 DEF Receiver
<1>3. early' \in 0 .. MaxEarly
  BY DEF AlarmFires, Typing, TypeOK
<1>6. ef' \in SUBSET {"done", "failed"} /\ alarm' \in BOOLEAN
  BY DEF AlarmFires, Typing, TypeOK
<1>4. UNCHANGED <<c, connected, buf, toServer, toClient, srv, lost, calls>>
  BY DEF AlarmFires
<1>5. QED BY <1>2, <1>3, <1>4, <1>6 DEF Typing, TypeOK

LEMMA BlockSize == Typing /\ c.left > 0 => Block \in 1 .. c.left
BY DEF Block, Lesser, Typing, TypeOK, Caller

\* A read that is tried goes on with the rest, or is over.
LEMMA TriedTyped ==
    ASSUME Typing, c.left > 0, c.retries < MaxRetries, c.op = "read",
           NEW done \in BOOLEAN, ReadTried(done)
    PROVE  /\ c'.left = IF done THEN c.left - Block ELSE c.left
           /\ c'.left \in 0 .. c.left
           /\ c'.retries \in 0 .. MaxRetries
           /\ \/ c'.pc = "idle" /\ c'.res = "ok" /\ c'.left = 0
              \/ c'.pc = "idle" /\ c'.res = "error"
              \/ /\ c'.pc = "command" /\ c'.res = "none" /\ c'.left > 0
                 /\ c'.retries < MaxRetries
           /\ c' \in Caller /\ connected' \in BOOLEAN
           /\ c'.n = c.n /\ c'.op = c.op /\ c'.sector = c.sector
           /\ c'.bits = {} /\ c'.clear = c.clear
<1> DEFINE left == IF done THEN c.left - Block ELSE c.left
           tries == IF done THEN 0 ELSE c.retries + 1
           res == IF left = 0 THEN "ok"
                  ELSE IF tries = MaxRetries THEN "error" ELSE "none"
<1>1. /\ c' = [c EXCEPT !.pc = IF res = "none" THEN "command" ELSE "idle",
                        !.left = left, !.retries = tries, !.bits = {},
                        !.res = res]
      /\ connected' = (connected /\ res # "error")
  BY DEF ReadTried
<1>2. left \in 0 .. c.left /\ tries \in 0 .. MaxRetries
  BY BlockSize DEF Typing, TypeOK, Caller
<1>3. \/ left = 0 /\ res = "ok"
      \/ left > 0 /\ tries = MaxRetries /\ res = "error"
      \/ left > 0 /\ tries < MaxRetries /\ res = "none"
  BY <1>2
<1> HIDE DEF left, tries, res
<1>4. /\ c'.pc = (IF res = "none" THEN "command" ELSE "idle")
      /\ c'.left = left /\ c'.retries = tries /\ c'.bits = {}
      /\ c'.res = res
  BY <1>1 DEF Typing, TypeOK, Caller
<1>5. /\ c'.n = c.n /\ c'.op = c.op /\ c'.sector = c.sector
      /\ c'.clear = c.clear
  BY <1>1 DEF Typing, TypeOK, Caller
<1>6. connected' \in BOOLEAN
  BY <1>1 DEF Typing, TypeOK
<1>7. c' \in Caller
  <2>1. /\ left \in 0 .. SectorCount /\ {} \in SUBSET {"done", "failed"}
        /\ res \in {"none", "ok", "error"} /\ c \in Caller
        /\ (IF res = "none" THEN "command" ELSE "idle") \in
             {"idle", "command", "wait", "woken", "end"}
    BY <1>2, <1>3 DEF Typing, TypeOK, Caller
  <2>2. QED BY <1>1, <1>2, <2>1, Zenon DEF Caller
<1>8. left = IF done THEN c.left - Block ELSE c.left
  BY DEF left
<1>9. QED BY <1>2, <1>3, <1>4, <1>5, <1>6, <1>7, <1>8

LEMMA EndTyped == Typing /\ (EndRead \/ EndWrite) => Typing'
<1> SUFFICES ASSUME Typing, EndRead \/ EndWrite PROVE Typing'
  OBVIOUS
<1>1. /\ c.left > 0 /\ Block \in 1 .. c.left /\ c.retries < MaxRetries
      /\ c \in Caller /\ rx \in Receiver /\ Done \in BOOLEAN
  BY BlockSize DEF EndRead, EndWrite, Typing, TypeOK, Done
<1>2. CASE EndRead
  <2>1. rx' = [rx EXCEPT !.armed = FALSE, !.size = 0, !.pkt = 0, !.act = 0]
    BY <1>2 DEF EndRead, Disarmed
  <2>2. rx' \in Receiver
    BY <1>1, <2>1, 0 \in Int, 0 \in Nat, 0 \in 0 .. SectorCount,
       FALSE \in BOOLEAN, Zenon DEF Receiver
  <2>3. ReadTried(Done) /\ c.op = "read"
    BY <1>2 DEF EndRead
  <2>4. UNCHANGED <<ef, alarm, buf, calls, toServer, toClient, srv, lost,
                    early>>
    BY <1>2 DEF EndRead, NetKept
  <2>5. TypeOK'
    BY <2>2, <2>3, <2>4, <1>1, TriedTyped DEF Typing, TypeOK
  <2>6. c'.left <= c'.n /\ c'.sector + c'.n <= SectorCount
    BY <2>3, <1>1, TriedTyped DEF Typing, Caller
  <2>7. QED BY <2>3, <2>5, <2>6, <1>1, TriedTyped DEF Typing
<1>3. CASE EndWrite
  <2>1. /\ c' = [c EXCEPT !.pc = "idle", !.bits = {},
                          !.res = IF Done THEN "ok" ELSE "error"]
        /\ c.op = "write" /\ UNCHANGED connected
    BY <1>3 DEF EndWrite, Written
  <2>2. c' \in Caller
    <3>1. /\ (IF Done THEN "ok" ELSE "error") \in {"none", "ok", "error"}
          /\ {} \in SUBSET {"done", "failed"}
      OBVIOUS
    <3>2. QED BY <1>1, <2>1, <3>1, Zenon DEF Caller
  <2>3. /\ c'.n = c.n /\ c'.left = c.left /\ c'.op = c.op
        /\ c'.sector = c.sector /\ c'.pc = "idle" /\ c'.bits = {}
    BY <1>1, <2>1 DEF Caller
  <2>4. UNCHANGED <<rx, ef, alarm, buf, calls, toServer, toClient, srv, lost,
                    early>>
    BY <1>3 DEF EndWrite, NetKept
  <2>5. TypeOK'
    BY <2>1, <2>2, <2>4 DEF Typing, TypeOK
  <2>6. c'.left <= c'.n /\ c'.sector + c'.n <= SectorCount /\ c'.op # "read"
    BY <2>1, <2>3 DEF Typing
  <2>7. QED BY <2>3, <2>5, <2>6 DEF Typing
<1>4. QED BY <1>2, <1>3

\* The queues: a packet is taken, answers are put behind the others.
LEMMA TailOf ==
    ASSUME NEW S, NEW q \in Seq(S), q # <<>>
    PROVE  /\ Tail(q) \in Seq(S) /\ Head(q) = q[1] /\ Head(q) \in S
           /\ Len(q) \in Nat \ {0} /\ Len(Tail(q)) = Len(q) - 1
           /\ \A i \in 1 .. Len(Tail(q)) : Tail(q)[i] = q[i + 1]
BY HeadTailProperties, EmptySeq, LenProperties

LEMMA EmptyOrNot == ASSUME NEW S, NEW q \in Seq(S)
                    PROVE  Len(q) \in Nat /\ (Len(q) = 0 <=> q = <<>>)
BY EmptySeq, LenProperties

LEMMA LoseTyped == Typing /\ Lose => Typing'
<1> SUFFICES ASSUME Typing, Lose PROVE Typing'
  OBVIOUS
<1>1. toServer' \in Seq(ToServer) /\ toClient' \in Seq(ToClient)
  <2>1. toServer \in Seq(ToServer) /\ toClient \in Seq(ToClient)
    BY DEF Typing, TypeOK
  <2>2. toServer # <<>> => Tail(toServer) \in Seq(ToServer)
    BY <2>1, TailOf
  <2>3. toClient # <<>> => Tail(toClient) \in Seq(ToClient)
    BY <2>1, TailOf
  <2>4. QED BY <2>1, <2>2, <2>3 DEF Lose
<1>2. lost' \in 0 .. MaxLost
  BY DEF Lose, Typing, TypeOK
<1>3. QED BY <1>1, <1>2 DEF Lose, Typing, TypeOK

LEMMA NewId == Typing => NextId(rx.id) \in Id /\ NextId(rx.id) # rx.id
<1> SUFFICES ASSUME Typing PROVE NextId(rx.id) \in Id /\ NextId(rx.id) # rx.id
  OBVIOUS
<1>1. rx.id \in 0 .. CmdIds - 1 /\ CmdIds \in Nat \ {0, 1}
  BY DEF Typing, TypeOK, Receiver, Id
<1>2. CASE rx.id = CmdIds - 1
  BY <1>1, <1>2, (CmdIds - 1 + 1) % CmdIds = 0 DEF NextId, Id
<1>3. CASE rx.id # CmdIds - 1
  <2>1. (rx.id + 1) % CmdIds = rx.id + 1
    BY <1>1, <1>3
  <2>2. QED BY <1>1, <1>3, <2>1 DEF NextId, Id
<1>4. QED BY <1>2, <1>3

\* What a command arms and sends.
LEMMA Sending ==
    ASSUME Typing, c.pc = "command", NEW id \in Id
    PROVE  /\ Armed(id) \in Receiver /\ Armed(id).id = id
           /\ GivenUp(id) \in Server /\ GivenUp(id).disc = srv.disc
           /\ GivenUp(id).write = srv.write \/ GivenUp(id).write = NoWrite
           /\ GivenUp(id).write.left = 0 \/ GivenUp(id).write.id # id
           /\ Command(id) \in Seq(ToServer)
           /\ c.op = "read" =>
                /\ Armed(id) = [id |-> id, armed |-> TRUE, size |-> Block,
                                pkt |-> 1, act |-> First]
                /\ Len(Command(id)) = 1
                /\ Command(id)[1] = [cmd |-> "READ", id |-> id, n |-> Block,
                                     sector |-> c.sector + First]
           /\ c.op = "write" =>
                /\ Armed(id).armed = rx.armed
                /\ Len(Command(id)) = c.n + 1
                /\ Command(id)[1] = [cmd |-> "WRITE", id |-> id, n |-> c.n,
                                     sector |-> c.sector]
                /\ \A i \in 1 .. c.n :
                     Command(id)[i + 1] = [cmd |-> "DATA", id |-> id,
                                           pkt |-> i, data |-> calls + 1]
<1>1. /\ c.left \in 1 .. c.n /\ c.n \in 1 .. SectorCount /\ c.sector \in Sector
      /\ c.sector + c.n <= SectorCount /\ c.op \in {"read", "write"}
      /\ calls + 1 \in Version /\ Block \in 1 .. c.left
      /\ rx \in Receiver /\ srv \in Server
  <2>1. c.left > 0 /\ c.op # "none" /\ c \in Caller /\ rx \in Receiver
        /\ srv \in Server /\ calls \in 0 .. MaxCalls
        /\ c.left <= c.n /\ c.sector + c.n <= SectorCount
    BY DEF Typing, TypeOK
  <2>2. /\ c.left \in 1 .. c.n /\ c.n \in 1 .. SectorCount
        /\ c.sector \in Sector /\ Block \in 1 .. c.left
    BY <2>1, BlockSize DEF Caller
  <2>3. c.op \in Ops \cup {"none"} /\ Ops \subseteq {"read", "write"}
    BY <2>1 DEF Caller
  <2>4. calls + 1 \in Version
    BY <2>1 DEF Version
  <2>5. QED BY <2>1, <2>2, <2>3, <2>4
<1>2. /\ GivenUp(id) \in Server /\ GivenUp(id).disc = srv.disc
      /\ GivenUp(id).write = srv.write \/ GivenUp(id).write = NoWrite
      /\ GivenUp(id).write.left = 0 \/ GivenUp(id).write.id # id
  <2>1. NoWrite \in [id : Id, sector : Nat, left : Nat, pkt : Nat]
    BY DEF NoWrite, Id
  <2>2. NoWrite.left = 0
    BY DEF NoWrite
  <2>3. CASE srv.write.id = id
    BY <1>1, <2>1, <2>2, <2>3 DEF GivenUp, Server
  <2>4. CASE srv.write.id # id
    BY <1>1, <2>4 DEF GivenUp
  <2>5. QED BY <2>3, <2>4
<1>3. CASE c.op = "read"
  <2>1. Armed(id) = [id |-> id, armed |-> TRUE, size |-> Block,
                     pkt |-> 1, act |-> First]
    BY <1>3 DEF Armed, First
  <2>2. First \in 0 .. SectorCount /\ c.sector + First \in Sector
        /\ c.sector + First + Block <= SectorCount /\ Block \in 1 .. SectorCount
    BY <1>1 DEF First, Sector
  <2>3. Armed(id) \in Receiver /\ Armed(id).id = id
    BY <2>1, <2>2, <1>1 DEF Receiver
  <2>4. Command(id) = <<[cmd |-> "READ", id |-> id, n |-> Block,
                         sector |-> c.sector + First]>>
    BY <1>3, <1>1 DEF Command, First
  <2>5. [cmd |-> "READ", id |-> id, n |-> Block, sector |-> c.sector + First]
          \in ToServer
    BY <2>2 DEF ToServer
  <2>6. QED BY <1>2, <1>3, <2>1, <2>3, <2>4, <2>5
<1>4. CASE c.op = "write"
  <2>1. Armed(id) = [rx EXCEPT !.id = id]
    BY <1>4 DEF Armed
  <2>2. /\ Armed(id) \in Receiver /\ Armed(id).id = id
        /\ Armed(id).armed = rx.armed
    BY <2>1, <1>1 DEF Receiver
  <2> DEFINE w == [cmd |-> "WRITE", id |-> id, n |-> c.n, sector |-> c.sector]
             d == Data(id, c.n, calls + 1)
  <2>3. Command(id) = <<w>> \o d
    BY <1>4 DEF Command
  <2>4. w \in ToServer
    BY <1>1 DEF ToServer
  <2>5. /\ d \in Seq(ToServer) /\ Len(d) = c.n
        /\ \A i \in 1 .. c.n : d[i] = [cmd |-> "DATA", id |-> id, pkt |-> i,
                                       data |-> calls + 1]
    <3>1. \A i \in 1 .. c.n : [cmd |-> "DATA", id |-> id, pkt |-> i,
                               data |-> calls + 1] \in ToServer
      BY <1>1 DEF ToServer
    <3>2. d = [i \in 1 .. c.n |-> [cmd |-> "DATA", id |-> id, pkt |-> i,
                                   data |-> calls + 1]]
      BY DEF Data
    <3>3. QED BY <1>1, <3>1, <3>2, IsASeq
  <2> HIDE DEF d
  <2>6. /\ <<w>> \in Seq(ToServer) /\ Len(<<w>>) = 1 /\ <<w>>[1] = w
    BY <2>4
  <2>7. /\ Command(id) \in Seq(ToServer) /\ Len(Command(id)) = c.n + 1
        /\ \A i \in 1 .. c.n + 1 :
             Command(id)[i] = IF i <= 1 THEN <<w>>[i] ELSE d[i - 1]
    BY <2>3, <2>5, <2>6, ConcatProperties
  <2>8. \A i \in 1 .. c.n : Command(id)[i + 1] = d[i]
    BY <2>7, <1>1
  <2>9. Command(id)[1] = w
    BY <2>6, <2>7, <1>1, SMTT(30)
  <2>10. QED BY <1>2, <1>4, <2>2, <2>5, <2>7, <2>8, <2>9
<1>5. QED BY <1>1, <1>3, <1>4

LEMMA SendTyped == Typing /\ Send => Typing'
<1> SUFFICES ASSUME Typing, Send PROVE Typing'
  OBVIOUS
<1> DEFINE id == NextId(rx.id)
<1>1. id \in Id /\ c.pc = "command"
  BY NewId DEF Send
<1>2. rx' = Armed(id) /\ srv' = GivenUp(id)
      /\ toServer' = toServer \o Command(id)
  BY DEF Send
<1> HIDE DEF id
<1>3. rx' \in Receiver /\ srv' \in Server /\ Command(id) \in Seq(ToServer)
  BY <1>1, <1>2, Sending
<1>4. toServer' \in Seq(ToServer)
  BY <1>2, <1>3, ConcatProperties DEF Typing, TypeOK
<1>5. c \in Caller /\ c' = [c EXCEPT !.pc = "wait", !.clear = @ /\ ef = {}]
  BY DEF Send, Sent, Typing, TypeOK
<1>6. c' \in Caller
  <2>1. (c.clear /\ ef = {}) \in BOOLEAN
    OBVIOUS
  <2>2. QED BY <1>5, <2>1, Zenon DEF Caller
<1>7. /\ c'.n = c.n /\ c'.left = c.left /\ c'.op = c.op /\ c'.res = c.res
      /\ c'.sector = c.sector /\ c'.retries = c.retries
      /\ c'.pc = "wait" /\ c'.bits = c.bits
  BY <1>5 DEF Caller
<1>8. alarm' \in BOOLEAN
  BY DEF Send, SetAlarm
<1>9. UNCHANGED <<ef, connected, buf, toClient, lost, early, calls>>
  BY DEF Send
<1>10. TypeOK'
  BY <1>3, <1>4, <1>6, <1>8, <1>9 DEF Typing, TypeOK
<1>11. QED BY <1>1, <1>7, <1>10 DEF Typing

LEMMA SendFailsTyped == Typing /\ SendFails => Typing'
<1> SUFFICES ASSUME Typing, SendFails PROVE Typing'
  OBVIOUS
<1> DEFINE id == NextId(rx.id)
<1>1. id \in Id /\ c.pc = "command"
  BY NewId DEF SendFails
<1>2. rx' = Armed(id) /\ srv' = GivenUp(id)
  BY DEF SendFails
<1>3. PICK k \in 0 .. Len(Command(id)) - 1 :
        toServer' = toServer \o SubSeq(Command(id), 1, k)
  BY DEF SendFails
<1> HIDE DEF id
<1>4. rx' \in Receiver /\ srv' \in Server /\ Command(id) \in Seq(ToServer)
  BY <1>1, <1>2, Sending
<1>5. SubSeq(Command(id), 1, k) \in Seq(ToServer)
  <2>1. Len(Command(id)) \in Nat /\ k \in 0 .. Len(Command(id))
    BY <1>4, LenProperties
  <2>2. QED BY <1>4, <2>1, SubSeqProperties
<1>6. toServer' \in Seq(ToServer)
  BY <1>3, <1>5, ConcatProperties DEF Typing, TypeOK
<1>7. UNCHANGED <<ef, alarm, buf, toClient, early, calls>>
      /\ lost' \in 0 .. MaxLost
  <2>1. lost' = lost + 1 /\ lost < MaxLost /\ lost \in 0 .. MaxLost
    BY DEF SendFails, Typing, TypeOK
  <2>2. lost' \in 0 .. MaxLost
    BY <2>1
  <2>3. QED BY <2>2 DEF SendFails
<1>8. c.left > 0 /\ c.retries < MaxRetries /\ c \in Caller
  BY <1>1 DEF Typing, TypeOK
<1>9. CASE c.op = "read"
  <2>1. ReadTried(FALSE) /\ FALSE \in BOOLEAN
    BY <1>9 DEF SendFails
  <2>2. /\ c' \in Caller /\ connected' \in BOOLEAN /\ c'.left \in 0 .. c.left
        /\ c'.n = c.n /\ c'.sector = c.sector /\ c'.op = c.op /\ c'.bits = {}
        /\ \/ c'.pc = "idle" /\ c'.res = "ok" /\ c'.left = 0
           \/ c'.pc = "idle" /\ c'.res = "error"
           \/ /\ c'.pc = "command" /\ c'.res = "none" /\ c'.left > 0
              /\ c'.retries < MaxRetries
    BY <2>1, <1>8, <1>9, TriedTyped
  <2>3. TypeOK'
    BY <1>4, <1>6, <1>7, <2>2 DEF Typing, TypeOK
  <2>4. c'.left <= c'.n /\ c'.sector + c'.n <= SectorCount
    BY <2>2, <1>8 DEF Typing, Caller
  <2>5. QED BY <1>9, <2>2, <2>3, <2>4 DEF Typing
<1>10. CASE c.op # "read"
  <2>1. c' = [c EXCEPT !.pc = "idle", !.bits = {}, !.res = "error"]
        /\ UNCHANGED connected
    BY <1>10 DEF SendFails, Written
  <2>2. c' \in Caller
    <3>1. "error" \in {"none", "ok", "error"} /\ {} \in SUBSET {"done", "failed"}
      OBVIOUS
    <3>2. QED BY <1>8, <2>1, <3>1, Zenon DEF Caller
  <2>3. /\ c'.n = c.n /\ c'.left = c.left /\ c'.op = c.op
        /\ c'.sector = c.sector /\ c'.pc = "idle" /\ c'.bits = {}
        /\ c'.res = "error"
    BY <1>8, <2>1 DEF Caller
  <2>4. TypeOK'
    BY <1>4, <1>6, <1>7, <2>1, <2>2 DEF Typing, TypeOK
  <2>5. c'.left <= c'.n /\ c'.sector + c'.n <= SectorCount
    BY <2>3 DEF Typing
  <2>6. QED BY <2>3, <2>4, <2>5 DEF Typing
<1>11. QED BY <1>9, <1>10

----------------------------------------------------------------------------

LEMMA Numbers ==
    ASSUME Typing
    PROVE  /\ c.n \in Nat /\ c.left \in 0 .. c.n /\ c.sector \in Nat
           /\ c.n - c.left \in 0 .. c.n /\ c.sector + c.n <= SectorCount
           /\ calls \in Nat /\ rx.pkt \in Nat /\ rx.act \in Nat
           /\ rx.size \in Int
           /\ toServer \in Seq(ToServer) /\ toClient \in Seq(ToClient)
           /\ Len(toServer) \in Nat /\ (Len(toServer) = 0 <=> toServer = <<>>)
           /\ Len(toClient) \in Nat /\ (Len(toClient) = 0 <=> toClient = <<>>)
           /\ c.pc \in {"idle", "command", "wait", "woken", "end"}
           /\ c.pc # "idle" => /\ c.op \in {"read", "write"} /\ c.left > 0
                               /\ Block \in 1 .. c.left
<1>1. /\ c \in Caller /\ rx \in Receiver /\ calls \in 0 .. MaxCalls
      /\ toServer \in Seq(ToServer) /\ toClient \in Seq(ToClient)
      /\ c.left <= c.n /\ c.sector + c.n <= SectorCount
      /\ c.pc # "idle" => c.left > 0 /\ c.op # "none"
  BY DEF Typing, TypeOK
<1>2. /\ c.n \in Nat /\ c.left \in 0 .. c.n /\ c.sector \in Nat
      /\ c.n - c.left \in 0 .. c.n /\ calls \in Nat /\ rx.pkt \in Nat
      /\ rx.act \in Nat /\ rx.size \in Int
      /\ c.pc \in {"idle", "command", "wait", "woken", "end"}
  BY <1>1 DEF Caller, Receiver, Sector
<1>3. c.op \in Ops \cup {"none"} /\ Ops \subseteq {"read", "write"}
  BY <1>1 DEF Caller
<1>4. c.left > 0 => Block \in 1 .. c.left
  BY BlockSize
<1>5. /\ Len(toServer) \in Nat /\ (Len(toServer) = 0 <=> toServer = <<>>)
      /\ Len(toClient) \in Nat /\ (Len(toClient) = 0 <=> toClient = <<>>)
  BY <1>1, EmptyOrNot
<1>6. QED BY <1>1, <1>2, <1>3, <1>4, <1>5

LEMMA InitClear == Init => ClearInv
<1> SUFFICES ASSUME Init PROVE WriteInv /\ ReadInv
  BY InitTyped DEF ClearInv
<1>1. c.pc = "idle" /\ c.op = "none" /\ rx.armed = FALSE
  BY DEF Init
<1>2. WriteInv
  BY <1>1 DEF WriteInv, WriteSent, WriteServed, WriteAnswered, WriteProgress,
              WriteKept, Returned, Writing, Active
<1>3. QED
  BY <1>1, <1>2 DEF ReadInv, ReadSent, ReadAnswered, ReadProgress, ReadKept,
                    LeftArmed, Reading, Active

LEMMA CallClear == ClearInv /\ Call => ClearInv'
<1> SUFFICES ASSUME ClearInv, Call PROVE WriteInv' /\ ReadInv'
  BY CallTyped DEF ClearInv
<1>1. PICK op \in Ops, s \in 0 .. SectorCount, n \in 1 .. SectorCount :
        LET count == Lesser(n, SectorCount - s)
            ok == connected /\ s < SectorCount
        IN c' = [c EXCEPT !.pc = IF ok THEN "command" ELSE "idle",
                          !.op = op, !.sector = IF ok THEN s ELSE 0,
                          !.n = count, !.left = count, !.retries = 0,
                          !.clear = TRUE,
                          !.res = IF ok THEN "none" ELSE "error"]
  BY DEF Call
<1>2. /\ c'.pc \in {"idle", "command"} /\ c'.res # "ok" /\ c'.n = c'.left
      /\ c'.n \in Int
  BY <1>1, SMTT(30) DEF ClearInv, Typing, TypeOK, Caller, Lesser
<1>3. ~Active /\ ~Active' /\ c'.n - c'.left = 0
  BY <1>2 DEF Active, Call
<1>4. UNCHANGED <<rx, toServer, toClient>>
  BY DEF Call, NetKept
<1>5. WriteInv'
  BY <1>2, <1>3 DEF WriteInv, WriteSent, WriteServed, WriteAnswered,
                    WriteProgress, WriteKept, Returned, Writing
<1>6. LeftArmed'
  BY <1>3, <1>4 DEF ClearInv, ReadInv, LeftArmed
<1>7. ReadKept'
  BY <1>3 DEF ReadKept, First, InBuffer
<1>8. QED
  BY <1>3, <1>5, <1>6, <1>7 DEF ReadInv, ReadSent, ReadAnswered,
                                ReadProgress, Reading

\* A step within a command that leaves its packets alone and sets no bit.
LEMMA Waiting ==
    ASSUME ClearInv, Active, Active', Typing',
           UNCHANGED <<rx, buf, toServer, toClient, srv, calls>>,
           c'.op = c.op, c'.n = c.n, c'.left = c.left, c'.sector = c.sector,
           c'.clear = c.clear, Bits' \subseteq Bits
    PROVE  ClearInv'
<1>1. /\ Writing' = Writing /\ Reading' = Reading /\ First' = First
      /\ Block' = Block
  BY DEF Writing, Reading, First, Block
<1>2. \A k : (OnDisc(k) => OnDisc(k)') /\ (InBuffer(k) => InBuffer(k)')
  BY DEF OnDisc, InBuffer
<1>3. WriteSent'
  BY <1>1 DEF ClearInv, WriteInv, WriteSent
<1>4. WriteServed'
  BY <1>1, <1>2 DEF ClearInv, WriteInv, WriteServed
<1>5. WriteAnswered' /\ WriteProgress'
  BY <1>1, <1>2 DEF ClearInv, WriteInv, WriteAnswered, WriteProgress
<1>6. WriteKept' /\ LeftArmed'
  BY DEF WriteKept, LeftArmed, Returned, Active
<1>7. ReadSent' /\ ReadAnswered'
  BY <1>1 DEF ClearInv, ReadInv, ReadSent, ReadAnswered
<1>8. ReadProgress'
  BY <1>1 DEF ClearInv, ReadInv, ReadProgress
<1>9. ReadKept'
  BY <1>1, <1>2 DEF ClearInv, ReadInv, ReadKept, NoData
<1>10. QED
  BY <1>3, <1>4, <1>5, <1>6, <1>7, <1>8, <1>9 DEF ClearInv, WriteInv, ReadInv

LEMMA WakeClear == ClearInv /\ (Wake \/ CancelAlarm) => ClearInv'
<1> SUFFICES ASSUME ClearInv, Wake \/ CancelAlarm PROVE ClearInv'
  OBVIOUS
<1>1. Typing' /\ c \in Caller /\ (c.pc = "wait" => c.bits = {})
  BY WakeTyped DEF ClearInv, Typing, TypeOK
<1>2. /\ c'.op = c.op /\ c'.n = c.n /\ c'.left = c.left
      /\ c'.sector = c.sector /\ c'.clear = c.clear
      /\ c.pc \in {"wait", "woken"} /\ c'.pc \in {"woken", "end"}
  BY <1>1, ZenonT(60) DEF Wake, CancelAlarm, Caller
<1>3. Bits' \subseteq Bits
  <2>1. CASE Wake
    BY <1>1, <2>1 DEF Wake, Cleared, Bits, Caller
  <2>2. CASE CancelAlarm
    BY <1>1, <2>2 DEF CancelAlarm, Bits, Caller
  <2>3. QED BY <2>1, <2>2
<1>4. UNCHANGED <<rx, buf, toServer, toClient, srv, calls>>
  BY DEF Wake, CancelAlarm, NetKept
<1>5. QED BY <1>1, <1>2, <1>3, <1>4, Waiting DEF Active

LEMMA AlarmClear == ClearInv /\ AlarmFires => ClearInv'
<1> SUFFICES ASSUME ClearInv, AlarmFires PROVE ClearInv'
  OBVIOUS
<1>1. Typing' /\ Typing
  BY AlarmTyped DEF ClearInv
<1>2. UNCHANGED <<c, buf, toServer, toClient, srv, calls>>
  BY DEF AlarmFires
<1>3. /\ rx'.id = rx.id /\ rx'.armed = rx.armed /\ rx'.pkt = rx.pkt
      /\ rx'.act = rx.act /\ rx'.size = 0
  BY <1>1 DEF AlarmFires, Typing, TypeOK, Receiver
<1>4. "done" \in Bits' => "done" \in Bits
  BY <1>2 DEF AlarmFires, Bits
<1>5. /\ Writing' = Writing /\ Reading' = Reading /\ First' = First
      /\ Block' = Block /\ Active' = Active
  BY <1>2 DEF Writing, Reading, First, Block, Active
<1>6. \A k : (OnDisc(k) => OnDisc(k)') /\ (InBuffer(k) => InBuffer(k)')
  BY <1>2 DEF OnDisc, InBuffer
<1>7. WriteSent'
  BY <1>2, <1>3, <1>5 DEF ClearInv, WriteInv, WriteSent
<1>8. WriteServed'
  BY <1>2, <1>3, <1>5, <1>6 DEF ClearInv, WriteInv, WriteServed
<1>9. WriteAnswered' /\ WriteProgress' /\ WriteKept'
  BY <1>2, <1>3, <1>4, <1>5, <1>6
     DEF ClearInv, WriteInv, WriteAnswered, WriteProgress, WriteKept, Returned
<1>10. ReadSent' /\ ReadAnswered' /\ LeftArmed'
  BY <1>2, <1>3, <1>5
     DEF ClearInv, ReadInv, ReadSent, ReadAnswered, LeftArmed
<1>11. ReadProgress'
  <2>1. Reading => 0 <= Block - rx.pkt + 1
    BY <1>1, Numbers, SMTT(30) DEF ClearInv, ReadInv, ReadProgress, Reading, Active
  <2>2. QED
    BY <1>2, <1>3, <1>4, <1>5, <2>1 DEF ClearInv, ReadInv, ReadProgress
<1>12. ReadKept'
  BY <1>2, <1>5, <1>6 DEF ClearInv, ReadInv, ReadKept, NoData
<1>13. QED
  BY <1>1, <1>7, <1>8, <1>9, <1>10, <1>11, <1>12
     DEF ClearInv, WriteInv, ReadInv

LEMMA EndReadClear == ClearInv /\ EndRead => ClearInv'
<1> SUFFICES ASSUME ClearInv, EndRead PROVE ClearInv'
  OBVIOUS
<1>1. /\ Typing /\ Typing' /\ c.pc = "end" /\ c.op = "read" /\ ReadTried(Done)
      /\ c.left > 0 /\ c.retries < MaxRetries
  BY EndTyped DEF ClearInv, Typing, EndRead
<1>2. /\ c'.left = (IF Done THEN c.left - Block ELSE c.left)
      /\ c'.n = c.n /\ c'.op = "read" /\ c'.sector = c.sector
      /\ c'.clear = c.clear /\ c'.pc \in {"idle", "command"}
  <2>1. Done \in BOOLEAN
    BY DEF Done
  <2>2. QED BY <1>1, <2>1, TriedTyped
<1>3. UNCHANGED <<buf, toServer, toClient, srv, calls>> /\ ~rx'.armed
  <2>1. rx \in Receiver /\ rx' = Disarmed
    BY <1>1 DEF Typing, TypeOK, EndRead
  <2>2. QED BY <2>1 DEF EndRead, NetKept, Disarmed, Receiver
<1>4. ~Active' /\ Reading
  BY <1>1, <1>2 DEF Active, Reading
<1>5. WriteInv'
  BY <1>2, <1>4 DEF WriteInv, WriteSent, WriteServed, WriteAnswered,
                    WriteProgress, WriteKept, Returned, Writing
<1>6. ReadSent' /\ ReadAnswered' /\ ReadProgress' /\ LeftArmed'
  BY <1>3, <1>4 DEF ReadSent, ReadAnswered, ReadProgress, LeftArmed, Reading
<1>7. ReadKept'
  <2> SUFFICES ASSUME c.clear PROVE InBuffer(First)' /\ (First' > 0 => NoData')
    BY <1>2 DEF ReadKept
  <2>1. InBuffer(First) /\ (First > 0 => NoData)
    BY <1>1 DEF ClearInv, ReadInv, ReadKept
  <2>2. CASE ~Done
    <3>1. First' = First
      BY <1>2, <2>2 DEF First
    <3>2. QED BY <1>2, <1>3, <2>1, <3>1 DEF InBuffer, NoData
  <2>3. CASE Done
    <3>1. /\ First' = First + Block /\ First \in Nat /\ Block \in Nat \ {0}
      BY <1>1, <1>2, <2>3, Numbers, SMTT(30) DEF First
    <3>2. /\ rx.pkt = Block + 1 /\ rx.act = First + Block
          /\ \A j \in First .. rx.act - 1 : buf[j] = srv.disc[c.sector + j]
          /\ toServer = <<>>
      <4>1. "done" \in Bits
        BY <2>3 DEF Done, Bits
      <4>2. /\ rx.pkt = Block + 1 /\ rx.act = First + rx.pkt - 1
            /\ \A j \in First .. rx.act - 1 : buf[j] = srv.disc[c.sector + j]
            /\ rx.pkt > 1 => toServer = <<>>
        BY <1>4, <4>1 DEF ClearInv, ReadInv, ReadProgress
      <4>3. QED BY <3>1, <4>2
    <3>3. \A j \in 0 .. First + Block - 1 : buf[j] = srv.disc[c.sector + j]
      <4>1. \A j \in 0 .. First + Block - 1 :
              j \in 0 .. First - 1 \/ j \in First .. rx.act - 1
        BY <3>1, <3>2
      <4>2. QED BY <2>1, <3>2, <4>1 DEF InBuffer
    <3>4. Len(toServer) = 0
      BY <1>1, <3>2, Numbers
    <3>5. QED BY <1>2, <1>3, <3>1, <3>3, <3>4 DEF InBuffer, NoData
  <2>4. QED BY <2>2, <2>3
<1>8. QED BY <1>1, <1>5, <1>6, <1>7 DEF ClearInv, ReadInv

LEMMA EndWriteClear == ClearInv /\ EndWrite => ClearInv'
<1> SUFFICES ASSUME ClearInv, EndWrite PROVE ClearInv'
  OBVIOUS
<1>1. /\ Typing /\ Typing' /\ c.pc = "end" /\ c.op = "write" /\ c \in Caller
  BY EndTyped DEF ClearInv, Typing, TypeOK, EndWrite
<1>2. c' = [c EXCEPT !.pc = "idle", !.bits = {},
                     !.res = IF Done THEN "ok" ELSE "error"]
  BY DEF EndWrite, Written
<1>3. /\ c'.n = c.n /\ c'.op = "write" /\ c'.sector = c.sector
      /\ c'.clear = c.clear /\ c'.pc = "idle" /\ (c'.res = "ok" => Done)
  BY <1>1, <1>2 DEF Caller
<1>4. UNCHANGED <<rx, buf, toServer, toClient, srv, calls>>
  BY DEF EndWrite, NetKept
<1>5. ~Active' /\ Writing
  BY <1>1, <1>3 DEF Active, Writing
<1>6. WriteKept'
  <2>1. c.clear /\ Done => toServer = <<>> /\ OnDisc(c.n)
    BY <1>5 DEF ClearInv, WriteInv, WriteProgress, Done, Bits
  <2>2. QED BY <1>3, <1>4, <2>1 DEF WriteKept, Returned, OnDisc
<1>7. LeftArmed'
  <2>1. \A i \in 1 .. Len(toClient) :
          toClient[i].id = rx.id => toClient[i].cmd # "DATA"
    BY <1>5 DEF ClearInv, WriteInv, WriteAnswered
  <2>2. \A i \in 1 .. Len(toServer) :
          toServer[i].id = rx.id => toServer[i].cmd # "READ"
    <3> SUFFICES ASSUME NEW i \in 1 .. Len(toServer), toServer[i].id = rx.id
                 PROVE  toServer[i].cmd # "READ"
      OBVIOUS
    <3>1. /\ i = Len(toServer) - c.n => toServer[i].cmd = "WRITE"
          /\ i > Len(toServer) - c.n => toServer[i].cmd = "DATA"
          /\ ~(i < Len(toServer) - c.n)
      <4>1. WriteSent
        BY DEF ClearInv, WriteInv
      <4>2. /\ i < Len(toServer) - c.n => toServer[i].id # rx.id
            /\ i = Len(toServer) - c.n =>
                 toServer[i] = [cmd |-> "WRITE", id |-> rx.id, n |-> c.n,
                                sector |-> c.sector]
            /\ i > Len(toServer) - c.n =>
                 toServer[i] = [cmd |-> "DATA", id |-> rx.id,
                                pkt |-> c.n - Len(toServer) + i,
                                data |-> calls + 1]
        BY <1>5, <4>1, Zenon DEF WriteSent
      <4>3. QED BY <4>2
    <3>2. i \in Int /\ Len(toServer) \in Int /\ c.n \in Int
      BY <1>1, Numbers
    <3>3. QED BY <3>1, <3>2
  <2>3. QED BY <1>4, <2>1, <2>2 DEF LeftArmed
<1>8. ReadInv'
  BY <1>3, <1>5, <1>7 DEF ReadInv, ReadSent, ReadAnswered, ReadProgress,
                          ReadKept, Reading
<1>9. WriteInv'
  BY <1>5, <1>6 DEF WriteInv, WriteSent, WriteServed, WriteAnswered,
                    WriteProgress, Writing
<1>10. QED BY <1>1, <1>8, <1>9 DEF ClearInv

\* What a command finds and leaves: none of its number but its own.
LEMMA SendFacts ==
    ASSUME ClearInv, NEW id, id = NextId(rx.id), NEW m \in Seq(ToServer),
           Fresh(toServer, id), Fresh(toClient, id), c.pc = "command",
           toServer' = toServer \o m, toClient' = toClient, rx' = Armed(id),
           srv' = GivenUp(id)
    PROVE  /\ rx'.id = id /\ Len(toServer') = Len(toServer) + Len(m)
           /\ \A i \in 1 .. Len(toServer) :
                toServer'[i] = toServer[i] /\ toServer'[i].id # rx'.id
           /\ \A i \in 1 .. Len(m) : toServer'[Len(toServer) + i] = m[i]
           /\ \A i \in 1 .. Len(toClient') : toClient'[i].id # rx'.id
           /\ srv'.disc = srv.disc
           /\ srv'.write.left = 0 \/ srv'.write.id # rx'.id
<1>1. Typing /\ id \in Id /\ toServer \in Seq(ToServer)
  BY NewId, Numbers DEF ClearInv
<1>2. rx'.id = id /\ srv'.disc = srv.disc
      /\ (srv'.write.left = 0 \/ srv'.write.id # id)
  BY <1>1, Sending
<1>3. /\ Len(toServer') = Len(toServer) + Len(m)
      /\ Len(toServer) \in Nat /\ Len(m) \in Nat
      /\ \A i \in 1 .. Len(toServer) + Len(m) :
           toServer'[i] = IF i <= Len(toServer) THEN toServer[i]
                          ELSE m[i - Len(toServer)]
  BY <1>1, ConcatProperties, LenProperties
<1>4. \A i \in 1 .. Len(m) : toServer'[Len(toServer) + i] = m[i]
  BY <1>3
<1>5. \A i \in 1 .. Len(toServer) : toServer'[i] = toServer[i]
  BY <1>3
<1>6. QED BY <1>2, <1>3, <1>4, <1>5 DEF Fresh

LEMMA SendClear == ClearInv /\ Send => ClearInv'
<1> SUFFICES ASSUME ClearInv, Send PROVE ClearInv'
  OBVIOUS
<1> DEFINE id == NextId(rx.id)
           m == Command(id)
           L == Len(toServer)
<1>1. /\ Typing /\ Typing' /\ id \in Id /\ c.pc = "command" /\ c \in Caller
      /\ c.op \in {"read", "write"} /\ c.bits = {}
  <2>1. Typing
    BY DEF ClearInv
  <2>2. c.pc = "command"
    BY DEF Send
  <2>3. QED BY <2>1, <2>2, SendTyped, NewId, Numbers DEF Typing, TypeOK
<1>2. /\ Fresh(toServer, id) /\ Fresh(toClient, id)
      /\ toServer' = toServer \o m /\ toClient' = toClient /\ rx' = Armed(id)
      /\ srv' = GivenUp(id)
      /\ UNCHANGED <<ef, buf, calls>>
  BY DEF Send
<1>3. c' = [c EXCEPT !.pc = "wait", !.clear = @ /\ ef = {}]
  BY DEF Send, Sent
<1>4. /\ c'.pc = "wait" /\ c'.op = c.op /\ c'.n = c.n /\ c'.left = c.left
      /\ c'.sector = c.sector /\ c'.bits = {}
      /\ (c'.clear => c.clear /\ ef = {})
  BY <1>1, <1>3 DEF Caller
<1>5. Active' /\ First' = First /\ Block' = Block
  BY <1>4 DEF Active, First, Block
<1>6. /\ L \in Nat /\ c.n \in Nat /\ First \in Nat /\ Block \in Nat \ {0}
  BY <1>1, Numbers DEF First
<1> HIDE DEF id, m
<1>7. /\ m \in Seq(ToServer)
      /\ c.op = "read" =>
           /\ rx' = [id |-> id, armed |-> TRUE, size |-> Block, pkt |-> 1,
                     act |-> First]
           /\ Len(m) = 1
           /\ m[1] = [cmd |-> "READ", id |-> id, n |-> Block,
                      sector |-> c.sector + First]
      /\ c.op = "write" =>
           /\ Len(m) = c.n + 1
           /\ m[1] = [cmd |-> "WRITE", id |-> id, n |-> c.n,
                      sector |-> c.sector]
           /\ \A i \in 1 .. c.n :
                m[i + 1] = [cmd |-> "DATA", id |-> id, pkt |-> i,
                            data |-> calls + 1]
  BY <1>1, <1>2, Sending DEF m
<1>8. /\ rx'.id = id /\ Len(toServer') = L + Len(m)
      /\ \A i \in 1 .. L : toServer'[i] = toServer[i] /\ toServer'[i].id # rx'.id
      /\ \A i \in 1 .. Len(m) : toServer'[L + i] = m[i]
      /\ \A i \in 1 .. Len(toClient') : toClient'[i].id # rx'.id
      /\ srv'.disc = srv.disc
      /\ srv'.write.left = 0 \/ srv'.write.id # rx'.id
  BY <1>1, <1>2, <1>7, SendFacts DEF id
<1>13. /\ Len(toServer') = L + Len(m)
       /\ c.op = "read" => Len(m) = 1
       /\ c.op = "write" => Len(m) = c.n + 1
  BY <1>7, <1>8
<1>9. "done" \notin Bits' \/ ~c'.clear
  BY <1>2, <1>4 DEF Bits
<1>10. CASE c.op = "write"
  <2>1. WriteSent'
    <3> SUFFICES ASSUME NEW i \in 1 .. Len(toServer')
                 PROVE /\ i < Len(toServer') - c'.n => toServer'[i].id # rx'.id
                       /\ i = Len(toServer') - c'.n =>
                            toServer'[i] = [cmd |-> "WRITE", id |-> rx'.id,
                                            n |-> c'.n, sector |-> c'.sector]
                       /\ i > Len(toServer') - c'.n =>
                            toServer'[i] = [cmd |-> "DATA", id |-> rx'.id,
                                  pkt |-> c'.n - Len(toServer') + i,
                                  data |-> calls' + 1]
      BY DEF WriteSent
    <3>1. Len(toServer') = L + c.n + 1 /\ i \in 1 .. L + c.n + 1
          /\ c'.n = c.n
      BY <1>4, <1>6, <1>10, <1>13
    <3>2. CASE i \in 1 .. L
      BY <1>6, <1>8, <3>1, <3>2
    <3>3. CASE i = L + 1
      <4>1. toServer'[i] = m[1]
        BY <1>6, <1>7, <1>8, <1>10, <3>3
      <4>2. ~(i < Len(toServer') - c'.n) /\ ~(i > Len(toServer') - c'.n)
        <5> HIDE DEF L
        <5>1. QED BY <1>6, <3>1, <3>3
      <4>3. rx'.id = id /\ c'.sector = c.sector /\ c'.n = c.n
        BY <1>4, <1>8
      <4>4. m[1] = [cmd |-> "WRITE", id |-> id, n |-> c.n,
                    sector |-> c.sector]
        BY <1>7, <1>10
      <4>5. QED BY <4>1, <4>2, <4>3, <4>4
    <3>4. CASE i > L + 1
      <4>1. i - L - 1 \in 1 .. c.n /\ i - L \in 1 .. Len(m)
            /\ i - L = (i - L - 1) + 1 /\ L + (i - L) = i
        BY <1>6, <1>7, <1>10, <3>1, <3>4
      <4>2. toServer'[i] = m[i - L]
        BY <1>8, <4>1
      <4>3. m[i - L] = [cmd |-> "DATA", id |-> id, pkt |-> i - L - 1,
                        data |-> calls + 1]
        BY <1>7, <1>10, <4>1
      <4>4. c'.n - Len(toServer') + i = i - L - 1
        BY <1>6, <3>1
      <4>5. QED BY <1>2, <1>6, <1>8, <3>1, <3>4, <4>2, <4>3, <4>4
    <3>5. QED BY <1>6, <3>1, <3>2, <3>3, <3>4
  <2>2. WriteServed'
    BY <1>1, <1>8, SMTT(30) DEF WriteServed, Typing, TypeOK, Server
  <2>3. WriteAnswered' /\ WriteProgress' /\ WriteKept'
    BY <1>4, <1>8, <1>9 DEF WriteAnswered, WriteProgress, WriteKept, Returned
  <2>4. ReadInv'
    BY <1>4, <1>5, <1>10 DEF ReadInv, ReadSent, ReadAnswered, ReadProgress,
                             ReadKept, LeftArmed, Reading
  <2>5. QED BY <1>1, <2>1, <2>2, <2>3, <2>4 DEF ClearInv, WriteInv
<1>11. CASE c.op = "read"
  <2>1. WriteInv'
    BY <1>4, <1>11 DEF WriteInv, WriteSent, WriteServed, WriteAnswered,
                       WriteProgress, WriteKept, Returned, Writing
  <2>2. Len(toServer') = L + 1 /\ toServer'[L + 1] = m[1]
    <3>1. 1 \in 1 .. Len(m)
      BY <1>11, <1>13
    <3>2. QED BY <1>8, <1>11, <1>13, <3>1
  <2>3. \A i \in 1 .. L + 1 : i \in 1 .. L \/ i = L + 1
    BY <1>6
  <2>4. ReadSent'
    BY <1>4, <1>5, <1>7, <1>8, <1>11, <2>2, <2>3 DEF ReadSent
  <2>5. ReadAnswered' /\ LeftArmed'
    BY <1>5, <1>8 DEF ReadAnswered, LeftArmed
  <2>6. ReadProgress'
    <3>1. /\ rx'.armed /\ rx'.pkt = 1 /\ rx'.act = First
          /\ rx'.size = Block
      BY <1>7, <1>11
    <3>2. \A j \in First .. First - 1 : FALSE
      BY <1>6
    <3>3. QED BY <1>5, <1>6, <1>9, <3>1, <3>2 DEF ReadProgress
  <2>7. ReadKept'
    <3>1. c'.clear => InBuffer(First) /\ (First > 0 => NoData)
      BY <1>4, <1>11 DEF ClearInv, ReadInv, ReadKept
    <3>2. InBuffer(First) => InBuffer(First)'
      BY <1>2, <1>4, <1>5, <1>8 DEF InBuffer
    <3>3. NoData => NoData'
      BY <1>7, <1>8, <1>11, <2>2, <2>3 DEF NoData
    <3>4. QED BY <1>5, <3>1, <3>2, <3>3 DEF ReadKept
  <2>8. QED BY <1>1, <2>1, <2>4, <2>5, <2>6, <2>7 DEF ClearInv, ReadInv
<1>12. QED BY <1>1, <1>10, <1>11

LEMMA SendFailsClear == ClearInv /\ SendFails => ClearInv'
<1> SUFFICES ASSUME ClearInv, SendFails PROVE ClearInv'
  OBVIOUS
<1> DEFINE id == NextId(rx.id)
<1>1. /\ Typing /\ Typing' /\ id \in Id /\ c.pc = "command" /\ c \in Caller
      /\ c.op \in {"read", "write"} /\ c.left > 0 /\ c.retries < MaxRetries
  <2>1. Typing /\ c.pc = "command"
    BY DEF ClearInv, SendFails
  <2>2. QED BY <2>1, SendFailsTyped, NewId, Numbers DEF Typing, TypeOK
<1>2. PICK k \in 0 .. Len(Command(id)) - 1 :
        toServer' = toServer \o SubSeq(Command(id), 1, k)
  BY DEF SendFails
<1>3. /\ Fresh(toServer, id) /\ Fresh(toClient, id)
      /\ toClient' = toClient /\ rx' = Armed(id) /\ srv' = GivenUp(id)
      /\ UNCHANGED <<ef, buf, calls>>
  BY DEF SendFails
<1> DEFINE m == SubSeq(Command(id), 1, k)
<1>4. /\ m \in Seq(ToServer) /\ Len(m) = k
      /\ \A i \in 1 .. k : m[i] = Command(id)[i]
      /\ k \in 0 .. Len(Command(id)) - 1 /\ Len(Command(id)) \in Nat
  <2>1. Command(id) \in Seq(ToServer)
    BY <1>1, Sending
  <2>2. k \in 0 .. Len(Command(id)) /\ Len(Command(id)) \in Nat
    BY <2>1, LenProperties
  <2>3. QED BY <2>1, <2>2, SubSeqProperties
<1>5. /\ rx'.id = id /\ Len(toServer') = Len(toServer) + Len(m)
      /\ \A i \in 1 .. Len(toServer) :
           toServer'[i] = toServer[i] /\ toServer'[i].id # rx'.id
      /\ \A i \in 1 .. Len(m) : toServer'[Len(toServer) + i] = m[i]
      /\ \A i \in 1 .. Len(toClient') : toClient'[i].id # rx'.id
      /\ srv'.disc = srv.disc
  <2> HIDE DEF m
  <2>1. toServer' = toServer \o m
    BY <1>2 DEF m
  <2>2. QED BY <1>1, <1>3, <1>4, <2>1, SendFacts, SMTT(30)
<1>6. \A i \in 1 .. Len(m) : m[i].cmd # "READ"
  <2>1. CASE c.op = "read"
    <3>1. Len(Command(id)) = 1
      BY <1>1, <2>1, Sending
    <3>2. QED BY <1>4, <3>1
  <2>2. CASE c.op = "write"
    <3>1. /\ Len(Command(id)) = c.n + 1 /\ Command(id)[1].cmd = "WRITE"
          /\ \A i \in 1 .. c.n : Command(id)[i + 1].cmd = "DATA"
      <4>1. /\ Len(Command(id)) = c.n + 1
            /\ Command(id)[1] = [cmd |-> "WRITE", id |-> id, n |-> c.n,
                                 sector |-> c.sector]
            /\ \A i \in 1 .. c.n :
                 Command(id)[i + 1] = [cmd |-> "DATA", id |-> id,
                                       pkt |-> i, data |-> calls + 1]
        BY <1>1, <2>2, Sending
      <4> HIDE DEF id, m
      <4>2. Command(id)[1].cmd = "WRITE"
        BY <4>1
      <4>3. ASSUME NEW i \in 1 .. c.n PROVE Command(id)[i + 1].cmd = "DATA"
        <5>1. Command(id)[i + 1] = [cmd |-> "DATA", id |-> id, pkt |-> i,
                                    data |-> calls + 1]
          BY <4>1
        <5>2. QED BY <5>1
      <4>4. QED BY <4>1, <4>2, <4>3
    <3>2. \A i \in 2 .. c.n + 1 : i - 1 \in 1 .. c.n /\ (i - 1) + 1 = i
      BY <1>1, Numbers
    <3>3. \A i \in 2 .. c.n + 1 : Command(id)[i].cmd = "DATA"
      BY <3>1, <3>2
    <3>4. \A i \in 1 .. Len(m) : i = 1 \/ i \in 2 .. c.n + 1
      BY <1>4, <3>1
    <3>5. QED BY <1>4, <3>1, <3>3, <3>4
  <2>3. QED BY <1>1, <2>1, <2>2
<1> HIDE DEF id, m
<1>7. LeftArmed'
  <2>1. \A i \in 1 .. Len(toServer') :
          \/ i \in 1 .. Len(toServer)
          \/ /\ i - Len(toServer) \in 1 .. Len(m)
             /\ i = Len(toServer) + (i - Len(toServer))
    <3>1. /\ Len(toServer) \in Nat /\ Len(m) \in Nat
          /\ Len(toServer') = Len(toServer) + Len(m)
      BY <1>1, <1>4, <1>5, Numbers
    <3>2. QED BY <3>1
  <2>2. \A i \in 1 .. Len(toServer') :
          toServer'[i].id = rx'.id => toServer'[i].cmd # "READ"
    BY <1>5, <1>6, <2>1, SMTT(30)
  <2>3. QED BY <1>5, <2>2 DEF LeftArmed
<1>8. CASE c.op = "read"
  <2>1. ReadTried(FALSE)
    BY <1>8 DEF SendFails
  <2>2. /\ c'.pc \in {"idle", "command"} /\ c'.op = "read" /\ c'.n = c.n
        /\ c'.left = c.left /\ c'.sector = c.sector /\ c'.clear = c.clear
    BY <1>1, <1>8, <2>1, TriedTyped
  <2>3. ~Active'
    BY <2>2 DEF Active
  <2>4. WriteInv'
    BY <2>2, <2>3 DEF WriteInv, WriteSent, WriteServed, WriteAnswered,
                      WriteProgress, WriteKept, Returned, Writing
  <2>5. Len(m) = 0
    <3>1. Len(Command(id)) = 1
      BY <1>1, <1>8, Sending
    <3>2. QED BY <1>4, <3>1
  <2>6. ReadKept'
    <3>1. c'.clear => InBuffer(First) /\ (First > 0 => NoData)
      BY <2>2, <1>8 DEF ClearInv, ReadInv, ReadKept
    <3>2. First' = First
      BY <2>2 DEF First
    <3>3. InBuffer(First) => InBuffer(First)'
      BY <1>3, <1>5, <2>2, <3>2 DEF InBuffer
    <3>4. Len(toServer') = Len(toServer)
      BY <1>1, <1>5, <2>5, Numbers
    <3>5. NoData => NoData'
      BY <1>5, <3>4 DEF NoData
    <3>6. QED BY <3>1, <3>2, <3>3, <3>5 DEF ReadKept
  <2>7. QED
    BY <1>1, <1>7, <2>3, <2>4, <2>6
       DEF ClearInv, ReadInv, ReadSent, ReadAnswered, ReadProgress, Reading
<1>9. CASE c.op = "write"
  <2>1. c' = [c EXCEPT !.pc = "idle", !.bits = {}, !.res = "error"]
    BY <1>9 DEF SendFails, Written
  <2>2. c'.pc = "idle" /\ c'.op = "write" /\ c'.res = "error"
    BY <1>1, <1>9, <2>1 DEF Caller
  <2>3. ~Active'
    BY <2>2 DEF Active
  <2>4. WriteInv'
    BY <2>2, <2>3 DEF WriteInv, WriteSent, WriteServed, WriteAnswered,
                      WriteProgress, WriteKept, Returned, Writing
  <2>5. QED
    BY <1>1, <1>7, <2>2, <2>3, <2>4
       DEF ClearInv, ReadInv, ReadSent, ReadAnswered, ReadProgress, ReadKept,
           Reading
<1>10. QED BY <1>1, <1>8, <1>9

\* The packets of the command stay the last ones when the first one goes.
LEMMA SentTail ==
    ASSUME ClearInv, toServer # <<>>, toServer' = Tail(toServer),
           UNCHANGED <<c, rx, calls>>
    PROVE  /\ WriteSent' /\ ReadSent'
           /\ Len(toServer) \in Nat \ {0} /\ Len(toServer') = Len(toServer) - 1
           /\ \A i \in 1 .. Len(toServer') :
                i + 1 \in 1 .. Len(toServer) /\ toServer'[i] = toServer[i + 1]
           /\ 1 \in 1 .. Len(toServer) /\ Head(toServer) = toServer[1]
           /\ Head(toServer) \in ToServer /\ toServer' \in Seq(ToServer)
<1>1. Typing /\ toServer \in Seq(ToServer) /\ c.n \in Nat
  BY Numbers DEF ClearInv
<1>2. /\ Len(toServer) \in Nat \ {0} /\ Len(toServer') = Len(toServer) - 1
      /\ \A i \in 1 .. Len(toServer') : toServer'[i] = toServer[i + 1]
      /\ Head(toServer) = toServer[1] /\ Head(toServer) \in ToServer
      /\ toServer' \in Seq(ToServer)
  BY <1>1, TailOf
<1>3. \A i \in 1 .. Len(toServer') : i + 1 \in 1 .. Len(toServer)
  BY <1>2
<1>4. 1 \in 1 .. Len(toServer)
  BY <1>2
<1>5. WriteSent'
  <2> SUFFICES ASSUME Writing, NEW i \in 1 .. Len(toServer')
               PROVE /\ i < Len(toServer') - c.n => toServer'[i].id # rx.id
                     /\ i = Len(toServer') - c.n =>
                          toServer'[i] = [cmd |-> "WRITE", id |-> rx.id,
                                          n |-> c.n, sector |-> c.sector]
                     /\ i > Len(toServer') - c.n =>
                          toServer'[i] = [cmd |-> "DATA", id |-> rx.id,
                                          pkt |-> c.n - Len(toServer') + i,
                                          data |-> calls + 1]
    BY DEF WriteSent, Writing, Active
  <2>1. /\ i < Len(toServer') - c.n => i + 1 < Len(toServer) - c.n
        /\ i = Len(toServer') - c.n => i + 1 = Len(toServer) - c.n
        /\ i > Len(toServer') - c.n => i + 1 > Len(toServer) - c.n
        /\ c.n - Len(toServer') + i = c.n - Len(toServer) + (i + 1)
    BY <1>1, <1>2, SMTT(30)
  <2>2. /\ i + 1 < Len(toServer) - c.n => toServer[i + 1].id # rx.id
        /\ i + 1 = Len(toServer) - c.n =>
             toServer[i + 1] = [cmd |-> "WRITE", id |-> rx.id,
                                n |-> c.n, sector |-> c.sector]
        /\ i + 1 > Len(toServer) - c.n =>
             toServer[i + 1] = [cmd |-> "DATA", id |-> rx.id,
                                pkt |-> c.n - Len(toServer) + (i + 1),
                                data |-> calls + 1]
    <3>1. WriteSent
      BY DEF ClearInv, WriteInv
    <3>2. i + 1 \in 1 .. Len(toServer)
      BY <1>3
    <3>3. QED BY <3>1, <3>2, Zenon DEF WriteSent
  <2>3. toServer'[i] = toServer[i + 1]
    BY <1>2
  <2>4. QED BY <2>1, <2>2, <2>3
<1>6. ReadSent'
  <2> SUFFICES ASSUME Reading, NEW i \in 1 .. Len(toServer'),
                      toServer'[i].id = rx.id
               PROVE /\ i = Len(toServer')
                     /\ toServer'[i] = [cmd |-> "READ", id |-> rx.id,
                                        n |-> Block,
                                        sector |-> c.sector + First]
    BY DEF ReadSent, Reading, Active, Block, First
  <2>1. i + 1 \in 1 .. Len(toServer) /\ toServer'[i] = toServer[i + 1]
    BY <1>2, <1>3
  <2>2. /\ i + 1 = Len(toServer)
        /\ toServer[i + 1] = [cmd |-> "READ", id |-> rx.id, n |-> Block,
                              sector |-> c.sector + First]
    BY <2>1 DEF ClearInv, ReadInv, ReadSent
  <2>3. i = Len(toServer')
    <3>1. i + 1 = Len(toServer) /\ i \in Nat
      BY <2>2, <1>2
    <3>2. Len(toServer) \in Nat /\ Len(toServer') = Len(toServer) - 1
      BY <1>2
    <3>3. QED BY <3>1, <3>2
  <2>4. QED BY <2>1, <2>2, <2>3
<1>7. QED BY <1>2, <1>3, <1>4, <1>5, <1>6

\* A packet to the client goes, and what is left is what was there.
LEMMA AnswersTail ==
    ASSUME ClearInv, toClient # <<>>, toClient' = Tail(toClient)
    PROVE  /\ toClient' \in Seq(ToClient)
           /\ \A i \in 1 .. Len(toClient') :
                i + 1 \in 1 .. Len(toClient) /\ toClient'[i] = toClient[i + 1]
           /\ 1 \in 1 .. Len(toClient) /\ Head(toClient) = toClient[1]
           /\ Head(toClient) \in ToClient
<1>1. toClient \in Seq(ToClient)
  BY Numbers DEF ClearInv
<1>2. /\ Len(toClient) \in Nat \ {0} /\ Len(toClient') = Len(toClient) - 1
      /\ \A i \in 1 .. Len(toClient') : toClient'[i] = toClient[i + 1]
      /\ Head(toClient) = toClient[1] /\ Head(toClient) \in ToClient
      /\ toClient' \in Seq(ToClient)
  BY <1>1, TailOf
<1>3. QED BY <1>2

LEMMA LoseClear == ClearInv /\ Lose => ClearInv'
<1> SUFFICES ASSUME ClearInv, Lose PROVE ClearInv'
  OBVIOUS
<1>1. Typing' /\ UNCHANGED <<c, rx, ef, buf, srv, calls>>
  BY LoseTyped DEF ClearInv, Lose
<1>2. /\ Writing' = Writing /\ Reading' = Reading /\ First' = First
      /\ Block' = Block /\ Active' = Active /\ Bits' = Bits
  BY <1>1 DEF Writing, Reading, First, Block, Active, Bits
<1>3. \A k : (OnDisc(k) => OnDisc(k)') /\ (InBuffer(k) => InBuffer(k)')
  BY <1>1 DEF OnDisc, InBuffer
<1>4. CASE toServer # <<>> /\ toServer' = Tail(toServer) /\ UNCHANGED toClient
  <2>1. /\ WriteSent' /\ ReadSent'
        /\ Len(toServer) \in Nat \ {0} /\ Len(toServer') = Len(toServer) - 1
        /\ \A i \in 1 .. Len(toServer') :
             i + 1 \in 1 .. Len(toServer) /\ toServer'[i] = toServer[i + 1]
    BY <1>1, <1>4, SentTail
  <2>2. WriteServed'
    <3>1. WriteServed /\ c.n \in Nat
      BY Numbers DEF ClearInv, WriteInv
    <3>2. Len(toServer) <= c.n => Len(toServer') <= c.n
      BY <2>1, <3>1
    <3>3. QED BY <1>1, <1>2, <1>3, <3>1, <3>2 DEF WriteServed
  <2>3. WriteAnswered' /\ WriteProgress' /\ WriteKept'
    BY <1>1, <1>2, <1>3, <1>4
       DEF ClearInv, WriteInv, WriteAnswered, WriteProgress, WriteKept, Returned
  <2>4. ReadAnswered' /\ ReadProgress'
    BY <1>1, <1>2, <1>3, <1>4 DEF ClearInv, ReadInv, ReadAnswered, ReadProgress
  <2>5. ReadKept' /\ LeftArmed'
    <3>1. ReadKept /\ LeftArmed
      BY DEF ClearInv, ReadInv
    <3>2. NoData => NoData'
      BY <2>1 DEF NoData
    <3>3. ReadKept'
      BY <1>1, <1>2, <1>3, <3>1, <3>2 DEF ReadKept
    <3>4. LeftArmed'
      BY <1>1, <1>2, <1>4, <2>1, <3>1 DEF LeftArmed
    <3>5. QED BY <3>3, <3>4
  <2>6. QED
    BY <1>1, <2>1, <2>2, <2>3, <2>4, <2>5 DEF ClearInv, WriteInv, ReadInv
<1>5. CASE toClient # <<>> /\ toClient' = Tail(toClient) /\ UNCHANGED toServer
  <2>1. \A i \in 1 .. Len(toClient') :
          i + 1 \in 1 .. Len(toClient) /\ toClient'[i] = toClient[i + 1]
    BY <1>5, AnswersTail
  <2>2. WriteSent' /\ WriteServed' /\ WriteProgress' /\ WriteKept'
    BY <1>1, <1>2, <1>3, <1>5
       DEF ClearInv, WriteInv, WriteSent, WriteServed, WriteProgress,
           WriteKept, Returned
  <2>3. WriteAnswered'
    <3>1. WriteAnswered
      BY DEF ClearInv, WriteInv
    <3>2. QED BY <1>1, <1>2, <1>3, <1>5, <2>1, <3>1 DEF WriteAnswered
  <2>4. ReadSent' /\ ReadProgress' /\ ReadKept'
    BY <1>1, <1>2, <1>3, <1>5
       DEF ClearInv, ReadInv, ReadSent, ReadProgress, ReadKept, NoData
  <2>5. ReadAnswered'
    <3>1. ReadAnswered
      BY DEF ClearInv, ReadInv
    <3>2. QED BY <1>1, <1>2, <1>5, <2>1, <3>1 DEF ReadAnswered
  <2>6. LeftArmed'
    <3>1. LeftArmed
      BY DEF ClearInv, ReadInv
    <3>2. QED BY <1>1, <1>2, <1>5, <2>1, <3>1 DEF LeftArmed
  <2>7. QED
    BY <1>1, <2>2, <2>3, <2>4, <2>5, <2>6 DEF ClearInv, WriteInv, ReadInv
<1>6. QED BY <1>4, <1>5 DEF Lose

\* A data packet that fills a buffer is one of the block that is read.
LEMMA TakenIsMine ==
    ASSUME ClearInv, toClient # <<>>, Head(toClient).id = rx.id,
           Head(toClient).cmd = "DATA", rx.armed
    PROVE  /\ Reading /\ toServer = <<>>
           /\ Head(toClient).pkt \in 1 .. Block
           /\ Head(toClient).data \in Version
           /\ Head(toClient).data =
                srv.disc[c.sector + First + Head(toClient).pkt - 1]
<1>1. 1 \in 1 .. Len(toClient) /\ Head(toClient) = toClient[1]
      /\ Head(toClient) \in ToClient
  <2>1. toClient \in Seq(ToClient)
    BY Numbers DEF ClearInv
  <2>2. Len(toClient) \in Nat \ {0} /\ Head(toClient) = toClient[1]
        /\ Head(toClient) \in ToClient
    BY <2>1, TailOf
  <2>3. QED BY <2>2
<1>2. Active
  BY <1>1 DEF ClearInv, ReadInv, LeftArmed
<1>3. ~Writing
  BY <1>1 DEF ClearInv, WriteInv, WriteAnswered
<1>4. Reading
  BY <1>2, <1>3, Numbers DEF ClearInv, Active, Reading, Writing
<1>5. QED BY <1>1, <1>4, Packets DEF ClearInv, ReadInv, ReadAnswered

\* What the receive handler does to the buffer of a read.
LEMMA Taking ==
    ASSUME ClearInv, toClient # <<>>, Head(toClient).id = rx.id,
           Head(toClient).cmd = "DATA", rx.armed,
           ReceiveData(Head(toClient)), InOrder(Head(toClient))
    PROVE  /\ rx.act = First + rx.pkt - 1 /\ rx.pkt \in 1 .. Block
           /\ rx.act + 1 <= c.n
           /\ buf' = [buf EXCEPT ![rx.act] = srv.disc[c.sector + rx.act]]
           /\ rx' = [rx EXCEPT !.pkt = @ + 1, !.act = @ + 1, !.size = @ - 1]
           /\ ef' = IF rx.size = 1 THEN ef \cup {"done"} ELSE ef
           /\ srv.disc[c.sector + rx.act] \in Version
<1> DEFINE p == Head(toClient)
<1>1. /\ Reading /\ toServer = <<>> /\ p.pkt \in 1 .. Block
      /\ p.data \in Version
      /\ p.data = srv.disc[c.sector + First + p.pkt - 1]
  BY TakenIsMine
<1>2. p.pkt = rx.pkt /\ rx.act = First + rx.pkt - 1
  BY <1>1 DEF InOrder, ClearInv, ReadInv, ReadProgress
<1>3. /\ c.n \in Nat /\ c.left \in 0 .. c.n /\ Block \in 1 .. c.left
      /\ First = c.n - c.left /\ c.sector \in Nat
  BY <1>1, Numbers DEF First, ClearInv, Reading, Active
<1>4. c.sector + First + p.pkt - 1 = c.sector + rx.act /\ rx.act + 1 <= c.n
  BY <1>1, <1>2, <1>3, SMTT(30)
<1>5. /\ buf' = [buf EXCEPT ![rx.act] = p.data]
      /\ rx' = [rx EXCEPT !.pkt = @ + 1, !.act = @ + 1, !.size = @ - 1]
      /\ ef' = IF rx.size = 1 THEN ef \cup {"done"} ELSE ef
  BY DEF ReceiveData
<1>6. QED BY <1>1, <1>2, <1>4, <1>5

\* What a packet can do: nothing, end a try, or fill a place in the buffer.
LEMMA ReceiveCases ==
    ASSUME ClearInv, Receive
    PROVE  LET p == Head(toClient)
           IN /\ toClient # <<>> /\ toClient' = Tail(toClient)
              /\ UNCHANGED <<c, alarm, toServer, srv, lost, early, calls>>
              /\ connected' \in BOOLEAN
              /\ \/ UNCHANGED <<rx, ef, buf>>
                 \/ /\ p.id = rx.id /\ p.cmd = "DONE" /\ UNCHANGED <<rx, buf>>
                    /\ ef' = ef \cup {IF p.ok THEN "done" ELSE "failed"}
                 \/ /\ rx' = [rx EXCEPT !.size = 0] /\ UNCHANGED buf
                    /\ ef' = ef \cup {"failed"}
                 \/ /\ p.id = rx.id /\ p.cmd = "DATA" /\ rx.armed
                    /\ ReceiveData(p) /\ InOrder(p)
<1> DEFINE p == Head(toClient)
<1>1. /\ toClient # <<>> /\ toClient' = Tail(toClient)
      /\ UNCHANGED <<c, alarm, toServer, srv, lost, early, calls>>
  BY DEF Receive
<1>2. p \in ToClient /\ connected \in BOOLEAN
  BY <1>1, TailOf, Numbers DEF ClearInv, Typing, TypeOK
<1>3. p.cmd \in {"INFO_REPLY", "DATA", "DONE"}
  BY <1>2, Packets
<1>4. CASE ~Current(p)
  BY <1>1, <1>2, <1>4 DEF Receive
<1>5. CASE Current(p) /\ p.cmd = "INFO_REPLY"
  BY <1>1, <1>2, <1>5 DEF Receive
<1>6. CASE Current(p) /\ p.cmd = "DONE"
  BY <1>1, <1>2, <1>6 DEF Receive, Current
<1>7. CASE Current(p) /\ p.cmd = "DATA"
  <2>1. ReceiveData(p) /\ UNCHANGED connected
    BY <1>7 DEF Receive
  <2>2. CASE ~rx.armed
    BY <1>1, <1>2, <2>1, <2>2 DEF ReceiveData
  <2>3. CASE rx.armed /\ ~InOrder(p)
    BY <1>1, <1>2, <2>1, <2>3 DEF ReceiveData
  <2>4. CASE rx.armed /\ InOrder(p)
    BY <1>1, <1>2, <1>7, <2>1, <2>4 DEF Current
  <2>5. QED BY <2>2, <2>3, <2>4
<1>8. QED BY <1>3, <1>4, <1>5, <1>6, <1>7

LEMMA ReceiveTyped == ClearInv /\ Receive => Typing'
<1> SUFFICES ASSUME ClearInv, Receive PROVE Typing'
  OBVIOUS
<1> DEFINE p == Head(toClient)
<1>1. /\ toClient # <<>> /\ toClient' = Tail(toClient)
      /\ UNCHANGED <<c, alarm, toServer, srv, lost, early, calls>>
      /\ connected' \in BOOLEAN
  BY ReceiveCases
<1>2. toClient' \in Seq(ToClient)
  BY <1>1, AnswersTail
<1>3. /\ rx \in Receiver /\ ef \in SUBSET {"done", "failed"}
      /\ buf \in [Sector -> Version \cup {0}] /\ Typing
  BY DEF ClearInv, Typing, TypeOK
<1>4. /\ rx' \in Receiver /\ ef' \in SUBSET {"done", "failed"}
      /\ buf' \in [Sector -> Version \cup {0}]
  <2>1. CASE UNCHANGED <<rx, ef, buf>>
    BY <1>3, <2>1
  <2>2. CASE /\ UNCHANGED <<rx, buf>>
             /\ ef' = ef \cup {IF p.ok THEN "done" ELSE "failed"}
    BY <1>3, <2>2
  <2>3. CASE /\ rx' = [rx EXCEPT !.size = 0] /\ UNCHANGED buf
             /\ ef' = ef \cup {"failed"}
    <3>1. rx' \in Receiver
      BY <1>3, <2>3 DEF Receiver
    <3>2. QED BY <1>3, <2>3, <3>1
  <2>4. CASE /\ p.id = rx.id /\ p.cmd = "DATA" /\ rx.armed
             /\ ReceiveData(p) /\ InOrder(p)
    <3>1. /\ rx.act + 1 <= c.n
          /\ buf' = [buf EXCEPT ![rx.act] = srv.disc[c.sector + rx.act]]
          /\ rx' = [rx EXCEPT !.pkt = @ + 1, !.act = @ + 1, !.size = @ - 1]
          /\ ef' = IF rx.size = 1 THEN ef \cup {"done"} ELSE ef
          /\ srv.disc[c.sector + rx.act] \in Version
      BY <1>1, <2>4, Taking
    <3>2. /\ rx.pkt + 1 \in Nat /\ rx.act + 1 \in 0 .. SectorCount
          /\ rx.size - 1 \in Int
      <4>1. /\ rx.pkt \in Nat /\ rx.act \in Nat /\ rx.size \in Int
            /\ c.n \in Nat /\ c.sector \in Nat
            /\ c.sector + c.n <= SectorCount
        BY <1>3, Numbers
      <4>2. QED BY <3>1, <4>1
    <3>3. rx' \in Receiver
      BY <1>3, <3>1, <3>2, Zenon DEF Receiver
    <3>4. ef' \in SUBSET {"done", "failed"}
      BY <1>3, <3>1
    <3>5. buf' \in [Sector -> Version \cup {0}]
      BY <1>3, <3>1
    <3>6. QED BY <3>3, <3>4, <3>5
  <2>5. QED BY <1>1, <2>1, <2>2, <2>3, <2>4, ReceiveCases
<1>5. QED BY <1>1, <1>2, <1>3, <1>4 DEF Typing, TypeOK

LEMMA ReceiveClear == ClearInv /\ Receive => ClearInv'
<1> SUFFICES ASSUME ClearInv, Receive PROVE ClearInv'
  OBVIOUS
<1> DEFINE p == Head(toClient)
<1>1. /\ Typing' /\ toClient # <<>> /\ toClient' = Tail(toClient)
      /\ UNCHANGED <<c, toServer, srv, calls>> /\ rx \in Receiver
  BY ReceiveTyped, ReceiveCases DEF ClearInv, Typing, TypeOK
<1>2. /\ Writing' = Writing /\ Reading' = Reading /\ First' = First
      /\ Block' = Block /\ Active' = Active
  BY <1>1 DEF Writing, Reading, First, Block, Active
<1>3. /\ \A k : OnDisc(k) => OnDisc(k)'
      /\ NoData => NoData'
  BY <1>1 DEF OnDisc, NoData
<1>4. \A i \in 1 .. Len(toClient') :
        i + 1 \in 1 .. Len(toClient) /\ toClient'[i] = toClient[i + 1]
  BY <1>1, AnswersTail
<1>5. 1 \in 1 .. Len(toClient) /\ p = toClient[1] /\ p \in ToClient
  BY <1>1, AnswersTail
<1>6. rx'.id = rx.id /\ rx'.armed = rx.armed
  <2>1. CASE UNCHANGED rx
    BY <2>1
  <2>2. CASE rx' = [rx EXCEPT !.size = 0]
    BY <1>1, <2>2 DEF Receiver
  <2>3. CASE /\ p.id = rx.id /\ p.cmd = "DATA" /\ rx.armed
             /\ ReceiveData(p) /\ InOrder(p)
    <3>1. rx' = [rx EXCEPT !.pkt = @ + 1, !.act = @ + 1, !.size = @ - 1]
      BY <1>1, <2>3, Taking
    <3>2. QED BY <1>1, <3>1 DEF Receiver
  <2>4. QED BY <2>1, <2>2, <2>3, ReceiveCases
<1>7. WriteSent' /\ WriteServed' /\ WriteKept'
  BY <1>1, <1>2, <1>3, <1>6
     DEF ClearInv, WriteInv, WriteSent, WriteServed, WriteKept, Returned
<1>8. WriteAnswered'
  <2>1. WriteAnswered
    BY DEF ClearInv, WriteInv
  <2>2. QED BY <1>1, <1>2, <1>3, <1>4, <1>6, <2>1 DEF WriteAnswered
<1>9. ReadSent'
  BY <1>1, <1>2, <1>6 DEF ClearInv, ReadInv, ReadSent
<1>10. ReadAnswered'
  <2>1. ReadAnswered
    BY DEF ClearInv, ReadInv
  <2>2. QED BY <1>1, <1>2, <1>4, <1>6, <2>1 DEF ReadAnswered
<1>11. LeftArmed'
  <2>1. LeftArmed
    BY DEF ClearInv, ReadInv
  <2>2. QED BY <1>1, <1>2, <1>4, <1>6, <2>1 DEF LeftArmed
<1>12. WriteProgress' /\ ReadProgress' /\ ReadKept'
  <2>1. WriteProgress /\ ReadProgress /\ ReadKept
    BY DEF ClearInv, WriteInv, ReadInv
  <2>2. CASE UNCHANGED <<rx, ef, buf>>
    <3>1. Bits' = Bits /\ \A k : InBuffer(k) => InBuffer(k)'
      BY <1>1, <2>2 DEF Bits, InBuffer
    <3>2. WriteProgress'
      BY <1>1, <1>2, <1>3, <2>1, <3>1 DEF WriteProgress
    <3>3. ReadProgress'
      BY <1>1, <1>2, <2>1, <2>2, <3>1 DEF ReadProgress
    <3>4. ReadKept'
      BY <1>1, <1>2, <1>3, <2>1, <3>1 DEF ReadKept
    <3>5. QED BY <3>2, <3>3, <3>4
  <2>3. CASE /\ p.id = rx.id /\ p.cmd = "DONE" /\ UNCHANGED <<rx, buf>>
             /\ ef' = ef \cup {IF p.ok THEN "done" ELSE "failed"}
    <3>1. \A k : InBuffer(k) => InBuffer(k)'
      BY <1>1, <2>3 DEF InBuffer
    <3>2. ~Reading
      BY <1>5, <2>3 DEF ClearInv, ReadInv, ReadAnswered
    <3>3. WriteProgress'
      <4>1. CASE p.ok
        <5>1. Writing => toServer = <<>> /\ OnDisc(c.n)
          BY <1>5, <2>3, <4>1 DEF ClearInv, WriteInv, WriteAnswered
        <5>2. QED BY <1>1, <1>2, <1>3, <5>1 DEF WriteProgress
      <4>2. CASE ~p.ok
        <5>1. "done" \in Bits' => "done" \in Bits
          BY <1>1, <2>3, <4>2 DEF Bits
        <5>2. QED BY <1>1, <1>2, <1>3, <2>1, <5>1 DEF WriteProgress
      <4>3. QED BY <4>1, <4>2
    <3>4. ReadProgress'
      BY <1>2, <3>2 DEF ReadProgress
    <3>5. ReadKept'
      BY <1>1, <1>2, <1>3, <2>1, <3>1 DEF ReadKept
    <3>6. QED BY <3>3, <3>4, <3>5
  <2>4. CASE /\ rx' = [rx EXCEPT !.size = 0] /\ UNCHANGED buf
             /\ ef' = ef \cup {"failed"}
    <3>1. \A k : InBuffer(k) => InBuffer(k)'
      BY <1>1, <2>4 DEF InBuffer
    <3>2. "done" \in Bits' => "done" \in Bits
      BY <1>1, <2>4 DEF Bits
    <3>3. /\ rx'.armed = rx.armed /\ rx'.pkt = rx.pkt /\ rx'.act = rx.act
          /\ rx'.size = 0
      BY <1>1, <2>4 DEF Receiver
    <3>4. WriteProgress'
      BY <1>1, <1>2, <1>3, <2>1, <3>2 DEF WriteProgress
    <3>5. ReadProgress'
      <4>1. Reading => 0 <= Block - rx.pkt + 1
        BY <2>1, Numbers, SMTT(30) DEF ReadProgress, ClearInv, Reading, Active
      <4>2. QED
        BY <1>1, <1>2, <2>1, <2>4, <3>2, <3>3, <4>1 DEF ReadProgress
    <3>6. ReadKept'
      BY <1>1, <1>2, <1>3, <2>1, <3>1 DEF ReadKept
    <3>7. QED BY <3>4, <3>5, <3>6
  <2>5. CASE /\ p.id = rx.id /\ p.cmd = "DATA" /\ rx.armed
             /\ ReceiveData(p) /\ InOrder(p)
    <3>1. Reading /\ toServer = <<>>
      BY <1>1, <2>5, TakenIsMine
    <3>2. /\ rx.act = First + rx.pkt - 1 /\ rx.pkt \in 1 .. Block
          /\ rx.act + 1 <= c.n
          /\ buf' = [buf EXCEPT ![rx.act] = srv.disc[c.sector + rx.act]]
          /\ rx' = [rx EXCEPT !.pkt = @ + 1, !.act = @ + 1, !.size = @ - 1]
          /\ ef' = IF rx.size = 1 THEN ef \cup {"done"} ELSE ef
      BY <1>1, <2>5, Taking
    <3>3. /\ rx'.pkt = rx.pkt + 1 /\ rx'.act = rx.act + 1
          /\ rx'.size = rx.size - 1
      BY <1>1, <3>2 DEF Receiver
    <3>4. /\ First \in Nat /\ Block \in Nat /\ rx.act \in Nat /\ c.n \in Nat
          /\ rx.size \in Int /\ First <= rx.act /\ c.n <= SectorCount
      <4>1. /\ c.n - c.left \in 0 .. c.n /\ Block \in 1 .. c.left
            /\ c.left \in 0 .. c.n /\ c.n \in Nat /\ rx.act \in Nat
            /\ rx.size \in Int /\ c.sector \in Nat
            /\ c.sector + c.n <= SectorCount
        BY <3>1, Numbers DEF Reading, Active, ClearInv
      <4>2. QED BY <3>2, <4>1 DEF First
    <3>5. /\ buf'[rx.act] = srv.disc[c.sector + rx.act]
          /\ \A j \in Sector : j # rx.act => buf'[j] = buf[j]
      <4>1. buf \in [Sector -> Version \cup {0}]
        BY DEF ClearInv, Typing, TypeOK
      <4>2. rx.act \in Sector
        BY <3>2, <3>4 DEF Sector
      <4>3. QED BY <3>2, <4>1, <4>2
    <3>6. WriteProgress'
      BY <1>2, <3>1 DEF WriteProgress, Writing, Reading
    <3>7. ReadKept'
      <4>1. \A j \in 0 .. First - 1 : j \in Sector /\ j # rx.act
        BY <3>2, <3>4 DEF Sector
      <4>2. InBuffer(First) => InBuffer(First)'
        BY <1>1, <1>2, <3>5, <4>1 DEF InBuffer
      <4>3. QED BY <1>1, <1>2, <1>3, <2>1, <4>2 DEF ReadKept
    <3>8. ReadProgress'
      <4>1. /\ rx'.armed /\ rx'.pkt \in 1 .. Block + 1
            /\ rx'.act = First + rx'.pkt - 1
        BY <1>6, <2>5, <3>2, <3>3, <3>4
      <4>2. /\ rx'.size > 0 => rx'.size = Block - rx'.pkt + 1
            /\ rx'.size <= Block - rx'.pkt + 1
        <5>1. /\ rx.size > 0 => rx.size = Block - rx.pkt + 1
              /\ rx.size <= Block - rx.pkt + 1
          BY <2>1, <3>1 DEF ReadProgress
        <5>2. QED BY <3>2, <3>3, <3>4, <5>1
      <4>3. \A j \in First .. rx'.act - 1 : buf'[j] = srv.disc[c.sector + j]
        <5>1. \A j \in First .. rx.act - 1 : buf[j] = srv.disc[c.sector + j]
          BY <2>1, <3>1 DEF ReadProgress
        <5>2. \A j \in First .. rx'.act - 1 :
                \/ j = rx.act
                \/ j \in First .. rx.act - 1 /\ j \in Sector /\ j # rx.act
          BY <3>2, <3>3, <3>4 DEF Sector
        <5>3. QED BY <3>5, <5>1, <5>2
      <4>4. c.clear /\ "done" \in Bits' => rx'.pkt = Block + 1
        <5>1. c.clear /\ "done" \in Bits => rx.pkt = Block + 1
          BY <2>1, <3>1 DEF ReadProgress
        <5>2. rx.size = 1 => rx.pkt = Block
          <6>1. rx.size > 0 => rx.size = Block - rx.pkt + 1
            BY <2>1, <3>1 DEF ReadProgress
          <6>2. QED BY <3>2, <3>4, <6>1
        <5>3. "done" \in Bits' => "done" \in Bits \/ rx.size = 1
          BY <1>1, <3>2 DEF Bits
        <5>4. QED BY <3>2, <3>3, <3>4, <5>1, <5>2, <5>3
      <4>5. QED BY <1>1, <1>2, <3>1, <4>1, <4>2, <4>3, <4>4 DEF ReadProgress
    <3>9. QED BY <3>6, <3>7, <3>8
  <2>6. QED BY <2>2, <2>3, <2>4, <2>5, ReceiveCases
<1>13. QED
  BY <1>1, <1>7, <1>8, <1>9, <1>10, <1>11, <1>12
     DEF ClearInv, WriteInv, ReadInv

\* What the server does with a packet.
LEMMA ServeCases ==
    ASSUME ClearInv, Serve
    PROVE  LET p == Head(toServer)
               w == srv.write
           IN /\ toServer # <<>> /\ toServer' = Tail(toServer)
              /\ UNCHANGED <<c, rx, ef, alarm, connected, buf, lost, early, calls>>
              /\ \/ /\ p.cmd = "INFO" /\ UNCHANGED srv
                    /\ toClient' = Append(toClient, [cmd |-> "INFO_REPLY",
                                                     id |-> p.id])
                 \/ /\ p.cmd = "READ"
                    /\ toClient' = toClient \o
                         [i \in 1 .. p.n |->
                            [cmd |-> "DATA", id |-> p.id, pkt |-> i,
                             data |-> srv.disc[p.sector + i - 1]]]
                    /\ srv' = [srv EXCEPT !.write = NoWrite]
                 \/ /\ p.cmd = "WRITE" /\ UNCHANGED toClient
                    /\ srv' = [srv EXCEPT !.write =
                                 [id |-> p.id, sector |-> p.sector,
                                  left |-> p.n, pkt |-> 1]]
                 \/ /\ p.cmd = "DATA" /\ w.left > 0 /\ p.id = w.id
                    /\ p.pkt = w.pkt
                    /\ srv' = [disc |-> [srv.disc EXCEPT ![w.sector] = p.data],
                               write |-> [w EXCEPT !.sector = @ + 1,
                                            !.left = @ - 1, !.pkt = @ + 1]]
                    /\ \/ /\ w.left = 1
                          /\ toClient' = Append(toClient,
                               [cmd |-> "DONE", id |-> p.id, ok |-> TRUE])
                       \/ w.left # 1 /\ UNCHANGED toClient
                 \/ /\ p.cmd = "DATA" /\ srv' = [srv EXCEPT !.write = NoWrite]
                    /\ \/ UNCHANGED toClient
                       \/ toClient' = Append(toClient,
                               [cmd |-> "DONE", id |-> p.id, ok |-> FALSE])
<1> DEFINE p == Head(toServer)
           w == srv.write
<1>1. /\ toServer # <<>> /\ toServer' = Tail(toServer)
      /\ UNCHANGED <<c, rx, ef, alarm, connected, buf, lost, early, calls>>
  BY DEF Serve
<1>2. p \in ToServer
  BY <1>1, TailOf, Numbers DEF ClearInv
<1>3. p.cmd \in {"INFO", "READ", "WRITE", "DATA"}
  BY <1>2, Packets
<1>4. CASE p.cmd = "INFO"
  BY <1>1, <1>4 DEF Serve
<1>5. CASE p.cmd = "READ"
  BY <1>1, <1>5 DEF Serve
<1>6. CASE p.cmd = "WRITE"
  BY <1>1, <1>6 DEF Serve
<1>7. CASE p.cmd = "DATA"
  <2>1. Store(p)
    BY <1>7 DEF Serve
  <2>2. CASE w.left > 0 /\ p.id = w.id /\ p.pkt = w.pkt
    BY <1>1, <1>7, <2>1, <2>2 DEF Store, WriteDone
  <2>3. CASE ~(w.left > 0 /\ p.id = w.id /\ p.pkt = w.pkt)
    BY <1>1, <1>7, <2>1, <2>3 DEF Store, WriteDone
  <2>4. QED BY <2>2, <2>3
<1>8. QED BY <1>3, <1>4, <1>5, <1>6, <1>7

LEMMA Appended ==
    ASSUME NEW S, NEW q \in Seq(S), NEW e \in S
    PROVE  /\ Append(q, e) \in Seq(S)
           /\ \A i \in 1 .. Len(Append(q, e)) :
                \/ i \in 1 .. Len(q) /\ Append(q, e)[i] = q[i]
                \/ Append(q, e)[i] = e
<1>1. /\ Append(q, e) \in Seq(S) /\ Len(Append(q, e)) = Len(q) + 1
      /\ \A i \in 1 .. Len(q) : Append(q, e)[i] = q[i]
      /\ Append(q, e)[Len(q) + 1] = e /\ Len(q) \in Nat
  BY AppendProperties, LenProperties
<1>2. \A i \in 1 .. Len(q) + 1 : i \in 1 .. Len(q) \/ i = Len(q) + 1
  BY <1>1
<1>3. QED BY <1>1, <1>2

LEMMA Joined ==
    ASSUME NEW S, NEW q \in Seq(S), NEW m \in Seq(S)
    PROVE  /\ q \o m \in Seq(S)
           /\ \A i \in 1 .. Len(q \o m) :
                \/ i \in 1 .. Len(q) /\ (q \o m)[i] = q[i]
                \/ \E j \in 1 .. Len(m) : (q \o m)[i] = m[j]
<1>1. /\ q \o m \in Seq(S) /\ Len(q \o m) = Len(q) + Len(m)
      /\ \A i \in 1 .. Len(q) + Len(m) :
           (q \o m)[i] = IF i <= Len(q) THEN q[i] ELSE m[i - Len(q)]
      /\ Len(q) \in Nat /\ Len(m) \in Nat
  BY ConcatProperties, LenProperties
<1>2. \A i \in 1 .. Len(q) + Len(m) :
        i \in 1 .. Len(q) \/ (i > Len(q) /\ i - Len(q) \in 1 .. Len(m))
  BY <1>1
<1>3. \A i \in 1 .. Len(q) : i <= Len(q) /\ i \in 1 .. Len(q) + Len(m)
  BY <1>1
<1>4. QED BY <1>1, <1>2, <1>3, SMTT(30)

\* An answer is one that was under way, or belongs to the packet served.
Answers(p) ==
    \A i \in 1 .. Len(toClient') :
      \/ i \in 1 .. Len(toClient) /\ toClient'[i] = toClient[i]
      \/ /\ toClient'[i].id = p.id
         /\ \/ p.cmd = "INFO" /\ toClient'[i].cmd = "INFO_REPLY"
            \/ /\ p.cmd = "READ" /\ toClient'[i].cmd = "DATA"
               /\ toClient'[i].pkt \in 1 .. p.n
               /\ toClient'[i].data =
                    srv.disc[p.sector + toClient'[i].pkt - 1]
            \/ /\ p.cmd = "DATA" /\ toClient'[i].cmd = "DONE"
               /\ toClient'[i].ok =>
                    /\ srv.write.left = 1 /\ p.id = srv.write.id
                    /\ p.pkt = srv.write.pkt
                    /\ srv'.disc = [srv.disc EXCEPT ![srv.write.sector]
                                                      = p.data]

LEMMA ServeFacts ==
    ASSUME ClearInv, Serve
    PROVE  /\ srv' \in Server /\ toClient' \in Seq(ToClient)
           /\ Answers(Head(toServer))
           /\ Head(toServer).cmd # "DATA" => srv'.disc = srv.disc
<1> DEFINE p == Head(toServer)
           w == srv.write
<1>1. Typing /\ srv \in Server /\ toClient \in Seq(ToClient)
  BY DEF ClearInv, Typing, TypeOK
<1>2. p \in ToServer
  BY ServeCases, TailOf, Numbers DEF ClearInv
<1>3. NoWrite \in [id : Id, sector : Nat, left : Nat, pkt : Nat]
  BY DEF NoWrite, Id
<1>4. CASE /\ p.cmd = "INFO" /\ UNCHANGED srv
           /\ toClient' = Append(toClient, [cmd |-> "INFO_REPLY", id |-> p.id])
  <2>1. [cmd |-> "INFO_REPLY", id |-> p.id] \in ToClient
    BY <1>2, Packets DEF ToClient
  <2>2. QED BY <1>1, <1>4, <2>1, Appended DEF Answers
<1>5. CASE /\ p.cmd = "READ"
           /\ toClient' = toClient \o
                [i \in 1 .. p.n |->
                   [cmd |-> "DATA", id |-> p.id, pkt |-> i,
                    data |-> srv.disc[p.sector + i - 1]]]
           /\ srv' = [srv EXCEPT !.write = NoWrite]
  <2> DEFINE m == [i \in 1 .. p.n |->
                     [cmd |-> "DATA", id |-> p.id, pkt |-> i,
                      data |-> srv.disc[p.sector + i - 1]]]
  <2>1. /\ p.id \in Id /\ p.sector \in Sector /\ p.n \in 1 .. SectorCount
        /\ p.sector + p.n <= SectorCount
    BY <1>2, <1>5, Packets
  <2>2. \A i \in 1 .. p.n : srv.disc[p.sector + i - 1] \in Version
    <3>1. \A i \in 1 .. p.n : p.sector + i - 1 \in Sector
      BY <2>1 DEF Sector
    <3>2. QED BY <1>1, <3>1 DEF Server
  <2>3. \A i \in 1 .. p.n : [cmd |-> "DATA", id |-> p.id, pkt |-> i,
                             data |-> srv.disc[p.sector + i - 1]] \in ToClient
    BY <2>1, <2>2 DEF ToClient
  <2>4. /\ m \in Seq(ToClient) /\ Len(m) = p.n
        /\ \A i \in 1 .. p.n :
             m[i] = [cmd |-> "DATA", id |-> p.id, pkt |-> i,
                     data |-> srv.disc[p.sector + i - 1]]
    BY <2>1, <2>3, IsASeq
  <2> HIDE DEF m
  <2>5. toClient' = toClient \o m
    BY <1>5 DEF m
  <2>6. srv' \in Server /\ srv'.disc = srv.disc
    BY <1>1, <1>3, <1>5 DEF Server
  <2>7. /\ toClient' \in Seq(ToClient)
        /\ \A i \in 1 .. Len(toClient') :
             \/ i \in 1 .. Len(toClient) /\ toClient'[i] = toClient[i]
             \/ \E j \in 1 .. p.n : toClient'[i] = m[j]
    BY <1>1, <2>4, <2>5, Joined
  <2>8. \A j \in 1 .. p.n :
          /\ m[j].id = p.id /\ m[j].cmd = "DATA" /\ m[j].pkt \in 1 .. p.n
          /\ m[j].data = srv.disc[p.sector + m[j].pkt - 1]
    <3> SUFFICES ASSUME NEW j \in 1 .. p.n
                 PROVE  /\ m[j].id = p.id /\ m[j].cmd = "DATA"
                        /\ m[j].pkt \in 1 .. p.n
                        /\ m[j].data = srv.disc[p.sector + m[j].pkt - 1]
      OBVIOUS
    <3>1. m[j] = [cmd |-> "DATA", id |-> p.id, pkt |-> j,
                  data |-> srv.disc[p.sector + j - 1]]
      BY <2>4
    <3>2. QED BY <3>1
  <2>9. Answers(p)
    <3>1. ASSUME NEW i \in 1 .. Len(toClient')
          PROVE  \/ i \in 1 .. Len(toClient) /\ toClient'[i] = toClient[i]
                 \/ /\ toClient'[i].id = p.id /\ toClient'[i].cmd = "DATA"
                    /\ toClient'[i].pkt \in 1 .. p.n
                    /\ toClient'[i].data =
                         srv.disc[p.sector + toClient'[i].pkt - 1]
      <4>1. CASE \E j \in 1 .. p.n : toClient'[i] = m[j]
        BY <2>8, <4>1, Zenon
      <4>2. QED BY <2>7, <4>1
    <3>2. QED BY <1>5, <3>1, Zenon DEF Answers
  <2>10. QED BY <2>6, <2>7, <2>9
<1>6. CASE /\ p.cmd = "WRITE" /\ UNCHANGED toClient
           /\ srv' = [srv EXCEPT !.write =
                        [id |-> p.id, sector |-> p.sector,
                         left |-> p.n, pkt |-> 1]]
  <2>1. p.id \in Id /\ p.sector \in Nat /\ p.n \in Nat
    BY <1>2, <1>6, Packets DEF Sector
  <2>2. srv' \in Server /\ srv'.disc = srv.disc
    BY <1>1, <1>6, <2>1 DEF Server
  <2>3. QED BY <1>1, <1>6, <2>2 DEF Answers
<1>7. CASE /\ p.cmd = "DATA" /\ w.left > 0 /\ p.id = w.id /\ p.pkt = w.pkt
           /\ srv' = [disc |-> [srv.disc EXCEPT ![w.sector] = p.data],
                      write |-> [w EXCEPT !.sector = @ + 1,
                                          !.left = @ - 1, !.pkt = @ + 1]]
           /\ \/ /\ w.left = 1
                 /\ toClient' = Append(toClient,
                      [cmd |-> "DONE", id |-> p.id, ok |-> TRUE])
              \/ w.left # 1 /\ UNCHANGED toClient
  <2>1. /\ w \in [id : Id, sector : Nat, left : Nat, pkt : Nat]
        /\ srv.disc \in [Sector -> Version]
    BY <1>1 DEF Server
  <2>2. p.data \in Version /\ p.id \in Id
    BY <1>2, <1>7, Packets
  <2>3. w.sector + 1 \in Nat /\ w.left - 1 \in Nat /\ w.pkt + 1 \in Nat
    BY <1>7, <2>1, SMTT(30)
  <2>4. [w EXCEPT !.sector = @ + 1, !.left = @ - 1, !.pkt = @ + 1]
          \in [id : Id, sector : Nat, left : Nat, pkt : Nat]
    BY <2>1, <2>3, Zenon
  <2>5. [srv.disc EXCEPT ![w.sector] = p.data] \in [Sector -> Version]
    BY <2>1, <2>2
  <2>6. /\ srv' \in Server
        /\ srv'.disc = [srv.disc EXCEPT ![w.sector] = p.data]
    BY <1>7, <2>4, <2>5 DEF Server
  <2>7. CASE UNCHANGED toClient
    BY <1>1, <1>7, <2>6, <2>7 DEF Answers
  <2>8. CASE /\ w.left = 1
             /\ toClient' = Append(toClient,
                  [cmd |-> "DONE", id |-> p.id, ok |-> TRUE])
    <3> DEFINE e == [cmd |-> "DONE", id |-> p.id, ok |-> TRUE]
    <3>1. e \in ToClient
      BY <2>2 DEF ToClient
    <3>2. e.cmd = "DONE" /\ e.id = p.id
      OBVIOUS
    <3> HIDE DEF e
    <3>3. toClient' = Append(toClient, e)
      BY <2>8 DEF e
    <3>4. /\ toClient' \in Seq(ToClient)
          /\ \A i \in 1 .. Len(toClient') :
               \/ i \in 1 .. Len(toClient) /\ toClient'[i] = toClient[i]
               \/ toClient'[i] = e
      BY <1>1, <3>1, <3>3, Appended
    <3>5. Answers(p)
      BY <1>7, <2>6, <2>8, <3>2, <3>4 DEF Answers
    <3>6. QED BY <1>7, <2>6, <3>4, <3>5
  <2>9. QED BY <1>7, <2>7, <2>8
<1>8. CASE /\ p.cmd = "DATA" /\ srv' = [srv EXCEPT !.write = NoWrite]
           /\ \/ UNCHANGED toClient
              \/ toClient' = Append(toClient,
                      [cmd |-> "DONE", id |-> p.id, ok |-> FALSE])
  <2>1. srv' \in Server
    BY <1>1, <1>3, <1>8 DEF Server
  <2>2. CASE UNCHANGED toClient
    BY <1>1, <1>8, <2>1, <2>2 DEF Answers
  <2>3. CASE toClient' = Append(toClient,
                  [cmd |-> "DONE", id |-> p.id, ok |-> FALSE])
    <3> DEFINE e == [cmd |-> "DONE", id |-> p.id, ok |-> FALSE]
    <3>1. e \in ToClient
      BY <1>2, Packets DEF ToClient
    <3>2. e.cmd = "DONE" /\ e.id = p.id /\ ~e.ok
      OBVIOUS
    <3> HIDE DEF e
    <3>3. toClient' = Append(toClient, e)
      BY <2>3 DEF e
    <3>4. /\ toClient' \in Seq(ToClient)
          /\ \A i \in 1 .. Len(toClient') :
               \/ i \in 1 .. Len(toClient) /\ toClient'[i] = toClient[i]
               \/ toClient'[i] = e
      BY <1>1, <3>1, <3>3, Appended
    <3>5. Answers(p)
      BY <1>8, <3>2, <3>4 DEF Answers
    <3>6. QED BY <1>8, <2>1, <3>4, <3>5
  <2>4. QED BY <1>8, <2>2, <2>3
<1>9. QED BY <1>4, <1>5, <1>6, <1>7, <1>8, ServeCases

LEMMA ServeTyped == ClearInv /\ Serve => Typing'
<1> SUFFICES ASSUME ClearInv, Serve PROVE Typing'
  OBVIOUS
<1>1. UNCHANGED <<c, rx, ef, alarm, connected, buf, lost, early, calls>>
      /\ toServer # <<>> /\ toServer' = Tail(toServer)
  BY ServeCases
<1>2. toServer' \in Seq(ToServer)
  BY <1>1, SentTail
<1>3. srv' \in Server /\ toClient' \in Seq(ToClient)
  BY ServeFacts
<1>4. QED BY <1>1, <1>2, <1>3 DEF ClearInv, Typing, TypeOK

\* The server's write in progress is the command's, as far as it has come.
LEMMA ServeWrite == ClearInv /\ Serve => WriteServed'
<1> SUFFICES ASSUME ClearInv, Serve PROVE WriteServed'
  OBVIOUS
<1> SUFFICES ASSUME Writing, srv'.write.id = rx.id,
                    srv'.write.left > 0, UNCHANGED <<c, rx, calls>>
             PROVE  /\ Len(toServer') <= c.n /\ srv'.write.pkt >= 1
                    /\ srv'.write.left = c.n - srv'.write.pkt + 1
                    /\ srv'.write.sector = c.sector + srv'.write.pkt - 1
                    /\ \A j \in 0 .. srv'.write.pkt - 2 :
                         srv'.disc[c.sector + j] = calls + 1
  <2>1. UNCHANGED <<c, rx, calls>>
    BY ServeCases
  <2>2. ASSUME Writing', srv'.write.id = rx'.id, srv'.write.left > 0
        PROVE  Writing
    BY <2>1, <2>2 DEF Writing, Active
  <2>3. srv' \in Server
    BY ServeFacts
  <2>4. srv'.write.pkt - 2 = (srv'.write.pkt - 1) - 1
    BY <2>3 DEF Server
  <2>5. QED BY <2>1, <2>2, <2>4 DEF WriteServed, OnDisc
<1> DEFINE p == Head(toServer)
           w == srv.write
           L == Len(toServer)
<1>1. /\ L \in Nat \ {0} /\ Len(toServer') = L - 1
      /\ 1 \in 1 .. L /\ p = toServer[1] /\ p \in ToServer
      /\ c.n \in Nat /\ c.sector \in Nat /\ calls \in Nat
      /\ c.sector + c.n <= SectorCount
  BY ServeCases, SentTail, Numbers DEF ClearInv
<1>2. /\ w \in [id : Id, sector : Nat, left : Nat, pkt : Nat]
      /\ srv.disc \in [Sector -> Version] /\ srv \in Server
  BY DEF ClearInv, Typing, TypeOK, Server
<1>3. /\ 1 < L - c.n => p.id # rx.id
      /\ 1 = L - c.n => p = [cmd |-> "WRITE", id |-> rx.id, n |-> c.n,
                             sector |-> c.sector]
      /\ 1 > L - c.n => p = [cmd |-> "DATA", id |-> rx.id,
                             pkt |-> c.n - L + 1, data |-> calls + 1]
  <2>1. WriteSent
    BY DEF ClearInv, WriteInv
  <2>2. QED BY <1>1, <2>1, Zenon DEF WriteSent
<1>4. w.id = rx.id /\ w.left > 0 =>
        /\ L <= c.n /\ w.pkt >= 1 /\ w.left = c.n - w.pkt + 1
        /\ w.sector = c.sector + w.pkt - 1
        /\ \A j \in 0 .. (w.pkt - 1) - 1 : srv.disc[c.sector + j] = calls + 1
  BY DEF ClearInv, WriteInv, WriteServed, OnDisc
<1>5. CASE UNCHANGED srv
  <2>1. \A j \in 0 .. w.pkt - 2 : j \in 0 .. (w.pkt - 1) - 1
    BY <1>2
  <2>2. QED BY <1>1, <1>4, <1>5, <2>1
<1>6. CASE srv' = [srv EXCEPT !.write = NoWrite]
  BY <1>2, <1>6 DEF Server, NoWrite
<1>7. CASE /\ p.cmd = "WRITE"
           /\ srv' = [srv EXCEPT !.write =
                        [id |-> p.id, sector |-> p.sector,
                         left |-> p.n, pkt |-> 1]]
  <2>1. /\ srv'.write.id = p.id /\ srv'.write.sector = p.sector
        /\ srv'.write.left = p.n /\ srv'.write.pkt = 1
    BY <1>2, <1>7 DEF Server
  <2>2. ~(1 < L - c.n) /\ ~(1 > L - c.n)
    BY <1>3, <1>7, <2>1
  <2>3. 1 = L - c.n
    BY <1>1, <2>2
  <2>4. p.n = c.n /\ p.sector = c.sector
    BY <1>3, <2>3
  <2>5. QED BY <1>1, <2>1, <2>3, <2>4
<1>8. CASE /\ p.cmd = "DATA" /\ w.left > 0 /\ p.id = w.id /\ p.pkt = w.pkt
           /\ srv' = [disc |-> [srv.disc EXCEPT ![w.sector] = p.data],
                      write |-> [w EXCEPT !.sector = @ + 1,
                                          !.left = @ - 1, !.pkt = @ + 1]]
  <2>1. /\ srv'.write.id = w.id /\ srv'.write.sector = w.sector + 1
        /\ srv'.write.left = w.left - 1 /\ srv'.write.pkt = w.pkt + 1
        /\ srv'.disc = [srv.disc EXCEPT ![w.sector] = p.data]
    BY <1>2, <1>8
  <2>2. /\ L <= c.n /\ w.pkt >= 1 /\ w.left = c.n - w.pkt + 1
        /\ w.sector = c.sector + w.pkt - 1
        /\ \A j \in 0 .. (w.pkt - 1) - 1 : srv.disc[c.sector + j] = calls + 1
    BY <1>4, <1>8, <2>1
  <2>3. p.data = calls + 1
    <3>1. 1 > L - c.n
      BY <1>1, <2>2
    <3>2. QED BY <1>3, <3>1
  <2>8. w.pkt \in Nat /\ w.left \in Nat \ {0} /\ w.sector \in Nat
    BY <1>2, <1>8
  <2>10. /\ L <= c.n /\ w.pkt >= 1 /\ w.left = c.n - w.pkt + 1
         /\ w.sector = c.sector + w.pkt - 1
         /\ L \in Nat /\ c.n \in Nat /\ c.sector \in Nat
         /\ c.sector + c.n <= SectorCount
    BY <1>1, <2>2
  <2> HIDE DEF L
  <2>9. w.pkt <= c.n /\ w.sector < SectorCount
    BY <2>8, <2>10
  <2>4. w.pkt \in Nat /\ w.left \in Nat /\ w.sector \in Sector
    BY <2>8, <2>9 DEF Sector
  <2>5. \A j \in 0 .. w.pkt - 1 : srv'.disc[c.sector + j] = calls + 1
    <3> SUFFICES ASSUME NEW j \in 0 .. w.pkt - 1
                 PROVE  srv'.disc[c.sector + j] = calls + 1
      OBVIOUS
    <3>1. CASE j = w.pkt - 1
      <4>1. c.sector + j = w.sector
        BY <1>1, <2>2, <2>4, <3>1
      <4>2. QED BY <1>2, <2>1, <2>3, <2>4, <4>1
    <3>2. CASE j # w.pkt - 1
      <4>1. /\ j \in 0 .. (w.pkt - 1) - 1 /\ c.sector + j # w.sector
            /\ c.sector + j \in Sector
        BY <2>8, <2>9, <2>10, <3>2 DEF Sector
      <4>2. QED BY <1>2, <2>1, <2>2, <4>1
    <3>3. QED BY <3>1, <3>2
  <2>6. /\ L - 1 <= c.n /\ w.pkt + 1 >= 1
        /\ w.left - 1 = c.n - (w.pkt + 1) + 1
        /\ w.sector + 1 = c.sector + (w.pkt + 1) - 1
        /\ (w.pkt + 1) - 2 = w.pkt - 1
    BY <2>8, <2>10
  <2>7. QED BY <1>1, <2>1, <2>5, <2>6 DEF L
<1>9. QED BY <1>5, <1>6, <1>7, <1>8, ServeCases

LEMMA ServeClear == ClearInv /\ Serve => ClearInv'
<1> SUFFICES ASSUME ClearInv, Serve PROVE ClearInv'
  OBVIOUS
<1> DEFINE p == Head(toServer)
           w == srv.write
           L == Len(toServer)
<1>1. /\ toServer # <<>> /\ toServer' = Tail(toServer)
      /\ UNCHANGED <<c, rx, ef, buf, calls>>
  BY ServeCases
<1>2. /\ WriteSent' /\ ReadSent' /\ L \in Nat \ {0} /\ Len(toServer') = L - 1
      /\ \A i \in 1 .. Len(toServer') :
           i + 1 \in 1 .. L /\ toServer'[i] = toServer[i + 1]
      /\ 1 \in 1 .. L /\ p = toServer[1] /\ p \in ToServer
      /\ toServer' \in Seq(ToServer)
  BY <1>1, SentTail
<1>3. Answers(p) /\ (p.cmd # "DATA" => srv'.disc = srv.disc)
  BY ServeFacts
<1>4. /\ Writing' = Writing /\ Reading' = Reading /\ First' = First
      /\ Block' = Block /\ Active' = Active /\ Bits' = Bits
  BY <1>1 DEF Writing, Reading, First, Block, Active, Bits
<1>5. Typing' /\ WriteServed'
  BY ServeTyped, ServeWrite
<1>6. WriteProgress' /\ WriteKept'
  BY <1>1, <1>4 DEF ClearInv, WriteInv, WriteProgress, WriteKept, Returned
<1>7. WriteAnswered'
  <2> SUFFICES ASSUME Writing, NEW i \in 1 .. Len(toClient'),
                      toClient'[i].id = rx.id
               PROVE  /\ toClient'[i].cmd = "DONE"
                      /\ toClient'[i].ok => toServer' = <<>> /\ OnDisc(c.n)'
    BY <1>1, <1>4 DEF WriteAnswered
  <2>1. CASE i \in 1 .. Len(toClient) /\ toClient'[i] = toClient[i]
    BY <1>1, <2>1 DEF ClearInv, WriteInv, WriteAnswered
  <2>2. CASE toClient'[i].id = p.id /\ p.id = rx.id
    <3>1. /\ 1 = L - c.n => p = [cmd |-> "WRITE", id |-> rx.id, n |-> c.n,
                                 sector |-> c.sector]
          /\ 1 > L - c.n => p = [cmd |-> "DATA", id |-> rx.id,
                                 pkt |-> c.n - L + 1, data |-> calls + 1]
          /\ ~(1 < L - c.n)
      <4>1. WriteSent
        BY DEF ClearInv, WriteInv
      <4>2. QED BY <1>2, <2>2, <4>1, Zenon DEF WriteSent
    <3>2. c.n \in Nat /\ L \in Nat
      BY <1>2, Numbers DEF ClearInv
    <3>3. p.cmd \in {"WRITE", "DATA"}
      <4>1. 1 = L - c.n \/ 1 > L - c.n
        BY <3>1, <3>2
      <4>2. QED BY <3>1, <4>1
    <3>4. \/ i \in 1 .. Len(toClient) /\ toClient'[i] = toClient[i]
          \/ /\ p.cmd = "DATA" /\ toClient'[i].cmd = "DONE"
             /\ toClient'[i].ok =>
                  /\ w.left = 1 /\ p.id = w.id /\ p.pkt = w.pkt
                  /\ srv'.disc = [srv.disc EXCEPT ![w.sector] = p.data]
      BY <1>3, <3>3 DEF Answers
    <3>5. CASE /\ p.cmd = "DATA" /\ toClient'[i].cmd = "DONE"
               /\ toClient'[i].ok =>
                    /\ w.left = 1 /\ p.id = w.id /\ p.pkt = w.pkt
                    /\ srv'.disc = [srv.disc EXCEPT ![w.sector] = p.data]
      <4> SUFFICES ASSUME toClient'[i].ok PROVE toServer' = <<>> /\ OnDisc(c.n)'
        BY <3>5
      <4>1. /\ w.left = 1 /\ p.id = w.id /\ p.pkt = w.pkt
            /\ srv'.disc = [srv.disc EXCEPT ![w.sector] = p.data]
        BY <3>5
      <4>2. /\ L <= c.n /\ w.pkt >= 1 /\ w.left = c.n - w.pkt + 1
            /\ w.sector = c.sector + w.pkt - 1
            /\ \A j \in 0 .. (w.pkt - 1) - 1 :
                 srv.disc[c.sector + j] = calls + 1
        BY <2>2, <4>1 DEF ClearInv, WriteInv, WriteServed, OnDisc
      <4>3. w.pkt \in Nat /\ srv.disc \in [Sector -> Version]
        BY DEF ClearInv, Typing, TypeOK, Server
      <4>4. c.sector \in Nat /\ c.sector + c.n <= SectorCount
        BY Numbers DEF ClearInv
      <4>5. w.pkt = c.n /\ c.n >= 1 /\ w.sector = c.sector + (c.n - 1)
        <5>1. w.left = 1 /\ w.left = c.n - w.pkt + 1 /\ w.pkt >= 1
              /\ w.sector = c.sector + w.pkt - 1
          BY <4>1, <4>2
        <5> HIDE DEF L, w
        <5>2. QED BY <3>2, <4>3, <4>4, <5>1, SMTT(30)
      <4>6. p.pkt = c.n - L + 1 /\ p.data = calls + 1
        <5>1. 1 > L - c.n
          BY <3>2, <4>2
        <5>2. QED BY <3>1, <5>1
      <4>7. L = 1
        <5>1. c.n = c.n - L + 1
          BY <4>1, <4>5, <4>6
        <5> HIDE DEF L
        <5>2. QED BY <3>2, <5>1
      <4>8. toServer' = <<>>
        BY <1>2, <4>7, EmptyOrNot
      <4>9. \A j \in 0 .. c.n - 1 : srv'.disc[c.sector + j] = calls + 1
        <5> SUFFICES ASSUME NEW j \in 0 .. c.n - 1
                     PROVE  srv'.disc[c.sector + j] = calls + 1
          OBVIOUS
        <5>1. CASE j = c.n - 1
          <6>1. c.sector + j = w.sector /\ w.sector \in Sector
            BY <3>2, <4>4, <4>5, <5>1 DEF Sector
          <6>2. QED BY <4>1, <4>3, <4>6, <6>1
        <5>2. CASE j # c.n - 1
          <6>1. /\ j \in 0 .. (w.pkt - 1) - 1 /\ c.sector + j # w.sector
                /\ c.sector + j \in Sector
            BY <3>2, <4>4, <4>5, <5>2, SMTT(30) DEF Sector
          <6>2. QED BY <4>1, <4>2, <4>3, <6>1
        <5>3. QED BY <5>1, <5>2
      <4>10. QED BY <1>1, <4>8, <4>9 DEF OnDisc
    <3>6. QED BY <2>1, <3>4, <3>5
  <2>3. QED BY <1>3, <2>1, <2>2 DEF Answers
<1>8. ReadAnswered'
  <2> SUFFICES ASSUME Reading, NEW i \in 1 .. Len(toClient'),
                      toClient'[i].id = rx.id
               PROVE  /\ toServer' = <<>> /\ toClient'[i].cmd = "DATA"
                      /\ toClient'[i].pkt \in 1 .. Block
                      /\ toClient'[i].data =
                           srv'.disc[c.sector + First + toClient'[i].pkt - 1]
    BY <1>1, <1>4 DEF ReadAnswered
  <2>1. ~(i \in 1 .. Len(toClient) /\ toClient'[i] = toClient[i])
    BY <1>1 DEF ClearInv, ReadInv, ReadAnswered
  <2>2. p.id = rx.id
    BY <1>3, <2>1 DEF Answers
  <2>3. /\ 1 = L /\ p = [cmd |-> "READ", id |-> rx.id, n |-> Block,
                         sector |-> c.sector + First]
    BY <1>2, <2>2 DEF ClearInv, ReadInv, ReadSent
  <2>4. toServer' = <<>>
    <3>1. Len(toServer') = 0
      <4>1. Len(toServer') = L - 1 /\ 1 = L
        BY <1>2, <2>3
      <4> HIDE DEF L
      <4>2. QED BY <4>1
    <3>2. QED BY <1>2, <3>1, EmptyOrNot
  <2>5. p.cmd = "READ" /\ p.n = Block /\ p.sector = c.sector + First
    BY <2>3
  <2>6. /\ toClient'[i].cmd = "DATA" /\ toClient'[i].pkt \in 1 .. Block
        /\ toClient'[i].data =
             srv.disc[c.sector + First + toClient'[i].pkt - 1]
    BY <1>3, <2>1, <2>5 DEF Answers
  <2>7. QED BY <1>3, <2>4, <2>5, <2>6
<1>9. ReadProgress'
  <2> SUFFICES ASSUME Reading PROVE ReadProgress'
    BY <1>4 DEF ReadProgress
  <2>1. /\ rx.armed /\ rx.pkt \in 1 .. Block + 1 /\ rx.act = First + rx.pkt - 1
        /\ rx.size > 0 => rx.size = Block - rx.pkt + 1
        /\ rx.size <= Block - rx.pkt + 1
        /\ ~(rx.pkt > 1)
        /\ c.clear /\ "done" \in Bits => rx.pkt = Block + 1
    BY <1>1 DEF ClearInv, ReadInv, ReadProgress
  <2>2. \A j \in First .. rx.act - 1 : FALSE
    <3>1. First \in Int /\ rx.pkt \in Nat
      BY Numbers DEF ClearInv, First
    <3>2. ~(rx.pkt > 1) /\ rx.act = First + rx.pkt - 1
      BY <2>1
    <3>3. QED BY <3>1, <3>2
  <2>3. QED BY <1>1, <1>4, <2>1, <2>2 DEF ReadProgress
<1>10. ReadKept'
  <2> SUFFICES ASSUME c.op = "read", c.clear
               PROVE  InBuffer(First)' /\ (First > 0 => NoData')
    BY <1>1, <1>4 DEF ReadKept
  <2>1. InBuffer(First) /\ (First > 0 => NoData)
    BY DEF ClearInv, ReadInv, ReadKept
  <2>2. NoData => NoData'
    BY <1>2 DEF NoData
  <2>3. CASE First > 0
    <3>1. srv'.disc = srv.disc
      BY <1>2, <1>3, <2>1, <2>3 DEF NoData
    <3>2. QED BY <1>1, <1>4, <2>1, <2>2, <3>1 DEF InBuffer
  <2>4. CASE ~(First > 0)
    <3>1. First \in Nat
      BY Numbers DEF First, ClearInv
    <3>2. QED BY <1>4, <2>4, <3>1 DEF InBuffer
  <2>5. QED BY <2>3, <2>4
<1>11. LeftArmed'
  <2> SUFFICES ASSUME ~Active, rx.armed PROVE LeftArmed'
    BY <1>1, <1>4 DEF LeftArmed
  <2>1. /\ \A i \in 1 .. Len(toClient) :
             toClient[i].id = rx.id => toClient[i].cmd # "DATA"
        /\ \A i \in 1 .. L : toServer[i].id = rx.id => toServer[i].cmd # "READ"
    BY DEF ClearInv, ReadInv, LeftArmed
  <2>2. \A i \in 1 .. Len(toServer') :
          toServer'[i].id = rx.id => toServer'[i].cmd # "READ"
    BY <1>2, <2>1
  <2>3. \A i \in 1 .. Len(toClient') :
          toClient'[i].id = rx.id => toClient'[i].cmd # "DATA"
    BY <1>2, <1>3, <2>1 DEF Answers
  <2>4. QED BY <1>1, <2>2, <2>3 DEF LeftArmed
<1>12. QED
  BY <1>2, <1>5, <1>6, <1>7, <1>8, <1>9, <1>10, <1>11
     DEF ClearInv, WriteInv, ReadInv

----------------------------------------------------------------------------

LEMMA ClearStep == ClearInv /\ [Next]_vars => ClearInv'
<1> SUFFICES ASSUME ClearInv, [Next]_vars PROVE ClearInv'
  OBVIOUS
<1>1. CASE Call
  BY <1>1, CallClear
<1>2. CASE Step
  BY <1>2, SendClear, WakeClear, EndReadClear, EndWriteClear DEF Step
<1>3. CASE AlarmFires
  BY <1>3, AlarmClear
<1>4. CASE Receive
  BY <1>4, ReceiveClear
<1>5. CASE Serve
  BY <1>5, ServeClear
<1>6. CASE Lose
  BY <1>6, LoseClear
<1>7. CASE SendFails
  BY <1>7, SendFailsClear
<1>8. CASE UNCHANGED vars
  <2>1. /\ Typing' /\ (WriteInv => WriteInv') /\ (ReadInv => ReadInv')
    BY <1>8 DEF vars, ClearInv, Typing, TypeOK, WriteInv, ReadInv,
         WriteSent, WriteServed, WriteAnswered, WriteProgress, WriteKept,
         ReadSent, ReadAnswered, ReadProgress, ReadKept, LeftArmed, Active,
         Reading, Writing, First, Bits, OnDisc, InBuffer, NoData, Block,
         Returned
  <2>2. QED BY <2>1 DEF ClearInv
<1>9. QED
  BY <1>1, <1>2, <1>3, <1>4, <1>5, <1>6, <1>7, <1>8 DEF Next

(* A call whose commands went out with no bit left in g_ev_done tells the  *)
(* truth: a read that returns the count has the disc's sectors in the      *)
(* buffer, a write has its data on the disc, whatever is lost, late, left  *)
(* over or cut off half-way.                                               *)
THEOREM ClearCallsTrue == Spec => []ClearCallIsDone
<1>1. Init => ClearInv
  BY InitClear
<1>2. ClearInv /\ [Next]_vars => ClearInv'
  BY ClearStep
<1>3. ClearInv => ClearCallIsDone
  <2> SUFFICES ASSUME ClearInv, c.clear PROVE ReadIsRight /\ WriteIsDone
    BY DEF ClearCallIsDone
  <2>1. ReadIsRight
    <3> SUFFICES ASSUME Returned("read")
                 PROVE \A i \in 0 .. c.n - 1 : buf[i] = srv.disc[c.sector + i]
      BY DEF ReadIsRight
    <3>1. c.left = 0 /\ c.op = "read" /\ First = c.n
      BY Numbers DEF ClearInv, Typing, Returned, First
    <3>2. QED BY <3>1 DEF ClearInv, ReadInv, ReadKept, InBuffer
  <2>2. WriteIsDone
    BY DEF ClearInv, WriteInv, WriteKept, WriteIsDone, OnDisc
  <2>3. QED BY <2>1, <2>2
<1>4. QED BY <1>1, <1>2, <1>3, PTL DEF Spec
----------------------------------------------------------------------------
(* One packet lost, or one alarm before its time: a read fails at most     *)
(* twice, once for the fault and once for the bit that it left in          *)
(* g_ev_done.                                                              *)

Faults == lost + early

\* Nothing of the current command is on its way to the client.
Silent == \A i \in 1 .. Len(toClient) : toClient[i].id # rx.id

\* The answer to a read is on its way, whole and in order: it is not asked for
\* yet, or what is missing are the last packets.
ReadAsked ==
    /\ toServer # <<>> /\ toServer[Len(toServer)].id = rx.id
    /\ rx.pkt = 1 /\ rx.size = Block /\ Silent
ReadUnderWay ==
    /\ toServer = <<>> /\ rx.size = Block - rx.pkt + 1
    /\ rx.size <= Len(toClient)
    /\ \A i \in 1 .. Len(toClient) :
         /\ i <= Len(toClient) - rx.size => toClient[i].id # rx.id
         /\ i > Len(toClient) - rx.size =>
              /\ toClient[i].id = rx.id
              /\ toClient[i].pkt = Block - Len(toClient) + i
    /\ rx.size = 0 /\ c.pc = "wait" => "done" \in ef
ReadComing == ReadAsked \/ ReadUnderWay

\* The same for a write: its command, its data or its answer.
WriteComing ==
    \/ c.n < Len(toServer) /\ Silent
    \/ /\ 0 < Len(toServer) /\ Len(toServer) <= c.n
       /\ srv.write.id = rx.id /\ srv.write.left = Len(toServer)
       /\ srv.write.pkt = c.n - Len(toServer) + 1
       /\ Silent
    \/ /\ toServer = <<>> /\ toClient # <<>> /\ "done" \notin Bits
       /\ toClient[Len(toClient)].id = rx.id /\ toClient[Len(toClient)].ok
       /\ \A i \in 1 .. Len(toClient) - 1 : toClient[i].id # rx.id
    \/ toServer = <<>> /\ "done" \in Bits /\ Silent

\* Until something is lost or late no try fails, and a call leaves nothing
\* behind.
Sound ==
    /\ "failed" \notin Bits /\ c.retries = 0 /\ c.clear
    /\ c.pc # "wait" => ef = {}
    /\ \A i \in 1 .. Len(toServer) :
         toServer[i].cmd = "INFO" \/ (Active /\ toServer[i].id = rx.id)
    /\ \A i \in 1 .. Len(toClient) :
         toClient[i].cmd = "INFO_REPLY" \/ (Active /\ toClient[i].id = rx.id)
    /\ Writing => WriteComing

\* No answer to an earlier write is taken for one to the read that is tried.
OfRead ==
    /\ \A i \in 1 .. Len(toClient) :
         toClient[i].id = rx.id => toClient[i].cmd # "DONE"
    /\ \A i \in 1 .. Len(toServer) :
         toServer[i].id = rx.id => toServer[i].cmd = "READ"

\* The tries that failed, and those that are bound to.
Failed(s) == IF "failed" \in s THEN 1 ELSE 0
Tally == c.retries + Failed(c.bits) + Failed(ef)

Tried ==
    /\ Faults = 0 => Sound
    /\ Reading /\ (Faults = 0 \/ c.retries > 0) => ReadComing
    /\ c.op = "read" /\ c.retries > 0 => OfRead
    /\ Tally <= 2
Woken ==
    /\ c.pc \in {"woken", "end"} => c.bits # {}
    /\ c.op # "read" => c.retries = 0
FaultInv == Woken /\ (Faults <= 1 => Tried)

LEMMA Counts ==
    ASSUME Typing
    PROVE  /\ lost \in Nat /\ early \in Nat /\ c.retries \in Nat
           /\ ef \subseteq {"done", "failed"} /\ c.bits \subseteq {"done", "failed"}
           /\ c.pc \in {"idle", "command", "wait"} => c.bits = {}
           /\ c \in Caller /\ rx \in Receiver
BY DEF Typing, TypeOK, Caller

LEMMA FailedOnce == \A s : Failed(s) \in {0, 1} /\ (Failed(s) = 1 <=> "failed" \in s)
BY DEF Failed

\* The first fault happens to a call of which no try failed.
LEMMA FirstFault ==
    ASSUME ClearInv, FaultInv, ClearInv', Woken', Faults = 0, Faults' = 1,
           c'.retries = 0, c'.bits = {} \/ c'.bits = c.bits
    PROVE  FaultInv'
<1>1. "failed" \notin c'.bits
  BY DEF FaultInv, Tried, Sound, Bits
<1>2. Failed(c'.bits) = 0 /\ Failed(ef') \in {0, 1}
  BY <1>1, FailedOnce
<1>3. Tally' <= 2
  BY <1>2 DEF Tally
<1>4. QED BY <1>3 DEF FaultInv, Tried

LEMMA InitTried == Init => FaultInv
<1> SUFFICES ASSUME Init PROVE FaultInv
  OBVIOUS
<1>1. /\ c.pc = "idle" /\ c.op = "none" /\ c.retries = 0 /\ c.bits = {}
      /\ c.clear /\ ef = {} /\ toClient = <<>>
      /\ toServer = <<[cmd |-> "INFO", id |-> 0]>>
  BY DEF Init
<1>2. Tally = 0
  BY <1>1 DEF Tally, Failed
<1>3. Sound
  BY <1>1 DEF Sound, Bits, Active, Writing
<1>4. QED BY <1>1, <1>2, <1>3 DEF FaultInv, Tried, Woken, Reading, Active

LEMMA CallTried == ClearInv /\ FaultInv /\ Call => FaultInv'
<1> SUFFICES ASSUME ClearInv, FaultInv, Call PROVE FaultInv'
  OBVIOUS
<1>1. PICK op \in Ops, s \in 0 .. SectorCount, n \in 1 .. SectorCount :
        LET count == Lesser(n, SectorCount - s)
            ok == connected /\ s < SectorCount
        IN c' = [c EXCEPT !.pc = IF ok THEN "command" ELSE "idle",
                          !.op = op, !.sector = IF ok THEN s ELSE 0,
                          !.n = count, !.left = count, !.retries = 0,
                          !.clear = TRUE,
                          !.res = IF ok THEN "none" ELSE "error"]
  BY DEF Call
<1>2. /\ c'.pc \in {"idle", "command"} /\ c'.retries = 0 /\ c'.bits = c.bits
      /\ c'.clear = TRUE
  BY <1>1 DEF ClearInv, Typing, TypeOK, Caller
<1>3. /\ UNCHANGED <<rx, ef, toServer, toClient, lost, early>>
      /\ c.pc = "idle" /\ ~Active /\ ~Active' /\ c.bits = {}
  BY <1>2, Counts DEF Call, NetKept, Active, ClearInv
<1>4. Faults' = Faults
  BY <1>3 DEF Faults
<1>5. Woken'
  BY <1>2 DEF Woken
<1>6. ASSUME Faults <= 1 PROVE Tried'
  <2>1. Faults = 0 => Sound'
    BY <1>2, <1>3, <1>6 DEF FaultInv, Tried, Sound, Bits, Writing
  <2>2. Tally' <= 2
    <3>1. Failed(c'.bits) = 0 /\ Failed(ef') \in {0, 1}
      BY <1>2, <1>3, FailedOnce
    <3>2. QED BY <1>2, <3>1 DEF Tally
  <2>3. QED BY <1>2, <1>3, <1>4, <2>1, <2>2 DEF Tried, Reading
<1>7. QED BY <1>4, <1>5, <1>6 DEF FaultInv

LEMMA SendTried == ClearInv /\ FaultInv /\ Send => FaultInv'
<1> SUFFICES ASSUME ClearInv, FaultInv, Send PROVE FaultInv'
  OBVIOUS
<1> DEFINE id == NextId(rx.id)
           m == Command(id)
           L == Len(toServer)
<1>1. /\ id \in Id /\ c.pc = "command" /\ c \in Caller /\ c.bits = {}
      /\ c.op \in {"read", "write"} /\ c.n \in Nat /\ L \in Nat /\ Typing
  BY NewId, Numbers, Counts DEF Send, ClearInv
<1>2. /\ Fresh(toServer, id) /\ Fresh(toClient, id) /\ rx' = Armed(id)
      /\ srv' = GivenUp(id) /\ toServer' = toServer \o m /\ toClient' = toClient
      /\ c' = [c EXCEPT !.pc = "wait", !.clear = @ /\ ef = {}]
      /\ UNCHANGED <<ef, lost, early>>
  BY DEF Send, Sent
<1>3. /\ c'.pc = "wait" /\ c'.op = c.op /\ c'.n = c.n /\ c'.left = c.left
      /\ c'.retries = c.retries /\ c'.bits = c.bits
      /\ c'.clear = (c.clear /\ ef = {})
  BY <1>1, <1>2 DEF Caller
<1> HIDE DEF id
<1>4. /\ m \in Seq(ToServer)
      /\ c.op = "read" =>
           /\ Armed(id).pkt = 1 /\ Armed(id).size = Block /\ Len(m) = 1
           /\ m[1].cmd = "READ" /\ m[1].id = id
      /\ c.op = "write" =>
           /\ Len(m) = c.n + 1
           /\ m[1].id = id
           /\ \A i \in 1 .. c.n : m[i + 1].id = id
  <2>1. m \in Seq(ToServer)
    BY <1>1, Sending
  <2>2. ASSUME c.op = "read"
        PROVE  /\ Armed(id).pkt = 1 /\ Armed(id).size = Block /\ Len(m) = 1
               /\ m[1].cmd = "READ" /\ m[1].id = id
    <3>1. /\ Armed(id) = [id |-> id, armed |-> TRUE, size |-> Block,
                          pkt |-> 1, act |-> First]
          /\ Len(m) = 1
          /\ m[1] = [cmd |-> "READ", id |-> id, n |-> Block,
                     sector |-> c.sector + First]
      BY <1>1, <2>2, Sending
    <3>2. QED BY <3>1
  <2>3. ASSUME c.op = "write"
        PROVE  /\ Len(m) = c.n + 1 /\ m[1].id = id
               /\ \A i \in 1 .. c.n : m[i + 1].id = id
    <3>1. /\ Len(m) = c.n + 1
          /\ m[1] = [cmd |-> "WRITE", id |-> id, n |-> c.n,
                     sector |-> c.sector]
          /\ \A i \in 1 .. c.n :
               m[i + 1] = [cmd |-> "DATA", id |-> id, pkt |-> i,
                           data |-> calls + 1]
      BY <1>1, <2>3, Sending
    <3>2. ASSUME NEW i \in 1 .. c.n PROVE m[i + 1].id = id
      <4>1. m[i + 1] = [cmd |-> "DATA", id |-> id, pkt |-> i,
                        data |-> calls + 1]
        BY <3>1
      <4> HIDE DEF m
      <4>2. QED BY <4>1
    <3>3. QED BY <3>1, <3>2
  <2>4. QED BY <2>1, <2>2, <2>3
<1>5. /\ rx'.id = id /\ Len(toServer') = L + Len(m)
      /\ \A i \in 1 .. L : toServer'[i] = toServer[i] /\ toServer'[i].id # rx'.id
      /\ \A i \in 1 .. Len(m) : toServer'[L + i] = m[i]
      /\ \A i \in 1 .. Len(toClient') : toClient'[i].id # rx'.id
  BY <1>1, <1>2, <1>4, SendFacts DEF id
<1> HIDE DEF m
<1>6. \A i \in 1 .. Len(m) : m[i].id = id
  <2>1. CASE c.op = "read"
    <3>1. Len(m) = 1 /\ 1 .. 1 = {1}
      BY <1>4, <2>1
    <3>2. QED BY <1>4, <2>1, <3>1
  <2>2. CASE c.op = "write"
    <3>1. \A i \in 1 .. c.n + 1 : i = 1 \/ (i - 1 \in 1 .. c.n /\ m[(i - 1) + 1] = m[i])
      BY <1>1
    <3>2. QED BY <1>4, <2>2, <3>1
  <2>3. QED BY <1>1, <2>1, <2>2
<1>7. Len(m) \in Nat /\ Len(m) > 0 /\ Len(toServer') \in Nat \ {0}
      /\ (c.op = "write" => c.n < Len(toServer'))
  BY <1>1, <1>4, <1>5
<1>8. \A i \in 1 .. Len(toServer') :
        \/ i \in 1 .. L
        \/ i - L \in 1 .. Len(m) /\ toServer'[i] = m[i - L]
  <2>1. ASSUME NEW i \in 1 .. Len(toServer'), i \notin 1 .. L
        PROVE  i - L \in 1 .. Len(m) /\ toServer'[i] = m[i - L]
    <3>1. i - L \in 1 .. Len(m) /\ L + (i - L) = i
      BY <1>1, <1>5, <1>7, <2>1
    <3>2. QED BY <1>5, <3>1
  <2>2. QED BY <2>1
<1>9. Silent' /\ Active' /\ ~Active /\ Faults' = Faults /\ Block' = Block
  BY <1>1, <1>2, <1>3, <1>5 DEF Silent, Active, Faults, Block
<1>10. Woken'
  BY <1>3 DEF FaultInv, Woken
<1>11. ASSUME Faults <= 1 PROVE Tried'
  <2>1. ASSUME Faults = 0 PROVE Sound'
    <3>1. /\ Sound /\ ef = {}
      BY <1>1, <2>1 DEF FaultInv, Tried, Sound
    <3>2. /\ "failed" \notin Bits' /\ c'.retries = 0 /\ c'.clear
      BY <1>1, <1>2, <1>3, <3>1 DEF Sound, Bits
    <3>3. \A i \in 1 .. Len(toServer') :
            toServer'[i].cmd = "INFO" \/ toServer'[i].id = rx'.id
      BY <1>5, <1>6, <1>8, <1>9, <3>1, SMTT(30) DEF Sound
    <3>4. \A i \in 1 .. Len(toClient') : toClient'[i].cmd = "INFO_REPLY"
      BY <1>2, <1>9, <3>1 DEF Sound
    <3>5. Writing' => WriteComing'
      BY <1>3, <1>7, <1>9 DEF WriteComing, Writing
    <3>6. QED BY <1>3, <1>9, <3>2, <3>3, <3>4, <3>5 DEF Sound
  <2>2. Reading' => ReadComing'
    <3> SUFFICES ASSUME c.op = "read" PROVE ReadAsked'
      BY <1>3 DEF Reading, ReadComing
    <3>1. toServer' # <<>> /\ toServer'[Len(toServer')].id = rx'.id
      <4>1. 1 \in 1 .. Len(m) /\ L + 1 = Len(toServer')
        <5>1. Len(m) = 1
          BY <1>4
        <5>2. QED BY <1>1, <1>5, <5>1
      <4>2. toServer'[L + 1] = m[1]
        BY <1>5, <4>1
      <4>3. QED BY <1>4, <1>5, <1>7, <4>1, <4>2
    <3>2. QED BY <1>2, <1>4, <1>9, <3>1 DEF ReadAsked
  <2>3. c'.op = "read" => OfRead'
    <3> SUFFICES ASSUME c.op = "read" PROVE OfRead'
      BY <1>3
    <3>1. \A i \in 1 .. Len(m) : m[i].cmd = "READ"
      <4>1. Len(m) = 1 /\ 1 .. 1 = {1}
        BY <1>4
      <4>2. QED BY <1>4, <4>1
    <3>2. QED BY <1>5, <1>8, <1>9, <3>1 DEF OfRead, Silent
  <2>4. Tally' <= 2
    BY <1>2, <1>3, <1>11 DEF FaultInv, Tried, Tally
  <2>5. QED BY <1>9, <2>1, <2>2, <2>3, <2>4 DEF Tried
<1>12. QED BY <1>9, <1>10, <1>11 DEF FaultInv

LEMMA WakeTried == ClearInv /\ FaultInv /\ (Wake \/ CancelAlarm) => FaultInv'
<1> SUFFICES ASSUME ClearInv, FaultInv, Wake \/ CancelAlarm PROVE FaultInv'
  OBVIOUS
<1>1. /\ c \in Caller /\ (c.pc = "wait" => c.bits = {}) /\ c.retries \in Nat
  BY Counts DEF ClearInv
<1>2. /\ c'.op = c.op /\ c'.n = c.n /\ c'.left = c.left
      /\ c'.retries = c.retries /\ c'.clear = c.clear
      /\ c.pc \in {"wait", "woken"} /\ c'.pc \in {"woken", "end"}
  BY <1>1, ZenonT(60) DEF Wake, CancelAlarm, Caller
<1>3. UNCHANGED <<rx, toServer, toClient, srv, lost, early>>
  BY DEF Wake, CancelAlarm, NetKept
<1>4. /\ Bits' = Bits /\ Tally' = Tally
      /\ ef' = {} \/ (ef' = ef /\ c.pc = "woken")
      /\ c.pc = "woken" \/ (ef # {} /\ c'.bits = ef)
      /\ c.pc = "woken" => c'.bits = c.bits
  <2>1. CASE Wake
    <3>1. c'.bits = ef /\ ef' = {} /\ c.bits = {} /\ ef # {} /\ c.pc = "wait"
      BY <1>1, <2>1 DEF Wake, Cleared, Caller
    <3>2. Failed({}) = 0 /\ Failed(ef) \in Nat
      BY FailedOnce DEF Failed
    <3>3. Tally' = Tally
      BY <1>1, <1>2, <3>1, <3>2 DEF Tally
    <3>4. QED BY <3>1, <3>3 DEF Bits
  <2>2. CASE CancelAlarm
    <3>1. c'.bits = c.bits /\ ef' = ef /\ c.pc = "woken"
      BY <1>1, <2>2 DEF CancelAlarm, Caller
    <3>2. Bits' = Bits /\ Tally' = Tally
      BY <1>2, <3>1, Zenon DEF Bits, Tally
    <3>3. QED BY <3>1, <3>2
  <2>3. QED BY <2>1, <2>2
<1>5. /\ Active /\ Active' /\ Reading' = Reading /\ Writing' = Writing
      /\ Block' = Block /\ Faults' = Faults /\ (Silent => Silent')
  BY <1>2, <1>3 DEF Active, Reading, Writing, Block, Faults, Silent
<1>6. Woken'
  BY <1>2, <1>4 DEF FaultInv, Woken
<1>7. ASSUME Faults <= 1 PROVE Tried'
  <2>1. ASSUME Faults = 0 PROVE Sound'
    <3>1. Sound
      BY <2>1 DEF FaultInv, Tried
    <3>2. WriteComing => WriteComing'
      BY <1>2, <1>3, <1>4, <1>5 DEF WriteComing
    <3>3. c'.pc # "wait" => ef' = {}
      BY <1>4, <3>1 DEF Sound
    <3>4. QED BY <1>2, <1>3, <1>4, <1>5, <3>1, <3>2, <3>3 DEF Sound
  <2>2. ReadComing => ReadComing'
    BY <1>2, <1>3, <1>5 DEF ReadComing, ReadAsked, ReadUnderWay
  <2>3. OfRead => OfRead'
    BY <1>3 DEF OfRead
  <2>4. QED BY <1>2, <1>4, <1>5, <1>7, <2>1, <2>2, <2>3 DEF FaultInv, Tried
<1>8. QED BY <1>5, <1>6, <1>7 DEF FaultInv

LEMMA EndTried == ClearInv /\ FaultInv /\ (EndRead \/ EndWrite) => FaultInv'
<1> SUFFICES ASSUME ClearInv, FaultInv, EndRead \/ EndWrite PROVE FaultInv'
  OBVIOUS
<1>1. /\ Typing /\ c \in Caller /\ c.pc = "end" /\ c.bits # {}
      /\ c.bits \subseteq {"done", "failed"} /\ c.retries \in Nat /\ Active
  BY Counts DEF ClearInv, EndRead, EndWrite, FaultInv, Woken, Active
<1>2. /\ UNCHANGED <<ef, toServer, toClient, srv, lost, early>>
      /\ Faults' = Faults
  BY DEF EndRead, EndWrite, NetKept, Faults
<1>3. rx'.id = rx.id
  <2>1. rx \in Receiver /\ (rx' = rx \/ rx' = Disarmed)
    BY <1>1, Counts DEF EndRead, EndWrite
  <2>2. QED BY <2>1 DEF Disarmed, Receiver
<1>4. /\ c'.pc \in {"idle", "command"} /\ c'.bits = {} /\ c'.op = c.op
      /\ c'.clear = c.clear
      /\ c'.retries = IF Done \/ c.op # "read" THEN 0 ELSE c.retries + 1
  <2>1. CASE EndRead
    <3>1. /\ c.left > 0 /\ c.retries < MaxRetries /\ c.op = "read"
          /\ ReadTried(Done) /\ Done \in BOOLEAN
      BY <1>1, <2>1 DEF EndRead, Typing, Done
    <3>2. /\ c'.pc \in {"idle", "command"} /\ c'.bits = {} /\ c'.op = c.op
          /\ c'.clear = c.clear
      BY <1>1, <3>1, TriedTyped
    <3>3. c'.retries = IF Done THEN 0 ELSE c.retries + 1
      BY <1>1, <3>1 DEF ReadTried, Caller
    <3>4. QED BY <3>1, <3>2, <3>3
  <2>2. CASE EndWrite
    <3>1. /\ c' = [c EXCEPT !.pc = "idle", !.bits = {},
                            !.res = IF Done THEN "ok" ELSE "error"]
          /\ c.op = "write" /\ c.retries = 0
      BY <2>2 DEF EndWrite, Written, FaultInv, Woken
    <3>2. QED BY <1>1, <3>1 DEF Caller
  <2>3. QED BY <2>1, <2>2
<1>5. ~Active' /\ ~Reading' /\ ~Writing' /\ Woken'
  BY <1>4 DEF Active, Reading, Writing, Woken
<1>6. ASSUME Faults <= 1 PROVE Tried'
  <2>1. ASSUME Faults = 0 PROVE Sound'
    <3>1. Sound /\ c.bits = {"done"} /\ ef = {} /\ Done /\ c.clear
      BY <1>1, <2>1 DEF FaultInv, Tried, Sound, Bits, Done
    <3>2. toServer = <<>> /\ Silent
      <4>1. CASE c.op = "read"
        <5>1. Reading /\ ReadComing
          BY <1>1, <2>1, <4>1, <1>6 DEF Reading, FaultInv, Tried
        <5>2. /\ rx.pkt = Block + 1 /\ Block \in 1 .. c.left /\ c.left \in Nat
              /\ Len(toClient) \in Nat
          BY <1>1, <3>1, <5>1, Numbers DEF ClearInv, ReadInv, ReadProgress, Bits
        <5>3. ReadUnderWay /\ rx.size = 0
          BY <5>1, <5>2 DEF ReadComing, ReadAsked, ReadUnderWay
        <5>4. \A i \in 1 .. Len(toClient) : i <= Len(toClient) - rx.size
          BY <5>2, <5>3
        <5>5. QED BY <5>3, <5>4 DEF ReadUnderWay, Silent
      <4>2. CASE c.op = "write"
        <5>1. Writing /\ WriteComing /\ toServer = <<>>
          BY <1>1, <3>1, <4>2
             DEF Writing, Sound, ClearInv, WriteInv, WriteProgress, Bits
        <5>2. ~(0 < Len(toServer)) /\ c.n \in Nat
          BY <1>1, <5>1, Numbers
        <5>3. ~(c.n < Len(toServer))
          BY <1>1, <5>2, Numbers
        <5>4. QED BY <3>1, <5>1, <5>2, <5>3 DEF WriteComing, Bits
      <4>3. QED BY <1>1, <4>1, <4>2, Numbers
    <3>3. Len(toServer) = 0
      BY <1>1, <3>2, Numbers
    <3>4. /\ \A i \in 1 .. Len(toServer') : toServer'[i].cmd = "INFO"
          /\ \A i \in 1 .. Len(toClient') : toClient'[i].cmd = "INFO_REPLY"
      BY <1>2, <3>1, <3>2, <3>3 DEF Sound, Silent
    <3>5. QED BY <1>2, <1>4, <1>5, <3>1, <3>4 DEF Sound, Bits
  <2>2. c'.op = "read" => OfRead'
    <3>1. c.op = "read" => ReadSent /\ ReadAnswered /\ Reading
      BY <1>1, <1>4 DEF ClearInv, ReadInv, Reading
    <3>2. QED BY <1>2, <1>3, <1>4, <3>1 DEF OfRead, ReadSent, ReadAnswered
  <2>3. Tally' <= 2
    <3>1. Failed(c'.bits) = 0 /\ Failed(ef) \in {0, 1} /\ Failed(c.bits) \in {0, 1}
      BY <1>4, FailedOnce
    <3>2. ~Done => Failed(c.bits) = 1
      BY <1>1, FailedOnce DEF Done
    <3>3. Tally <= 2
      BY <1>6 DEF FaultInv, Tried
    <3>4. QED BY <1>1, <1>2, <1>4, <3>1, <3>2, <3>3 DEF Tally
  <2>4. QED BY <1>2, <1>5, <2>1, <2>2, <2>3 DEF Tried
<1>7. QED BY <1>2, <1>5, <1>6 DEF FaultInv

LEMMA SendFailsTried == ClearInv /\ FaultInv /\ SendFails => FaultInv'
<1> SUFFICES ASSUME ClearInv, FaultInv, SendFails PROVE FaultInv'
  OBVIOUS
<1> DEFINE id == NextId(rx.id)
           m == Command(id)
<1>1. /\ Typing /\ id \in Id /\ c.pc = "command" /\ c \in Caller
      /\ lost \in Nat /\ early \in Nat /\ lost' = lost + 1 /\ early' = early
      /\ c.op \in {"read", "write"} /\ c.bits = {} /\ UNCHANGED <<ef, toClient>>
      /\ rx' = Armed(id) /\ Fresh(toServer, id) /\ Fresh(toClient, id)
      /\ toServer \in Seq(ToServer)
  BY NewId, Counts, Numbers DEF SendFails, ClearInv
<1>2. Faults' = Faults + 1 /\ Faults \in Nat
  BY <1>1 DEF Faults
<1>3. PICK k \in 0 .. Len(m) - 1 : toServer' = toServer \o SubSeq(m, 1, k)
  BY DEF SendFails
<1>4. CASE c.op = "read"
  <2>1. ReadTried(FALSE) /\ c.left > 0 /\ c.retries < MaxRetries
    BY <1>1, <1>4 DEF SendFails, Typing
  <2>2. /\ c'.bits = {} /\ c'.op = "read" /\ c'.pc \in {"idle", "command"}
    <3>1. FALSE \in BOOLEAN
      OBVIOUS
    <3> DEFINE no == FALSE
    <3>2. ReadTried(no) /\ no \in BOOLEAN
      BY <2>1, <3>1
    <3> HIDE DEF no
    <3>3. QED BY <1>1, <1>4, <2>1, <3>2, TriedTyped
  <2>3. c'.retries = c.retries + 1
    BY <1>1, <2>1 DEF ReadTried, Caller
  <2>4. toServer' = toServer
    <3>1. m \in Seq(ToServer) /\ Len(m) = 1
      BY <1>1, <1>4, Sending
    <3> HIDE DEF m
    <3>2. k = 0
      BY <1>3, <3>1
    <3>3. SubSeq(m, 1, 0) = <<>>
      BY <3>1
    <3>4. QED BY <1>1, <1>3, <3>2, <3>3
  <2>5. rx'.id = id
    BY <1>1, Sending
  <2>6. OfRead'
    BY <1>1, <2>4, <2>5 DEF OfRead, Fresh
  <2>7. ~Active' /\ ~Reading' /\ Woken'
    BY <2>2 DEF Active, Reading, Woken
  <2>8. ASSUME Faults' <= 1 PROVE Tried'
    <3>1. Faults = 0 /\ Sound
      BY <1>2, <2>8 DEF FaultInv, Tried
    <3>2. Failed(c'.bits) = 0 /\ Failed(ef') = 0
      BY <1>1, <2>2, <3>1 DEF Failed, Sound, Bits
    <3>3. Tally' = 1
      BY <2>3, <3>1, <3>2 DEF Tally, Sound
    <3>4. QED BY <1>2, <2>6, <2>7, <3>1, <3>3 DEF Tried
  <2>9. QED BY <2>7, <2>8 DEF FaultInv
<1>5. CASE c.op = "write"
  <2>1. c' = [c EXCEPT !.pc = "idle", !.bits = {}, !.res = "error"]
    BY <1>5 DEF SendFails, Written
  <2>2. /\ c'.bits = {} /\ c'.pc = "idle" /\ c'.retries = c.retries
        /\ c'.op = "write" /\ c.retries = 0
    BY <1>1, <1>5, <2>1 DEF Caller, FaultInv, Woken
  <2>3. Woken' /\ ~Reading'
    BY <2>2 DEF Woken, Reading
  <2>4. Failed(c'.bits) = 0 /\ Failed(ef') \in {0, 1}
    BY <2>2, FailedOnce
  <2>5. Tally' <= 2
    BY <2>2, <2>4 DEF Tally
  <2>6. QED BY <1>2, <2>2, <2>3, <2>5 DEF FaultInv, Tried
<1>6. QED BY <1>1, <1>4, <1>5

LEMMA AlarmTried == ClearInv /\ FaultInv /\ AlarmFires => FaultInv'
<1> SUFFICES ASSUME ClearInv, FaultInv, AlarmFires PROVE FaultInv'
  OBVIOUS
<1>1. /\ Typing /\ c.retries \in Nat /\ lost \in Nat /\ early \in Nat
      /\ c' = c /\ lost' = lost /\ ef' = ef \cup {"failed"} /\ rx \in Receiver
      /\ toServer' = toServer /\ toClient' = toClient
      /\ rx' = [rx EXCEPT !.size = 0]
  BY Counts DEF AlarmFires, ClearInv
<1>2. Woken'
  BY <1>1 DEF FaultInv, Woken
<1>3. CASE early' = early + 1
  <2>1. Faults' = Faults + 1 /\ Faults \in Nat
    BY <1>1, <1>3 DEF Faults
  <2>2. CASE Faults = 0
    <3>1. c.retries = 0
      BY <2>2 DEF FaultInv, Tried, Sound
    <3>2. QED BY <1>1, <1>2, <2>1, <2>2, <3>1, AlarmClear, FirstFault
  <2>3. CASE Faults # 0
    BY <1>2, <2>1, <2>3 DEF FaultInv
  <2>4. QED BY <2>2, <2>3
<1>4. CASE /\ toServer = <<>> /\ toClient = <<>> /\ ef = {} /\ c.pc = "wait"
           /\ UNCHANGED early
  <2>1. Faults' = Faults /\ c.bits = {} /\ Len(toClient) = 0
    BY <1>1, <1>4, Counts, Numbers DEF Faults
  <2>2. ASSUME Faults <= 1 PROVE Faults # 0 /\ (c.op = "read" => c.retries = 0)
    <3>1. Tried
      BY <2>2 DEF FaultInv
    <3>2. ~ReadComing \/ ~Reading
      <4> SUFFICES ASSUME Reading, ReadUnderWay PROVE FALSE
        BY <1>4 DEF ReadComing, ReadAsked
      <4>1. rx.pkt \in 1 .. Block + 1 /\ Block \in Nat
        <5>1. Block \in 1 .. c.left /\ c.left \in 0 .. c.n
          BY <1>1, Numbers DEF Reading, Active
        <5>2. ReadProgress
          BY DEF ClearInv, ReadInv
        <5>3. QED BY <5>1, <5>2 DEF ReadProgress
      <4>2. rx.size = Block - rx.pkt + 1 /\ rx.size <= 0
        BY <2>1 DEF ReadUnderWay
      <4>3. rx.size = 0
        BY <4>1, <4>2
      <4>4. QED BY <1>4, <4>3 DEF ReadUnderWay
    <3>3. Writing => ~WriteComing
      <4>1. Len(toServer) = 0 /\ c.n \in Nat
        BY <1>1, <1>4, Numbers
      <4>2. ~(c.n < Len(toServer)) /\ ~(0 < Len(toServer))
        BY <4>1
      <4>3. QED BY <1>4, <2>1, <4>2 DEF WriteComing, Bits
    <3>4. Reading \/ Writing
      BY <1>1, <1>4, Numbers DEF Reading, Writing, Active
    <3>5. Faults # 0
      BY <3>1, <3>2, <3>3, <3>4 DEF Tried, Sound
    <3>6. c.op = "read" => c.retries = 0
      BY <1>1, <1>4, <3>1, <3>2 DEF Tried, Reading, Active
    <3>7. QED BY <3>5, <3>6
  <2>3. ASSUME Faults <= 1 PROVE Tried'
    <3>1. Faults # 0 /\ c.retries = 0
      BY <2>2, <2>3 DEF FaultInv, Woken
    <3>2. Failed(c.bits) = 0 /\ Failed(ef') \in {0, 1}
      BY <2>1, FailedOnce
    <3>3. Tally' <= 2
      BY <1>1, <3>1, <3>2 DEF Tally
    <3>4. QED BY <1>1, <2>1, <3>1, <3>3 DEF Tried
  <2>4. QED BY <1>2, <2>1, <2>3 DEF FaultInv
<1>5. QED BY <1>3, <1>4 DEF AlarmFires

LEMMA LoseTried == ClearInv /\ FaultInv /\ Lose => FaultInv'
<1> SUFFICES ASSUME ClearInv, FaultInv, Lose PROVE FaultInv'
  OBVIOUS
<1>1. /\ lost \in Nat /\ early \in Nat /\ lost' = lost + 1
      /\ UNCHANGED <<c, rx, ef, early>>
  BY Counts DEF Lose, ClearInv
<1>2. Faults' = Faults + 1 /\ Faults \in Nat /\ Woken'
  BY <1>1 DEF Faults, FaultInv, Woken
<1>3. CASE Faults = 0
  <2>1. c.retries = 0
    BY <1>3 DEF FaultInv, Tried, Sound
  <2>2. QED BY <1>1, <1>2, <1>3, <2>1, LoseClear, FirstFault
<1>4. CASE Faults # 0
  BY <1>2, <1>4 DEF FaultInv
<1>5. QED BY <1>3, <1>4
\* What the receive handler does with a packet, by number and kind.
LEMMA Received ==
    ASSUME ClearInv, Receive
    PROVE  LET p == Head(toClient)
           IN /\ rx'.id = rx.id
              /\ p.id # rx.id \/ p.cmd = "INFO_REPLY" => UNCHANGED <<rx, ef>>
              /\ p.id = rx.id /\ p.cmd = "DONE" =>
                   ef' = ef \cup {IF p.ok THEN "done" ELSE "failed"}
              /\ p.id = rx.id /\ p.cmd = "DATA" /\ ~rx.armed => UNCHANGED <<rx, ef>>
              /\ p.id = rx.id /\ p.cmd = "DATA" /\ rx.armed /\ InOrder(p) =>
                   /\ rx'.pkt = rx.pkt + 1 /\ rx'.size = rx.size - 1
                   /\ ef' = IF rx.size = 1 THEN ef \cup {"done"} ELSE ef
<1> DEFINE p == Head(toClient)
<1>1. p \in ToClient /\ rx \in Receiver
  BY TailOf, Numbers, Counts DEF Receive, ClearInv
<1>2. p.cmd \in {"INFO_REPLY", "DATA", "DONE"}
  BY <1>1, Packets
<1>3. CASE ~Current(p)
  BY <1>3 DEF Receive, Current
<1>4. CASE Current(p) /\ p.cmd = "INFO_REPLY"
  BY <1>4 DEF Receive, Current
<1>5. CASE Current(p) /\ p.cmd = "DONE"
  BY <1>5 DEF Receive, Current
<1>6. CASE Current(p) /\ p.cmd = "DATA"
  <2>1. ReceiveData(p) /\ p.id = rx.id
    BY <1>6 DEF Receive, Current
  <2>2. CASE ~rx.armed
    BY <1>6, <2>1, <2>2 DEF ReceiveData
  <2>3. CASE rx.armed /\ ~InOrder(p)
    <3>1. rx' = [rx EXCEPT !.size = 0]
      BY <2>1, <2>3 DEF ReceiveData
    <3>2. rx'.id = rx.id
      BY <1>1, <3>1 DEF Receiver
    <3>3. QED BY <1>6, <2>1, <2>3, <3>2
  <2>4. CASE rx.armed /\ InOrder(p)
    <3>1. /\ rx' = [rx EXCEPT !.pkt = @ + 1, !.act = @ + 1, !.size = @ - 1]
          /\ ef' = IF rx.size = 1 THEN ef \cup {"done"} ELSE ef
      BY <2>1, <2>4 DEF ReceiveData
    <3>2. rx'.id = rx.id /\ rx'.pkt = rx.pkt + 1 /\ rx'.size = rx.size - 1
      BY <1>1, <3>1 DEF Receiver
    <3>3. p.cmd = "DATA" /\ p.id = rx.id /\ rx.armed /\ InOrder(p)
      BY <1>6, <2>1, <2>4
    <3> HIDE DEF p
    <3>4. QED BY <3>1, <3>2, <3>3 DEF p
  <2>5. QED BY <2>2, <2>3, <2>4
<1>7. QED BY <1>2, <1>3, <1>4, <1>5, <1>6

\* The next packet of an answer that is whole and in order is the one awaited.
LEMMA ReadReceived ==
    ASSUME ClearInv, Receive, Reading, ReadComing
    PROVE  ReadComing' /\ ("failed" \in ef' => "failed" \in ef)
<1> DEFINE p == Head(toClient)
           L == Len(toClient)
<1>1. /\ Typing /\ L \in Nat \ {0} /\ L' = L - 1 /\ p = toClient[1]
      /\ \A i \in 1 .. L' : i + 1 \in 1 .. L /\ toClient'[i] = toClient[i + 1]
      /\ UNCHANGED <<c, toServer>> /\ 1 \in 1 .. L
  <2>1. toClient # <<>> /\ toClient' = Tail(toClient) /\ toClient \in Seq(ToClient)
        /\ UNCHANGED <<c, toServer>>
    BY Numbers DEF Receive, ClearInv
  <2>2. /\ L \in Nat \ {0} /\ L' = L - 1 /\ p = toClient[1]
        /\ \A i \in 1 .. L' : toClient'[i] = toClient[i + 1]
    BY <2>1, TailOf
  <2>3. QED BY <2>1, <2>2 DEF ClearInv
<1> HIDE DEF L
<1>2. Block' = Block /\ Block \in Nat /\ rx'.id = rx.id
      /\ rx.pkt \in Nat /\ rx.size \in Int /\ rx.armed
  BY <1>1, Numbers, Received
     DEF Block, Reading, Active, ClearInv, ReadInv, ReadProgress
<1>3. CASE ReadAsked
  <2>1. UNCHANGED <<rx, ef>>
    BY <1>1, <1>3, Received DEF ReadAsked, Silent, L
  <2>2. Silent'
    BY <1>1, <1>3, <2>1 DEF ReadAsked, Silent, L
  <2>3. QED BY <1>1, <1>2, <1>3, <2>1, <2>2 DEF ReadAsked, ReadComing
<1>4. CASE ReadUnderWay
  <2>1. /\ toServer = <<>> /\ rx.size = Block - rx.pkt + 1 /\ rx.size <= L
        /\ \A i \in 1 .. L :
             /\ i <= L - rx.size => toClient[i].id # rx.id
             /\ i > L - rx.size =>
                  toClient[i].id = rx.id /\ toClient[i].pkt = Block - L + i
        /\ rx.size = 0 /\ c.pc = "wait" => "done" \in ef
    BY <1>4 DEF ReadUnderWay, L
  <2>2. CASE rx.size < L
    <3>1. p.id # rx.id
      BY <1>1, <1>2, <2>1, <2>2
    <3>2. UNCHANGED <<rx, ef>>
      BY <3>1, Received
    <3>3. \A i \in 1 .. L' :
             /\ i <= L' - rx.size => toClient'[i].id # rx.id
             /\ i > L' - rx.size =>
                  toClient'[i].id = rx.id /\ toClient'[i].pkt = Block - L' + i
      <4> SUFFICES ASSUME NEW i \in 1 .. L'
                   PROVE /\ i <= L' - rx.size => toClient'[i].id # rx.id
                         /\ i > L' - rx.size =>
                              toClient'[i].id = rx.id /\ toClient'[i].pkt = Block - L' + i
        OBVIOUS
      <4>1. i + 1 \in 1 .. L /\ toClient'[i] = toClient[i + 1]
        BY <1>1
      <4>2. /\ i <= L' - rx.size => i + 1 <= L - rx.size
            /\ i > L' - rx.size => i + 1 > L - rx.size
            /\ Block - L + (i + 1) = Block - L' + i
        BY <1>1, <1>2
      <4>3. QED BY <2>1, <4>1, <4>2
    <3>4. rx.size <= L'
      BY <1>1, <1>2, <2>2
    <3>5. ReadUnderWay'
      BY <1>1, <1>2, <2>1, <3>2, <3>3, <3>4 DEF ReadUnderWay, L
    <3>6. QED BY <3>2, <3>5 DEF ReadComing
  <2>3. CASE rx.size = L
    <3>1. p.id = rx.id /\ p.pkt = Block - L + 1
      <4>1. 1 > L - rx.size /\ 1 \in 1 .. L
        BY <1>1, <1>2, <2>3
      <4>2. QED BY <1>1, <2>1, <4>1
    <3>2. p.cmd = "DATA"
      BY <1>1, <3>1 DEF ClearInv, ReadInv, ReadAnswered, L
    <3>3. InOrder(p)
      BY <1>1, <1>2, <2>1, <2>3, <3>1 DEF InOrder
    <3>4. /\ rx'.pkt = rx.pkt + 1 /\ rx'.size = rx.size - 1
          /\ ef' = IF rx.size = 1 THEN ef \cup {"done"} ELSE ef
      BY <1>2, <3>1, <3>2, <3>3, Received
    <3>5. \A i \in 1 .. L' : toClient'[i].id = rx.id /\ toClient'[i].pkt = Block - L' + i
      <4> SUFFICES ASSUME NEW i \in 1 .. L'
                   PROVE toClient'[i].id = rx.id /\ toClient'[i].pkt = Block - L' + i
        OBVIOUS
      <4>1. i + 1 \in 1 .. L /\ toClient'[i] = toClient[i + 1]
        BY <1>1
      <4>2. i + 1 > L - rx.size /\ Block - L + (i + 1) = Block - L' + i
        BY <1>1, <1>2, <2>3
      <4>3. QED BY <2>1, <4>1, <4>2
    <3>6. /\ rx'.size = Block - rx'.pkt + 1 /\ rx'.size = L'
          /\ \A i \in 1 .. L' : i > L' - rx'.size
      <4>1. /\ rx.size = Block - rx.pkt + 1 /\ rx.size = L /\ L \in Nat
            /\ rx.pkt \in Nat /\ Block \in Nat /\ L' = L - 1
        BY <1>1, <1>2, <2>1, <2>3
      <4>2. rx'.size = Block - rx'.pkt + 1 /\ rx'.size = L' /\ L' \in Int
        BY <3>4, <4>1
      <4>3. \A k \in Int : k - k = 0 /\ \A i \in 1 .. k : i > 0
        OBVIOUS
      <4>4. QED BY <4>2, <4>3
    <3>7. rx'.size = 0 => "done" \in ef'
      BY <1>2, <3>4
    <3>8. ReadUnderWay'
      <4>1. \A i \in 1 .. L' : ~(i <= L' - rx'.size)
        BY <1>1, <3>6
      <4>2. rx'.size <= L'
        BY <1>1, <3>6
      <4>3. QED BY <1>1, <1>2, <2>1, <3>5, <3>6, <3>7, <4>1, <4>2 DEF ReadUnderWay, L
    <3>9. QED BY <3>4, <3>8 DEF ReadComing
  <2>4. QED BY <1>1, <1>2, <2>1, <2>2, <2>3
<1>5. QED BY <1>3, <1>4 DEF ReadComing

LEMMA WriteReceived ==
    ASSUME ClearInv, Receive, Writing, WriteComing, c.clear
    PROVE  WriteComing' /\ ("failed" \in ef' => "failed" \in ef)
<1> DEFINE p == Head(toClient)
           L == Len(toClient)
<1>1. /\ Typing /\ L \in Nat \ {0} /\ L' = L - 1 /\ p = toClient[1]
      /\ \A i \in 1 .. L' : i + 1 \in 1 .. L /\ toClient'[i] = toClient[i + 1]
      /\ UNCHANGED <<c, toServer, srv>> /\ 1 \in 1 .. L
  <2>1. toClient # <<>> /\ toClient' = Tail(toClient) /\ toClient \in Seq(ToClient)
        /\ UNCHANGED <<c, toServer, srv>>
    BY Numbers DEF Receive, ClearInv
  <2>2. /\ L \in Nat \ {0} /\ L' = L - 1 /\ p = toClient[1]
        /\ \A i \in 1 .. L' : toClient'[i] = toClient[i + 1]
    BY <2>1, TailOf
  <2>3. QED BY <2>1, <2>2 DEF ClearInv
<1>2. CASE Silent
  <2>1. UNCHANGED <<rx, ef>>
    BY <1>1, <1>2, Received DEF Silent
  <2>2. Silent'
    BY <1>1, <1>2, <2>1 DEF Silent
  <2>3. "done" \in Bits' <=> "done" \in Bits
    BY <1>1, <2>1 DEF Bits
  <2>4. ~(toClient[L].id = rx.id)
    BY <1>1, <1>2 DEF Silent
  <2>5. QED BY <1>1, <2>1, <2>2, <2>3, <2>4 DEF WriteComing
<1>3. CASE /\ toServer = <<>> /\ toClient # <<>> /\ "done" \notin Bits
           /\ toClient[L].id = rx.id /\ toClient[L].ok
           /\ \A i \in 1 .. L - 1 : toClient[i].id # rx.id
  <2>1. CASE L = 1
    <3>1. p.id = rx.id /\ p.ok /\ p.cmd = "DONE"
      BY <1>1, <1>3, <2>1 DEF ClearInv, WriteInv, WriteAnswered
    <3>2. ef' = ef \cup {"done"} /\ rx'.id = rx.id
      BY <3>1, Received
    <3>3. Silent'
      BY <1>1, <2>1 DEF Silent
    <3>4. QED BY <1>1, <1>3, <3>2, <3>3 DEF WriteComing, Bits
  <2>2. CASE L > 1
    <3>1. 1 \in 1 .. L - 1 /\ L' \in 1 .. L' /\ L' + 1 = L
      BY <1>1, <2>2
    <3>2. p.id # rx.id
      BY <1>1, <1>3, <3>1
    <3>3. UNCHANGED <<rx, ef>>
      BY <3>2, Received
    <3>4. toClient'[L'] = toClient[L] /\ toClient' # <<>>
      <4>1. toClient'[L'] = toClient[L]
        BY <1>1, <3>1
      <4>2. Len(toClient') # 0
        BY <1>1, <3>1
      <4>3. QED BY <4>1, <4>2
    <3>5. \A i \in 1 .. L' - 1 : toClient'[i].id # rx.id
      <4> SUFFICES ASSUME NEW i \in 1 .. L' - 1 PROVE toClient'[i].id # rx.id
        OBVIOUS
      <4>1. i \in 1 .. L' /\ i + 1 \in 1 .. L - 1
        BY <1>1
      <4>2. toClient'[i] = toClient[i + 1]
        BY <1>1, <4>1
      <4>3. QED BY <1>3, <4>1, <4>2
    <3>6. "done" \notin Bits'
      BY <1>1, <1>3, <3>3 DEF Bits
    <3>7. QED BY <1>1, <1>3, <3>3, <3>4, <3>5, <3>6 DEF WriteComing
  <2>3. QED BY <1>1, <2>1, <2>2
<1>4. QED BY <1>2, <1>3 DEF WriteComing

LEMMA ReceiveTried == ClearInv /\ FaultInv /\ Receive => FaultInv'
<1> SUFFICES ASSUME ClearInv, FaultInv, Receive PROVE FaultInv'
  OBVIOUS
<1> DEFINE p == Head(toClient)
<1>1. /\ Typing /\ UNCHANGED <<c, toServer, srv, lost, early>>
      /\ rx'.id = rx.id /\ p = toClient[1] /\ 1 \in 1 .. Len(toClient)
      /\ \A i \in 1 .. Len(toClient') :
           i + 1 \in 1 .. Len(toClient) /\ toClient'[i] = toClient[i + 1]
      /\ c.retries \in Nat /\ p \in ToClient
      /\ c.pc \in {"idle", "command", "wait", "woken", "end"}
  BY AnswersTail, Received, Numbers, Counts DEF Receive, ClearInv
<1>2. /\ Faults' = Faults /\ Reading' = Reading /\ Writing' = Writing
      /\ Active' = Active /\ Woken'
  BY <1>1 DEF Faults, Reading, Writing, Active, FaultInv, Woken
<1>3. ASSUME Faults <= 1 PROVE Tried'
  <2>1. Tried
    BY <1>3 DEF FaultInv
  <2>2. Reading /\ (Faults = 0 \/ c.retries > 0) =>
          ReadComing' /\ ("failed" \in ef' => "failed" \in ef)
    BY <2>1, ReadReceived DEF Tried
  <2>3. Writing /\ Faults = 0 =>
          WriteComing' /\ ("failed" \in ef' => "failed" \in ef)
    BY <2>1, WriteReceived DEF Tried, Sound
  <2>4. ~Active /\ Faults = 0 => ef' = ef
    BY <1>1, <2>1, Received DEF Tried, Sound
  <2>5. ~Active /\ c.op = "read" /\ c.retries > 0 => ef' = ef
    <3> SUFFICES ASSUME ~Active, c.op = "read", c.retries > 0 PROVE ef' = ef
      OBVIOUS
    <3>1. p.id = rx.id => p.cmd # "DONE"
      BY <1>1, <2>1 DEF Tried, OfRead
    <3>2. p.id = rx.id /\ rx.armed => p.cmd # "DATA"
      BY <1>1 DEF ClearInv, ReadInv, LeftArmed
    <3>3. p.cmd \in {"INFO_REPLY", "DATA", "DONE"}
      BY <1>1, Packets
    <3>4. QED BY <3>1, <3>2, <3>3, Received
  <2>6. Reading \/ Writing \/ ~Active
    BY <1>1, Numbers DEF Reading, Writing, Active
  <2>7. Faults = 0 \/ c.retries > 0 => ("failed" \in ef' => "failed" \in ef)
    <3>1. c.retries > 0 => c.op = "read"
      BY <1>1 DEF FaultInv, Woken
    <3>2. QED BY <2>2, <2>3, <2>4, <2>5, <2>6, <3>1 DEF Writing
  <2>8. ASSUME Faults = 0 PROVE Sound'
    <3>1. Sound
      BY <2>1, <2>8 DEF Tried
    <3>2. "failed" \notin Bits'
      BY <1>1, <2>7, <2>8, <3>1 DEF Sound, Bits
    <3>3. c.pc # "wait" => ef' = {}
      <4>1. CASE ~Active
        BY <2>4, <2>8, <3>1, <4>1 DEF Sound, Active
      <4>2. CASE c.pc \in {"woken", "end"}
        <5>1. ef = {} /\ "done" \in Bits /\ c.clear
          BY <1>1, <3>1, <4>2, Counts DEF Sound, FaultInv, Woken, Bits
        <5>2. Silent
          <6>1. CASE Reading
            <7>1. ReadComing /\ rx.pkt = Block + 1 /\ Block \in Nat \ {0}
                  /\ Len(toClient) \in Nat
              <8>1. ReadProgress /\ ReadComing
                BY <2>1, <2>8, <6>1 DEF ClearInv, ReadInv, Tried
              <8>2. Block \in 1 .. c.left /\ c.left \in 0 .. c.n
                    /\ Len(toClient) \in Nat
                BY <1>1, <6>1, Numbers DEF Reading, Active
              <8>3. QED BY <5>1, <6>1, <8>1, <8>2 DEF ReadProgress
            <7>2. ReadUnderWay /\ rx.size = 0
              BY <7>1 DEF ReadComing, ReadAsked, ReadUnderWay
            <7>3. \A i \in 1 .. Len(toClient) : i <= Len(toClient) - rx.size
              BY <7>1, <7>2
            <7>4. QED BY <7>2, <7>3 DEF ReadUnderWay, Silent
          <6>2. CASE Writing
            <7>1. WriteComing /\ toServer = <<>>
              BY <3>1, <5>1, <6>2 DEF Sound, ClearInv, WriteInv, WriteProgress
            <7>2. Len(toServer) = 0 /\ c.n \in Nat
              BY <1>1, <7>1, Numbers
            <7>3. ~(c.n < Len(toServer)) /\ ~(0 < Len(toServer))
              BY <7>2
            <7>4. QED BY <5>1, <7>1, <7>3 DEF WriteComing
          <6>3. QED BY <4>2, <2>6, <6>1, <6>2 DEF Active
        <5>3. QED BY <1>1, <5>1, <5>2, Received DEF Silent
      <4>3. QED BY <1>1, <4>1, <4>2 DEF Active
    <3>4. \A i \in 1 .. Len(toClient') :
            toClient'[i].cmd = "INFO_REPLY" \/ (Active /\ toClient'[i].id = rx.id)
      BY <1>1, <3>1 DEF Sound
    <3>5. QED BY <1>1, <1>2, <2>3, <2>8, <3>1, <3>2, <3>3, <3>4 DEF Sound
  <2>9. OfRead => OfRead'
    BY <1>1 DEF OfRead
  <2>10. Tally' <= 2
    <3>1. /\ Failed(c.bits) \in {0, 1} /\ Failed(ef') \in {0, 1}
          /\ Failed(ef) \in {0, 1}
          /\ (Failed(ef) = 1 <=> "failed" \in ef)
          /\ (Failed(ef') = 1 <=> "failed" \in ef')
      BY FailedOnce
    <3>2. Tally <= 2 /\ c' = c
      BY <1>1, <2>1 DEF Tried
    <3>3. CASE c.retries = 0
      BY <3>1, <3>2, <3>3 DEF Tally
    <3>4. CASE c.retries > 0
      BY <1>1, <2>7, <3>1, <3>2, <3>4 DEF Tally
    <3>5. QED BY <1>1, <3>3, <3>4
  <2>11. QED BY <1>1, <1>2, <2>1, <2>2, <2>8, <2>9, <2>10 DEF Tried
<1>4. QED BY <1>2, <1>3 DEF FaultInv

\* What is under way to the server, and behind the answers to a packet of it.
LEMMA Served ==
    ASSUME ClearInv, Serve
    PROVE  LET p == Head(toServer)
           IN /\ Len(toServer) \in Nat \ {0} /\ Len(toServer') = Len(toServer) - 1
              /\ p = toServer[1] /\ p \in ToServer
              /\ \A i \in 1 .. Len(toServer') :
                   i + 1 \in 1 .. Len(toServer) /\ toServer'[i] = toServer[i + 1]
              /\ UNCHANGED <<c, rx, ef, lost, early>>
              /\ \A i \in 1 .. Len(toClient') :
                   \/ i \in 1 .. Len(toClient) /\ toClient'[i] = toClient[i]
                   \/ /\ toClient'[i].id = p.id
                      /\ \/ p.cmd = "INFO" /\ toClient'[i].cmd = "INFO_REPLY"
                         \/ p.cmd = "READ" /\ toClient'[i].cmd = "DATA"
                         \/ p.cmd = "DATA" /\ toClient'[i].cmd = "DONE"
<1>1. /\ toServer # <<>> /\ toServer' = Tail(toServer)
      /\ UNCHANGED <<c, rx, ef, calls, lost, early>>
  BY DEF Serve
<1>2. /\ Len(toServer) \in Nat \ {0} /\ Len(toServer') = Len(toServer) - 1
      /\ Head(toServer) = toServer[1] /\ Head(toServer) \in ToServer
      /\ \A i \in 1 .. Len(toServer') :
           i + 1 \in 1 .. Len(toServer) /\ toServer'[i] = toServer[i + 1]
  BY <1>1, SentTail
<1>3. Answers(Head(toServer))
  BY ServeFacts
<1>4. QED BY <1>1, <1>2, <1>3, Zenon DEF Answers

LEMMA ReadServed ==
    ASSUME ClearInv, Serve, Reading, ReadComing
    PROVE  ReadComing'
<1> DEFINE p == Head(toServer)
           L == Len(toServer)
<1>1. /\ L \in Nat \ {0} /\ Len(toServer') = L - 1 /\ p = toServer[1]
      /\ p \in ToServer
      /\ \A i \in 1 .. Len(toServer') :
           i + 1 \in 1 .. L /\ toServer'[i] = toServer[i + 1]
      /\ UNCHANGED <<c, rx, ef>>
  BY Served
<1>2. /\ Typing /\ ReadSent /\ Block' = Block /\ Block \in Nat \ {0}
      /\ toClient \in Seq(ToClient) /\ Len(toClient) \in Nat
      /\ toServer' \in Seq(ToServer)
  <2>1. Typing /\ ReadSent
    BY DEF ClearInv, ReadInv
  <2>2. /\ Block \in 1 .. c.left /\ c.left \in 0 .. c.n /\ c.n \in Nat
        /\ toClient \in Seq(ToClient) /\ Len(toClient) \in Nat
    BY <2>1, Numbers DEF Reading, Active
  <2>3. toServer' \in Seq(ToServer)
    BY SentTail DEF Serve
  <2>4. QED BY <1>1, <2>1, <2>2, <2>3 DEF Block
<1>3. /\ toServer[L].id = rx.id /\ rx.pkt = 1 /\ rx.size = Block /\ Silent
  BY DEF ReadComing, ReadAsked, ReadUnderWay, Serve
<1>4. CASE L > 1
  <2>1. p.id # rx.id
    BY <1>1, <1>2, <1>4 DEF ReadSent
  <2>2. Silent'
    BY <1>1, <1>3, <2>1, Served DEF Silent
  <2>3. L - 1 \in 1 .. Len(toServer') /\ L - 1 + 1 = L
    BY <1>1, <1>4
  <2>4. toServer'[Len(toServer')].id = rx.id
    BY <1>1, <1>3, <2>3
  <2>5. toServer' # <<>>
    BY <1>1, <1>2, <1>4, EmptySeq
  <2>6. QED BY <1>1, <1>2, <1>3, <2>2, <2>4, <2>5 DEF ReadComing, ReadAsked
<1>5. CASE L = 1
  <2>1. p = [cmd |-> "READ", id |-> rx.id, n |-> Block, sector |-> c.sector + First]
    BY <1>1, <1>2, <1>3, <1>5 DEF ReadSent
  <2>2. p.cmd = "READ" /\ p.id = rx.id /\ p.n = Block
    BY <2>1
  <2> DEFINE m == [i \in 1 .. Block |->
                     [cmd |-> "DATA", id |-> rx.id, pkt |-> i,
                      data |-> srv.disc[p.sector + i - 1]]]
  <2>3. toClient' = toClient \o m
    BY <2>2 DEF Serve
  <2>4. /\ m \in Seq(ToClient) /\ Len(m) = Block
        /\ \A i \in 1 .. Block : m[i].id = rx.id /\ m[i].pkt = i
    <3>1. /\ p.sector \in Sector /\ p.sector + p.n <= SectorCount /\ p.id \in Id
      BY <1>1, <2>2, Packets
    <3>2. \A i \in 1 .. Block : p.sector + i - 1 \in Sector
      BY <1>2, <2>2, <3>1 DEF Sector
    <3>3. \A i \in 1 .. Block : srv.disc[p.sector + i - 1] \in Version
      BY <1>2, <3>2 DEF Typing, TypeOK, Server
    <3>4. \A i \in 1 .. Block :
            [cmd |-> "DATA", id |-> rx.id, pkt |-> i,
             data |-> srv.disc[p.sector + i - 1]] \in ToClient
      BY <1>2, <2>2, <3>1, <3>3 DEF ToClient
    <3>5. QED BY <1>2, <3>4, IsASeq
  <2> HIDE DEF m
  <2>5. /\ Len(toClient') = Len(toClient) + Block
        /\ \A i \in 1 .. Len(toClient) + Block :
             toClient'[i] = IF i <= Len(toClient) THEN toClient[i]
                            ELSE m[i - Len(toClient)]
    <3>1. /\ Len(toClient \o m) = Len(toClient) + Len(m)
          /\ \A i \in 1 .. Len(toClient) + Len(m) :
               (toClient \o m)[i] = IF i <= Len(toClient) THEN toClient[i]
                                    ELSE m[i - Len(toClient)]
      <4>1. m \in Seq(ToClient) /\ toClient \in Seq(ToClient)
        BY <1>2, <2>4
      <4>2. QED BY <4>1, ConcatProperties
    <3>2. Len(m) = Block
      BY <2>4
    <3>3. QED BY <2>3, <3>1, <3>2, Zenon
  <2>6. \A i \in 1 .. Len(toClient') :
          /\ i <= Len(toClient') - Block => toClient'[i].id # rx.id
          /\ i > Len(toClient') - Block =>
               /\ toClient'[i].id = rx.id
               /\ toClient'[i].pkt = Block - Len(toClient') + i
    <3> SUFFICES ASSUME NEW i \in 1 .. Len(toClient')
                 PROVE /\ i <= Len(toClient') - Block => toClient'[i].id # rx.id
                       /\ i > Len(toClient') - Block =>
                            /\ toClient'[i].id = rx.id
                            /\ toClient'[i].pkt = Block - Len(toClient') + i
      OBVIOUS
    <3>1. CASE i <= Len(toClient)
      <4>1. i \in 1 .. Len(toClient) /\ toClient'[i] = toClient[i]
            /\ i <= Len(toClient') - Block
        BY <1>2, <2>5, <3>1
      <4>2. QED BY <1>2, <1>3, <2>5, <4>1 DEF Silent
    <3>2. CASE i > Len(toClient)
      <4>1. /\ toClient'[i] = m[i - Len(toClient)]
            /\ i - Len(toClient) \in 1 .. Block
            /\ Block - Len(toClient') + i = i - Len(toClient)
            /\ ~(i <= Len(toClient') - Block)
        BY <1>2, <2>5, <3>2
      <4>2. QED BY <2>4, <4>1
    <3>3. QED BY <1>2, <2>5, <3>1, <3>2
  <2>7. toServer' = <<>>
    BY <1>1, <1>2, <1>5, EmptySeq
  <2>8. /\ rx'.size = Block - rx'.pkt + 1 /\ rx'.size = Block
        /\ rx'.size <= Len(toClient') /\ rx'.size # 0
    BY <1>1, <1>2, <1>3, <2>5
  <2>9. ReadUnderWay'
    BY <1>1, <1>2, <2>6, <2>7, <2>8 DEF ReadUnderWay
  <2>10. QED BY <2>9 DEF ReadComing
<1>6. QED BY <1>1, <1>4, <1>5

LEMMA WriteHandled ==
    ASSUME ClearInv, Serve, Writing, WriteComing, c.clear
    PROVE  WriteComing'
<1> DEFINE p == Head(toServer)
           L == Len(toServer)
<1>1. /\ L \in Nat \ {0} /\ Len(toServer') = L - 1 /\ p = toServer[1]
      /\ p \in ToServer /\ 1 \in 1 .. L
      /\ UNCHANGED <<c, rx, ef>>
  BY Served
<1>2. /\ Typing /\ WriteSent /\ c.n \in Nat \ {0} /\ toServer # <<>>
      /\ toClient \in Seq(ToClient) /\ toServer' \in Seq(ToServer)
      /\ "done" \notin Bits
  <2>1. Typing /\ WriteSent /\ WriteProgress
    BY DEF ClearInv, WriteInv
  <2>2. /\ c.n \in Nat /\ c.left \in 0 .. c.n /\ c.left > 0
        /\ toClient \in Seq(ToClient)
    BY <2>1, Numbers DEF Writing, Active
  <2>3. toServer' \in Seq(ToServer) /\ toServer # <<>>
    BY SentTail DEF Serve
  <2>4. QED BY <2>1, <2>2, <2>3 DEF WriteProgress
<1>3. CASE c.n < L /\ Silent
  <2>1. CASE c.n + 1 < L
    <3>1. 1 < L - c.n /\ c.n < Len(toServer')
      BY <1>1, <1>2, <2>1
    <3>2. p.id # rx.id
      BY <1>1, <1>2, <3>1 DEF WriteSent
    <3>3. Silent'
      BY <1>1, <1>3, <3>2, Served DEF Silent
    <3>4. QED BY <1>1, <3>1, <3>3 DEF WriteComing
  <2>2. CASE L = c.n + 1
    <3>1. 1 = L - c.n
      BY <1>1, <1>2, <2>2
    <3>2. p = [cmd |-> "WRITE", id |-> rx.id, n |-> c.n, sector |-> c.sector]
      BY <1>1, <1>2, <3>1 DEF WriteSent
    <3>3. p.cmd = "WRITE" /\ p.id = rx.id /\ p.n = c.n
      BY <3>2
    <3>4. /\ srv' = [srv EXCEPT !.write = [id |-> p.id, sector |-> p.sector,
                                           left |-> p.n, pkt |-> 1]]
          /\ UNCHANGED toClient
      BY <3>3 DEF Serve
    <3>5. srv \in Server
      BY <1>2 DEF Typing, TypeOK
    <3>6. srv'.write.id = rx.id /\ srv'.write.left = c.n /\ srv'.write.pkt = 1
      BY <3>3, <3>4, <3>5 DEF Server
    <3>7. Silent' /\ Len(toServer') = c.n /\ 0 < c.n /\ 1 = c.n - c.n + 1
      <4>1. Silent'
        BY <1>1, <1>3, <3>4 DEF Silent
      <4>2. Len(toServer') = c.n /\ 0 < c.n /\ 1 = c.n - c.n + 1
        BY <1>1, <1>2, <2>2
      <4>3. QED BY <4>1, <4>2
    <3>8. QED BY <1>1, <3>6, <3>7 DEF WriteComing
  <2>3. QED BY <1>1, <1>2, <1>3, <2>1, <2>2
<1>4. CASE /\ 0 < L /\ L <= c.n /\ srv.write.id = rx.id
           /\ srv.write.left = L /\ srv.write.pkt = c.n - L + 1 /\ Silent
  <2>1. 1 > L - c.n
    BY <1>1, <1>2, <1>4
  <2>2. p = [cmd |-> "DATA", id |-> rx.id, pkt |-> c.n - L + 1,
             data |-> calls + 1]
    BY <1>1, <1>2, <2>1 DEF WriteSent
  <2>3. p.cmd = "DATA" /\ p.id = rx.id /\ p.pkt = c.n - L + 1
    BY <2>2
  <2>4. /\ srv' = [disc |-> [srv.disc EXCEPT ![srv.write.sector] = p.data],
                   write |-> [srv.write EXCEPT !.sector = @ + 1, !.left = @ - 1,
                                               !.pkt = @ + 1]]
        /\ toClient' = IF L = 1
                         THEN Append(toClient, [cmd |-> "DONE", id |-> p.id,
                                                ok |-> TRUE])
                         ELSE toClient
    <3>1. Store(p)
      BY <2>3 DEF Serve
    <3>2. QED BY <1>1, <1>4, <2>3, <3>1 DEF Store, WriteDone
  <2>5. srv.write \in [id : Id, sector : Nat, left : Nat, pkt : Nat]
    BY <1>2 DEF Typing, TypeOK, Server
  <2>6. /\ srv'.write.id = rx.id /\ srv'.write.left = L - 1
        /\ srv'.write.pkt = c.n - L + 1 + 1
    BY <1>4, <2>4, <2>5
  <2>7. CASE L > 1
    <3>1. UNCHANGED toClient
      BY <1>1, <2>4, <2>7
    <3>2. /\ Silent' /\ 0 < Len(toServer') /\ Len(toServer') <= c.n
          /\ srv'.write.pkt = c.n - Len(toServer') + 1
      BY <1>1, <1>2, <1>4, <2>6, <2>7, <3>1 DEF Silent
    <3>3. QED BY <1>1, <2>6, <3>2 DEF WriteComing
  <2>8. CASE L = 1
    <3> DEFINE e == [cmd |-> "DONE", id |-> p.id, ok |-> TRUE]
    <3>1. e \in ToClient /\ e.id = rx.id /\ e.ok
      BY <1>1, <2>3, Packets DEF ToClient
    <3> HIDE DEF e
    <3>2. toClient' = Append(toClient, e)
      BY <2>4, <2>8 DEF e
    <3>3. /\ Len(toClient') = Len(toClient) + 1 /\ Len(toClient) \in Nat
          /\ toClient'[Len(toClient) + 1] = e
          /\ \A i \in 1 .. Len(toClient) : toClient'[i] = toClient[i]
      BY <1>2, <3>1, <3>2, AppendProperties, LenProperties
    <3>4. /\ toClient' # <<>> /\ toClient'[Len(toClient')] = e
          /\ \A i \in 1 .. Len(toClient') - 1 : toClient'[i].id # rx.id
      <4>1. Len(toClient') - 1 = Len(toClient) /\ Len(toClient') # 0
        BY <3>3
      <4>2. QED BY <1>4, <3>3, <4>1 DEF Silent
    <3>5. toServer' = <<>>
      BY <1>1, <1>2, <2>8, EmptySeq
    <3>6. "done" \notin Bits'
      BY <1>1, <1>2 DEF Bits
    <3>7. QED BY <1>1, <3>1, <3>4, <3>5, <3>6 DEF WriteComing
  <2>9. QED BY <1>1, <2>7, <2>8
<1>5. QED BY <1>2, <1>3, <1>4 DEF WriteComing

LEMMA ServeTried == ClearInv /\ FaultInv /\ Serve => FaultInv'
<1> SUFFICES ASSUME ClearInv, FaultInv, Serve PROVE FaultInv'
  OBVIOUS
<1> DEFINE p == Head(toServer)
<1>1. /\ Len(toServer) \in Nat \ {0}
      /\ p = toServer[1] /\ p \in ToServer /\ 1 \in 1 .. Len(toServer)
      /\ \A i \in 1 .. Len(toServer') :
           i + 1 \in 1 .. Len(toServer) /\ toServer'[i] = toServer[i + 1]
      /\ UNCHANGED <<c, rx, ef, lost, early>>
      /\ \A i \in 1 .. Len(toClient') :
           \/ i \in 1 .. Len(toClient) /\ toClient'[i] = toClient[i]
           \/ /\ toClient'[i].id = p.id
              /\ \/ p.cmd = "INFO" /\ toClient'[i].cmd = "INFO_REPLY"
                 \/ p.cmd = "READ" /\ toClient'[i].cmd = "DATA"
                 \/ p.cmd = "DATA" /\ toClient'[i].cmd = "DONE"
  BY Served
<1>2. /\ Faults' = Faults /\ Reading' = Reading /\ Writing' = Writing
      /\ Active' = Active /\ Woken' /\ Tally' = Tally /\ Bits' = Bits
  BY <1>1 DEF Faults, Reading, Writing, Active, FaultInv, Woken, Tally, Bits
<1>3. ASSUME Faults <= 1 PROVE Tried'
  <2>1. Tried
    BY <1>3 DEF FaultInv
  <2>2. Reading /\ (Faults = 0 \/ c.retries > 0) => ReadComing'
    BY <2>1, ReadServed DEF Tried
  <2>3. ASSUME Faults = 0 PROVE Sound'
    <3>1. Sound
      BY <2>1, <2>3 DEF Tried
    <3>2. Writing => WriteComing'
      BY <3>1, WriteHandled DEF Sound
    <3>3. \A i \in 1 .. Len(toServer') :
            toServer'[i].cmd = "INFO" \/ (Active /\ toServer'[i].id = rx.id)
      BY <1>1, <3>1 DEF Sound
    <3>4. \A i \in 1 .. Len(toClient') :
            toClient'[i].cmd = "INFO_REPLY" \/ (Active /\ toClient'[i].id = rx.id)
      <4>1. p.cmd = "INFO" \/ (Active /\ p.id = rx.id)
        BY <1>1, <3>1 DEF Sound
      <4>2. QED BY <1>1, <3>1, <4>1 DEF Sound
    <3>5. QED BY <1>1, <1>2, <3>1, <3>2, <3>3, <3>4 DEF Sound
  <2>4. OfRead => OfRead'
    <3> SUFFICES ASSUME OfRead PROVE OfRead'
      OBVIOUS
    <3>1. p.id = rx.id => p.cmd = "READ"
      BY <1>1 DEF OfRead
    <3>2. QED BY <1>1, <3>1 DEF OfRead
  <2>5. QED BY <1>1, <1>2, <2>1, <2>2, <2>3, <2>4 DEF Tried
<1>4. QED BY <1>2, <1>3 DEF FaultInv

LEMMA TriedStep == ClearInv /\ FaultInv /\ [Next]_vars => FaultInv'
<1> SUFFICES ASSUME ClearInv, FaultInv, [Next]_vars PROVE FaultInv'
  OBVIOUS
<1>1. CASE Call
  BY <1>1, CallTried
<1>2. CASE Step
  BY <1>2, SendTried, WakeTried, EndTried DEF Step
<1>3. CASE AlarmFires
  BY <1>3, AlarmTried
<1>4. CASE Receive
  BY <1>4, ReceiveTried
<1>5. CASE Serve
  BY <1>5, ServeTried
<1>6. CASE Lose
  BY <1>6, LoseTried
<1>7. CASE SendFails
  BY <1>7, SendFailsTried
<1>8. CASE UNCHANGED vars
  BY <1>8 DEF vars, FaultInv, Woken, Tried, Tally, Sound, OfRead, ReadComing,
       ReadAsked, ReadUnderWay, WriteComing, Silent, Faults, Reading, Writing,
       Active, Bits, Block
<1>9. QED
  BY <1>1, <1>2, <1>3, <1>4, <1>5, <1>6, <1>7, <1>8 DEF Next

(* The device is given up only after more than one packet was lost or late *)
(* (UDPBD_MAX_RETRIES is 4): one fault makes at most two tries of a read   *)
(* fail, the one it happens to and the next one, which may find the bit    *)
(* that the first left in g_ev_done.                                       *)
THEOREM OneFaultIsSurvived ==
    ASSUME MaxRetries > 2
    PROVE  Spec => []OneFaultSurvived
<1>1. Init => ClearInv /\ FaultInv
  BY InitClear, InitTried
<1>2. ClearInv /\ FaultInv /\ [Next]_vars => (ClearInv /\ FaultInv)'
  BY ClearStep, TriedStep
<1>3. ClearInv /\ FaultInv => OneFaultSurvived
  <2> SUFFICES ASSUME ClearInv, FaultInv, c.retries = MaxRetries
               PROVE  lost + early > 1
    BY DEF OneFaultSurvived
  <2>1. lost \in Nat /\ early \in Nat
    BY Counts DEF ClearInv
  <2>2. Failed(c.bits) \in {0, 1} /\ Failed(ef) \in {0, 1}
    BY FailedOnce
  <2>3. Tally > 2
    BY <2>2 DEF Tally
  <2>4. ~(Faults <= 1)
    BY <2>1, <2>2, <2>3 DEF FaultInv, Tried, Tally
  <2>5. QED BY <2>1, <2>4 DEF Faults
<1>4. QED BY <1>1, <1>2, <1>3, PTL DEF Spec
============================================================================

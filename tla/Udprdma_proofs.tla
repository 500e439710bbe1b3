---- MODULE Udprdma_proofs ----
(***************************************************************************)
(* Udprdma, for every program, window and bound.  Types, across restarts   *)
(* of the client too.  Then, for a session of fewer messages than there    *)
(* are sequence numbers, whatever the network loses and however early      *)
(* alarms fire: requests are executed in order and once; the receive       *)
(* buffer holds what it should; the session is what UdprdmaReliable        *)
(* promises; the send window is kept and nothing the client lacks is lost  *)
(* from tx_buffer.  Last, sessions one after the other against one server  *)
(* keep the order too, unless a client restarts after exactly one message. *)
(***************************************************************************)
EXTENDS Udprdma, SequenceTheorems, TLAPS

(* The caller is inside Program while it is in an operation, and an answer *)
(* is only sent after a request was dispatched.                            *)
CallInProgram ==
    /\ cPc = "discover" => cMsg = 1
    /\ cPc \in {"call", "send", "recv", "recvd"} => cMsg <= Len(Program)
AnswerHasRequest == sMode # "idle" => sDone # <<>>

TypeInv == TypeOK /\ CallInProgram /\ AnswerHasRequest

USE SeqModAssumption, WindowAssumption, ProgramAssumption, BoundAssumption

(* The arithmetic of udprdma.c and udpfs_server.py stays in 12 bits. *)
LEMMA SeqArithmetic ==
    /\ \A x \in SeqNr : Next12(x) \in SeqNr /\ Prev12(x) \in SeqNr
    /\ \A x, y \in SeqNr : Diff12(x, y) \in SeqNr
    /\ 0 \in SeqNr
BY DEF SeqNr, Next12, Prev12, Diff12

(* What the client and the server put on the wire is a packet. *)
LEMMA ClientPackets ==
    ASSUME TypeOK
    PROVE  /\ Discovery \in ClientPacket
           /\ [Discovery EXCEPT !.boot = cBoot + 1] \in ClientPacket
           /\ \A b \in BOOLEAN : AckPacket(b) \in ClientPacket
           /\ \A s \in SeqNr, k \in 1 .. Len(Program) :
                 DataPacket(s, k) \in ClientPacket
<1>1. cBoot \in Nat /\ cBoot + 1 \in Nat /\ cTx \in SeqNr
      /\ cExpected \in SeqNr /\ Prev12(cExpected) \in SeqNr /\ 0 \in SeqNr
      BY SeqArithmetic DEF TypeOK, ClientTypeOK
<1>2. Len(Program) \in Nat /\ 0 \in 0 .. Len(Program)
      BY LenProperties
<1>3. Discovery \in ClientPacket
      BY <1>1, <1>2 DEF Discovery, ClientPacket
<1>4. [Discovery EXCEPT !.boot = cBoot + 1] \in ClientPacket
      BY <1>1, <1>3 DEF ClientPacket
<1>5. \A b \in BOOLEAN : AckPacket(b) \in ClientPacket
      BY <1>1, <1>2 DEF AckPacket, ClientPacket
<1>6. \A s \in SeqNr, k \in 1 .. Len(Program) :
         DataPacket(s, k) \in ClientPacket
      BY <1>1, <1>2 DEF DataPacket, ClientPacket
<1>7. QED BY <1>3, <1>4, <1>5, <1>6

LEMMA ServerPackets ==
    ASSUME TypeOK
    PROVE  /\ Inform \in ServerPacket
           /\ \A e \in SeqNr, b \in BOOLEAN : AckReply(e, b) \in ServerPacket
           /\ \A i \in Nat : sDone # <<>> => ReplyPacket(i) \in ServerPacket
<1>1. sTx \in SeqNr /\ sExpected \in SeqNr /\ Prev12(sExpected) \in SeqNr
      /\ 0 \in SeqNr
      BY SeqArithmetic DEF TypeOK, ServerTypeOK
<1>a. 1 \in SeqNr
      BY DEF SeqNr
<1>2. Len(Program) \in Nat /\ 0 \in 0 .. Len(Program)
      BY LenProperties
<1>3. Inform \in ServerPacket
      BY <1>1, <1>2, <1>a DEF Inform, ServerPacket
<1>4. \A e \in SeqNr, b \in BOOLEAN : AckReply(e, b) \in ServerPacket
      BY <1>1, <1>2, SeqArithmetic DEF AckReply, ServerPacket
<1>5. ASSUME NEW i \in Nat, sDone # <<>>
      PROVE  ReplyPacket(i) \in ServerPacket
  <2>1. Answered \in Request
        BY <1>5 DEF TypeOK, ServerTypeOK, Answered
  <2>2. QED BY <1>1, <1>2, <2>1 DEF ReplyPacket, ServerPacket, Request
<1>6. QED BY <1>3, <1>4, <1>5

(* Receiving a packet takes it off its queue. *)
LEMMA Queues ==
    ASSUME TypeOK
    PROVE  /\ c2s # <<>> => /\ Head(c2s) \in ClientPacket
                            /\ Tail(c2s) \in Seq(ClientPacket)
           /\ s2c # <<>> => /\ Head(s2c) \in ServerPacket
                            /\ Tail(s2c) \in Seq(ServerPacket)
BY HeadTailProperties DEF TypeOK, NetTypeOK

LEMMA ClientSends ==
    ASSUME TypeOK, NEW p \in ClientPacket
    PROVE  Append(c2s, p) \in Seq(ClientPacket)
BY AppendProperties DEF TypeOK, NetTypeOK

LEMMA InitTyped == Init => TypeInv
<1> SUFFICES ASSUME Init PROVE TypeInv
    OBVIOUS
<1>1. NetTypeOK
  <2>1. /\ cBoot \in Nat /\ 0 \in SeqNr /\ 0 \in 0 .. Len(Program)
        BY SeqArithmetic, LenProperties DEF Init, ClientInit
  <2>2. Discovery \in ClientPacket
        BY <2>1 DEF Discovery, ClientPacket
  <2>3. QED BY <2>2 DEF Init, NetInit, ClientInit, NetTypeOK
<1>2. ClientTypeOK
  <2>1. 1 \in 1 .. Len(Program) + 1 /\ 0 \in SeqNr
        BY SeqArithmetic, LenProperties
  <2>2. 0 \in 0 .. RxAckWindow - 1 /\ <<>> \in Seq(ServerPacket)
        OBVIOUS
  <2>3. cRx \in Seq(ServerPacket)
        BY <2>2, Zenon DEF Init, ClientInit
  <2>4. cWin \in 0 .. RxAckWindow - 1 /\ cOk \subseteq 1 .. Len(Program)
        BY <2>2 DEF Init, ClientInit
  <2>5. /\ cPc = "discover" /\ cState = "DISCOVERING" /\ cMsg = 1
        /\ cTries = 0 /\ cEv = {} /\ cBoot = 0 /\ cTx = 0 /\ cAcked = 0
        /\ cExpected = 0 /\ cBuffer = FALSE /\ cNacked = FALSE
        BY Zenon DEF Init, ClientInit
  <2>6. 0 \in 0 .. MaxRetries /\ 0 \in 0 .. MaxBoots /\ {} \subseteq Events
        OBVIOUS
  <2>7. QED BY <2>1, <2>3, <2>4, <2>5, <2>6 DEF ClientTypeOK
<1>3. ServerTypeOK
  BY SeqArithmetic DEF Init, ServerInit, ServerTypeOK
<1>4. CallInProgram /\ AnswerHasRequest
  BY DEF Init, ClientInit, ServerInit, CallInProgram, AnswerHasRequest
<1>5. QED BY <1>1, <1>2, <1>3, <1>4 DEF TypeInv, TypeOK

(* The steps of the caller's thread. *)
LEMMA ClientThreadTyped ==
    ASSUME TypeInv, ClientThread, UNCHANGED serverVars
    PROVE  TypeInv'
<1> USE DEF TypeInv, TypeOK
<1>1. ServerTypeOK' /\ AnswerHasRequest'
  BY DEF ServerTypeOK, AnswerHasRequest, serverVars, sendVars
<1>2. Len(Program) \in Nat
  BY LenProperties
<1>3. CASE Discovered
  <2>1. NetTypeOK' BY <1>3 DEF Discovered, NetTypeOK, netVars
  <2>2. ClientTypeOK'
    BY <1>3 DEF Discovered, ClientTypeOK, sockVars
  <2>3. Program # <<>> => 1 <= Len(Program)
    BY <1>2, EmptySeq, LenProperties
  <2>4. CallInProgram'
    BY <1>3, <2>3 DEF Discovered, CallInProgram
  <2>5. QED BY <1>1, <2>1, <2>2, <2>4
<1>4. CASE DiscoverTimeout
  <2>1. NetTypeOK'
    BY <1>4, ClientPackets, ClientSends DEF DiscoverTimeout, NetTypeOK
  <2>2. ClientTypeOK' /\ CallInProgram'
    BY <1>4 DEF DiscoverTimeout, ClientTypeOK, CallInProgram, sockVars
  <2>3. QED BY <1>1, <2>1, <2>2
<1>5. CASE SendCall
  <2>1. cMsg \in 1 .. Len(Program) /\ cTx \in SeqNr /\ Next12(cTx) \in SeqNr
    BY <1>2, <1>5, SeqArithmetic DEF SendCall, ClientTypeOK, CallInProgram
  <2>2. NetTypeOK'
    BY <1>5, <2>1, ClientPackets, ClientSends DEF SendCall, NetTypeOK
  <2>3. ClientTypeOK' /\ CallInProgram'
    <3>1. 0 \in 0 .. RxAckWindow - 1 /\ <<>> \in Seq(ServerPacket)
          OBVIOUS
    <3>2. cRx' \in Seq(ServerPacket)
          BY <1>5, <3>1, Zenon DEF SendCall, ClientTypeOK
    <3>3. /\ cWin' \in 0 .. RxAckWindow - 1
          /\ cBuffer' \in BOOLEAN /\ cNacked' \in BOOLEAN
          BY <1>5, <3>1 DEF SendCall, ClientTypeOK
    <3>4. /\ cPc' = "send" /\ cTries' = 0 /\ cTx' = Next12(cTx)
          /\ cEv' \subseteq cEv
          /\ UNCHANGED <<cAcked, cExpected, cState, cMsg, cOk, cBoot>>
          BY <1>5 DEF SendCall
    <3>5. ClientTypeOK' BY <2>1, <3>2, <3>3, <3>4 DEF ClientTypeOK
    <3>6. CallInProgram' BY <2>1, <3>4 DEF CallInProgram
    <3>7. QED BY <3>5, <3>6
  <2>4. QED BY <1>1, <2>2, <2>3
<1>6. CASE SendAcked
  <2>1. NetTypeOK' BY <1>6 DEF SendAcked, NetTypeOK, netVars
  <2>2. ClientTypeOK' /\ CallInProgram'
    BY <1>2, <1>6 DEF SendAcked, ClientTypeOK, CallInProgram, sockVars
  <2>3. QED BY <1>1, <2>1, <2>2
<1>7. CASE SendRetry
  <2>1. cMsg \in 1 .. Len(Program) /\ cTx \in SeqNr /\ Prev12(cTx) \in SeqNr
    BY <1>2, <1>7, SeqArithmetic DEF SendRetry, ClientTypeOK, CallInProgram
  <2>2. NetTypeOK'
    BY <1>7, <2>1, ClientPackets, ClientSends DEF SendRetry, NetTypeOK
  <2>3. ClientTypeOK' /\ CallInProgram'
    BY <1>7, <2>1 DEF SendRetry, ClientTypeOK, CallInProgram
  <2>4. QED BY <1>1, <2>2, <2>3
<1>8. CASE RecvFin
  <2>1. NetTypeOK'
    BY <1>8, ClientPackets, ClientSends DEF RecvFin, NetTypeOK
  <2>2. ClientTypeOK' /\ CallInProgram'
    BY <1>8 DEF RecvFin, ClientTypeOK, CallInProgram, sockVars
  <2>3. QED BY <1>1, <2>1, <2>2
<1>9. CASE RecvReturn
  <2>1. NetTypeOK' BY <1>9 DEF RecvReturn, NetTypeOK, netVars
  <2>2. ClientTypeOK' /\ CallInProgram'
    <3>1. cMsg \in 1 .. Len(Program) /\ cMsg + 1 \in 1 .. Len(Program) + 1
          BY <1>2, <1>9 DEF RecvReturn, ClientTypeOK, CallInProgram
    <3>2. ClientTypeOK' BY <1>9, <3>1 DEF RecvReturn, ClientTypeOK
    <3>3. CallInProgram' BY <1>2, <1>9, <3>1 DEF RecvReturn, CallInProgram
    <3>4. QED BY <3>2, <3>3
  <2>3. QED BY <1>1, <2>1, <2>2
<1>10. CASE RecvNack
  <2>1. NetTypeOK'
    BY <1>10, ClientPackets, ClientSends DEF RecvNack, NetTypeOK
  <2>2. ClientTypeOK' /\ CallInProgram'
    BY <1>10 DEF RecvNack, ClientTypeOK, CallInProgram, sockVars, callVars
  <2>3. QED BY <1>1, <2>1, <2>2
<1>11. CASE RecvWindow
  <2>1. NetTypeOK'
    BY <1>11, ClientPackets, ClientSends DEF RecvWindow, NetTypeOK
  <2>2. ClientTypeOK' /\ CallInProgram'
    BY <1>11 DEF RecvWindow, ClientTypeOK, CallInProgram, sockVars, callVars
  <2>3. QED BY <1>1, <2>1, <2>2
<1>12. CASE RecvTimeout
  <2>1. NetTypeOK' BY <1>12 DEF RecvTimeout, NetTypeOK, netVars
  <2>2. ClientTypeOK' /\ CallInProgram'
    BY <1>12 DEF RecvTimeout, ClientTypeOK, CallInProgram
  <2>3. QED BY <1>1, <2>1, <2>2
<1>13. QED
  BY <1>3, <1>4, <1>5, <1>6, <1>7, <1>8, <1>9, <1>10, <1>11, <1>12
     DEF ClientThread

LEMMA IstTyped ==
    ASSUME TypeInv, Ist, UNCHANGED serverVars
    PROVE  TypeInv'
<1> USE DEF TypeInv, TypeOK
<1>1. ServerTypeOK' /\ AnswerHasRequest'
  BY DEF ServerTypeOK, AnswerHasRequest, serverVars, sendVars
<1>2. NetTypeOK'
  BY Queues DEF Ist, IstInform, IstData, NetTypeOK
<1>3. CASE IstInform
  BY <1>1, <1>2, <1>3
     DEF IstInform, ClientTypeOK, CallInProgram, sockVars, callVars, Events
<1>4. CASE IstData
  <2> DEFINE p == Head(s2c)
  <2>1. p \in ServerPacket
    BY <1>4, Queues DEF IstData
  <2>2. p.seq \in SeqNr /\ p.ack \in SeqNr /\ Next12(p.seq) \in SeqNr
    BY <2>1, SeqArithmetic DEF ServerPacket
  <2>3. Raises(p) \subseteq Events
    BY DEF Raises, Events
  <2>4. Append(cRx, p) \in Seq(ServerPacket)
    BY <2>1, AppendProperties DEF ClientTypeOK
  <2>5. cRx' \in Seq(ServerPacket) /\ cEv' \subseteq Events
    BY <1>4, <2>3, <2>4 DEF IstData, ClientTypeOK
  <2>6. cAcked' \in SeqNr /\ cExpected' \in SeqNr
    BY <1>4, <2>2 DEF IstData, ClientTypeOK
  <2>7. cNacked' \in BOOLEAN
    BY <1>4 DEF IstData
  <2>8. cWin' \in 0 .. RxAckWindow - 1
    BY <1>4 DEF IstData, ClientTypeOK, WindowEnds
  <2>9. UNCHANGED <<cTx, cBuffer, cPc, cState, cMsg, cTries, cOk, cBoot>>
    BY <1>4 DEF IstData, callVars
  <2>10. ClientTypeOK' /\ CallInProgram'
    BY <2>5, <2>6, <2>7, <2>8, <2>9 DEF ClientTypeOK, CallInProgram
  <2>11. QED BY <1>1, <1>2, <2>10
<1>5. QED BY <1>3, <1>4 DEF Ist

LEMMA ClientAlarmTyped ==
    ASSUME TypeInv, ClientAlarm, UNCHANGED serverVars
    PROVE  TypeInv'
<1>1. ServerTypeOK' /\ AnswerHasRequest'
  BY DEF TypeInv, TypeOK, ServerTypeOK, AnswerHasRequest, serverVars, sendVars
<1>2. NetTypeOK'
  BY DEF TypeInv, TypeOK, ClientAlarm, Alarm, AlarmFires, NetTypeOK
<1>3. ClientTypeOK' /\ CallInProgram'
  BY DEF TypeInv, TypeOK, ClientAlarm, Alarm, ClientTypeOK, CallInProgram,
         sockVars, callVars, Events
<1>4. QED BY <1>1, <1>2, <1>3 DEF TypeInv, TypeOK

LEMMA RestartTyped ==
    ASSUME TypeInv, Restart
    PROVE  TypeInv'
<1>1. ServerTypeOK' /\ AnswerHasRequest'
  BY DEF TypeInv, TypeOK, Restart, ServerTypeOK, AnswerHasRequest,
         serverVars, sendVars
<1>2. NetTypeOK'
  BY ClientPackets, ClientSends
     DEF TypeInv, TypeOK, Restart, Reboot, NetTypeOK
<1>3. cRx' \in Seq(ServerPacket)
  BY EmptySeq, Zenon DEF Restart, Reboot
<1>4. /\ cPc' = "discover" /\ cState' = "DISCOVERING" /\ cMsg' = 1
      /\ cTries' = 0 /\ cEv' = {} /\ cBoot' = cBoot + 1 /\ cTx' = 0
      /\ cAcked' = 0 /\ cExpected' = 0 /\ cBuffer' = FALSE
      /\ cWin' = 0 /\ cNacked' = FALSE /\ cOk' = {} /\ cBoot < MaxBoots
  BY Zenon DEF Restart, Reboot
<1>5. /\ 1 \in 1 .. Len(Program) + 1 /\ 0 \in 0 .. RxAckWindow - 1
      /\ cBoot \in 0 .. MaxBoots /\ 0 \in 0 .. MaxRetries
      /\ {} \subseteq Events /\ {} \subseteq 1 .. Len(Program)
  BY LenProperties DEF TypeInv, TypeOK, ClientTypeOK
<1>6. cBoot' \in 0 .. MaxBoots
  BY <1>4, <1>5
<1>7. ClientTypeOK'
  BY <1>3, <1>4, <1>5, <1>6, SeqArithmetic DEF ClientTypeOK
<1>8. CallInProgram'
  BY <1>4 DEF CallInProgram
<1>9. QED BY <1>1, <1>2, <1>7, <1>8 DEF TypeInv, TypeOK

(* What is left of tx_buffer, and what of it is sent again, is in it. *)
LEMMA Buffers ==
    ASSUME TypeOK
    PROVE  /\ \A a \in SeqNr : Unacked(a) \subseteq ServerPacket
           /\ \A a \in SeqNr : AllOf(Unacked(a)) \subseteq ServerPacket
           /\ \A a \in SeqNr : From(a) \subseteq ServerPacket
           /\ AllOf(sBuf) \subseteq ServerPacket
BY DEF TypeOK, ServerTypeOK, Unacked, AllOf, From

LEMMA ServerSends ==
    ASSUME TypeOK, NEW p \in ServerPacket
    PROVE  Append(s2c, p) \in Seq(ServerPacket)
BY AppendProperties DEF TypeOK, NetTypeOK

(* The fields of a packet the server reads. *)
LEMMA Received ==
    ASSUME TypeOK, c2s # <<>>
    PROVE  /\ Head(c2s).ack \in SeqNr /\ Prev12(Head(c2s).ack) \in SeqNr
           /\ Head(c2s).seq \in SeqNr /\ Head(c2s).boot \in Nat
           /\ ClientKind(Head(c2s)) = "request"
                => Head(c2s).msg \in 1 .. Len(Program)
<1>1. Head(c2s) \in ClientPacket
  BY Queues
<1>2. Head(c2s).ack \in SeqNr /\ Head(c2s).seq \in SeqNr
      /\ Head(c2s).boot \in Nat /\ Head(c2s).msg \in 0 .. Len(Program)
  BY <1>1 DEF ClientPacket
<1>3. Len(Program) \in Nat
  BY LenProperties
<1>4. QED BY <1>2, <1>3, SeqArithmetic DEF ClientKind

(* The steps of the server's thread. *)
LEMMA ServerThreadTyped ==
    ASSUME TypeInv, ServerThread, UNCHANGED clientVars
    PROVE  TypeInv'
<1> USE DEF TypeInv, TypeOK
<1>1. ClientTypeOK' /\ CallInProgram'
  BY DEF ClientTypeOK, CallInProgram, clientVars, sockVars, callVars
<1>2. /\ sTx \in SeqNr /\ sAcked \in SeqNr /\ sExpected \in SeqNr
      /\ Next12(sTx) \in SeqNr /\ 0 \in SeqNr
  BY SeqArithmetic DEF ServerTypeOK
<1>3. CASE HandleDiscovery
  <2>1. NetTypeOK'
    BY <1>3, Queues, ServerPackets, ServerSends
       DEF HandleDiscovery, NetTypeOK
  <2>2. ServerTypeOK' /\ AnswerHasRequest'
    BY <1>3 DEF HandleDiscovery, ServerTypeOK, AnswerHasRequest,
                serverVars, sendVars
  <2>3. QED BY <1>1, <2>1, <2>2
<1>4. CASE HandleAck
  <2>1. NetTypeOK' BY <1>4, Queues DEF HandleAck, NetTypeOK
  <2>2. ServerTypeOK' /\ AnswerHasRequest'
    BY <1>4, Received, Buffers
       DEF HandleAck, ServerTypeOK, AnswerHasRequest, sendVars
  <2>3. QED BY <1>1, <2>1, <2>2
<1>5. CASE HandleNack
  <2>1. NetTypeOK' BY <1>5, Queues DEF HandleNack, NetTypeOK
  <2>2. ServerTypeOK' /\ AnswerHasRequest'
    BY <1>5, Received, Buffers
       DEF HandleNack, ServerTypeOK, AnswerHasRequest
  <2>3. QED BY <1>1, <2>1, <2>2
<1>6. CASE HandleDuplicate
  <2>1. NetTypeOK'
    BY <1>2, <1>6, Queues, ServerPackets, ServerSends
       DEF HandleDuplicate, NetTypeOK
  <2>2. ServerTypeOK' /\ AnswerHasRequest'
    BY <1>6, Received, Buffers
       DEF HandleDuplicate, ServerTypeOK, AnswerHasRequest
  <2>3. QED BY <1>1, <2>1, <2>2
<1>7. CASE HandleGap
  <2>1. NetTypeOK'
    BY <1>2, <1>7, Queues, ServerPackets, ServerSends
       DEF HandleGap, NetTypeOK
  <2>2. ServerTypeOK' /\ AnswerHasRequest'
    BY <1>7, Received, Buffers
       DEF HandleGap, ServerTypeOK, AnswerHasRequest, sendVars
  <2>3. QED BY <1>1, <2>1, <2>2
<1>8. CASE HandleRequest
  <2> DEFINE p == Head(c2s)
             reset == IsReset(p)
             base == IF reset THEN 0 ELSE sExpected
             ack == [AckReply(Next12(base), TRUE)
                       EXCEPT !.seq = IF reset THEN 0 ELSE sTx]
  <2>1. /\ p.ack \in SeqNr /\ p.msg \in 1 .. Len(Program) /\ p.boot \in Nat
        /\ c2s # <<>>
    BY <1>8, Received DEF HandleRequest
  <2>2. base \in SeqNr /\ Next12(base) \in SeqNr
    BY <1>2, SeqArithmetic
  <2>3. ack \in ServerPacket
    <3>1. AckReply(Next12(base), TRUE) \in ServerPacket
      BY <2>2, ServerPackets
    <3>2. QED BY <1>2, <3>1 DEF ServerPacket
  <2>4. [msg |-> p.msg, boot |-> p.boot] \in Request
    BY <2>1 DEF Request
  <2>5. NetTypeOK'
    <3>1. Append(s2c, ack) \in Seq(ServerPacket)
      BY <2>3, ServerSends
    <3>2. s2c \o <<ack, ack>> \in Seq(ServerPacket)
      <4>1. <<ack, ack>> \in Seq(ServerPacket)
        BY <2>3
      <4>2. QED BY <4>1, ConcatProperties DEF NetTypeOK
    <3>3. s2c' \in Seq(ServerPacket)
      <4>1. s2c' = Append(s2c, ack) \/ s2c' = s2c \o <<ack, ack>>
        BY <1>8 DEF HandleRequest
      <4>2. QED BY <3>1, <3>2, <4>1
    <3>4. c2s' \in Seq(ClientPacket) /\ UNCHANGED <<lost, spurious>>
      BY <1>8, Queues DEF HandleRequest
    <3>5. QED BY <3>3, <3>4 DEF NetTypeOK
  <2>6. sDone' \in Seq(Request) /\ sDone' # <<>>
    <3>1. sDone' = Append(sDone, [msg |-> p.msg, boot |-> p.boot])
      BY <1>8 DEF HandleRequest
    <3>2. QED BY <2>4, <3>1, AppendProperties DEF ServerTypeOK
  <2>7. /\ sTx' \in SeqNr /\ sAcked' \in SeqNr /\ sExpected' \in SeqNr
        /\ UNCHANGED <<sPend, sOld>>
    BY <1>2, <1>8, <2>1, <2>2 DEF HandleRequest, ServerTypeOK
  <2>8. sBuf' \subseteq ServerPacket
    <3>1. sBuf' = {} \/ sBuf' = Unacked(p.ack)
      BY <1>8 DEF HandleRequest
    <3>2. QED BY <2>1, <3>1, Buffers
  <2>9. /\ sMode' \in {"idle", "stream", "window", "final"}
        /\ sOff' \in Nat /\ sRetries' \in 0 .. MaxRetries
    BY <1>8 DEF HandleRequest, ServerTypeOK
  <2>10. ServerTypeOK'
    BY <2>6, <2>7, <2>8, <2>9 DEF ServerTypeOK
  <2>11. QED BY <1>1, <2>5, <2>6, <2>10 DEF AnswerHasRequest
<1>9. CASE Retransmit
  <2>1. PICK q \in sPend : s2c' = Append(s2c, q) /\ sPend' = sPend \ {q}
    BY <1>9 DEF Retransmit
  <2>2. q \in ServerPacket
    BY <2>1 DEF ServerTypeOK
  <2>3. NetTypeOK'
    BY <1>9, <2>1, <2>2, ServerSends DEF Retransmit, NetTypeOK
  <2>4. ServerTypeOK' /\ AnswerHasRequest'
    BY <1>9, <2>1 DEF Retransmit, ServerTypeOK, AnswerHasRequest
  <2>5. QED BY <1>1, <2>3, <2>4
<1>10. CASE SendPacket
  <2> DEFINE p == ReplyPacket(sOff + 1)
  <2>1. sDone # <<>> /\ sOff + 1 \in Nat
    BY <1>10 DEF SendPacket, AnswerHasRequest, ServerTypeOK
  <2>2. p \in ServerPacket
    BY <2>1, ServerPackets
  <2>3. NetTypeOK'
    BY <1>10, <2>2, ServerSends DEF SendPacket, NetTypeOK
  <2>4. ServerTypeOK' /\ AnswerHasRequest'
    <3>1. /\ sBuf' = sBuf \cup {p} /\ sTx' = Next12(sTx) /\ sOff' = sOff + 1
          /\ sMode' \in {"stream", "final"} /\ sRetries' = 0
          /\ UNCHANGED <<sAcked, sExpected, sDone, sPend, sOld>>
      BY <1>10 DEF SendPacket
    <3>2. QED BY <1>2, <2>1, <2>2, <3>1 DEF ServerTypeOK, AnswerHasRequest
  <2>5. QED BY <1>1, <2>3, <2>4
<1>11. CASE WindowFull
  BY <1>1, <1>11
     DEF WindowFull, ServerTypeOK, NetTypeOK, AnswerHasRequest, netVars
<1>12. CASE DropRequest
  BY <1>1, <1>12, Queues
     DEF DropRequest, ServerTypeOK, NetTypeOK, AnswerHasRequest,
         serverVars, sendVars
<1>13. CASE WindowAck
  <2>1. NetTypeOK' BY <1>13, Queues DEF WindowAck, NetTypeOK
  <2>2. ServerTypeOK'
    BY <1>13, Received, Buffers DEF WindowAck, WindowReturn, ServerTypeOK
  <2>3. AnswerHasRequest'
    BY <1>13 DEF WindowAck, AnswerHasRequest
  <2>4. QED BY <1>1, <2>1, <2>2, <2>3
<1>14. CASE WindowNack
  BY <1>1, <1>14, Queues, Received, Buffers
     DEF WindowNack, ServerTypeOK, NetTypeOK, AnswerHasRequest
<1>15. CASE FinalAck
  <2>1. NetTypeOK' BY <1>15, Queues DEF FinalAck, NetTypeOK
  <2>2. ServerTypeOK' /\ AnswerHasRequest'
    BY <1>15, Received, Buffers
       DEF FinalAck, ServerTypeOK, AnswerHasRequest
  <2>3. QED BY <1>1, <2>1, <2>2
<1>16. CASE FinalNack
  BY <1>1, <1>16, Queues, Received, Buffers
     DEF FinalNack, ServerTypeOK, NetTypeOK, AnswerHasRequest
<1>17. QED
  BY <1>3, <1>4, <1>5, <1>6, <1>7, <1>8, <1>9, <1>10, <1>11, <1>12,
     <1>13, <1>14, <1>15, <1>16 DEF ServerThread

LEMMA ServerAlarmTyped ==
    ASSUME TypeInv, ServerAlarm, UNCHANGED clientVars
    PROVE  TypeInv'
<1> USE DEF TypeInv, TypeOK
<1>1. ClientTypeOK' /\ CallInProgram'
  BY DEF ClientTypeOK, CallInProgram, clientVars, sockVars, callVars
<1>2. NetTypeOK'
  BY DEF ServerAlarm, WindowTimeout, FinalTimeout, AlarmFires, NetTypeOK
<1>3. ServerTypeOK'
  BY Buffers DEF ServerAlarm, WindowTimeout, WindowReturn, FinalTimeout,
                 ServerTypeOK
<1>4. AnswerHasRequest'
  BY DEF ServerAlarm, WindowTimeout, FinalTimeout, AnswerHasRequest
<1>5. QED BY <1>1, <1>2, <1>3, <1>4

LEMMA NetStepTyped ==
    ASSUME TypeInv, NetStep
    PROVE  TypeInv'
<1> USE DEF TypeInv, TypeOK
<1>1. ClientTypeOK' /\ CallInProgram'
  BY DEF NetStep, ClientTypeOK, CallInProgram, clientVars, sockVars, callVars
<1>2. ServerTypeOK' /\ AnswerHasRequest'
  BY DEF NetStep, ServerTypeOK, AnswerHasRequest, serverVars, sendVars
<1>3. CASE LoseToServer
  <2>1. NetTypeOK' BY <1>3, Queues DEF LoseToServer, NetTypeOK
  <2>2. QED BY <1>1, <1>2, <2>1
<1>4. CASE LoseToClient
  <2>1. NetTypeOK' BY <1>4, Queues DEF LoseToClient, NetTypeOK
  <2>2. QED BY <1>1, <1>2, <2>1
<1>5. QED BY <1>3, <1>4 DEF NetStep

LEMMA TypeStep == TypeInv /\ [Next \/ Restart]_vars => TypeInv'
<1> SUFFICES ASSUME TypeInv, [Next \/ Restart]_vars PROVE TypeInv'
    OBVIOUS
<1>1. CASE Next
  BY <1>1, ClientThreadTyped, IstTyped, ClientAlarmTyped, ServerThreadTyped,
     ServerAlarmTyped, NetStepTyped DEF Next, ClientStep, ServerStep
<1>2. CASE Restart
  BY <1>2, RestartTyped
<1>3. CASE UNCHANGED vars
  BY <1>3 DEF TypeInv, TypeOK, NetTypeOK, ClientTypeOK, ServerTypeOK,
     CallInProgram, AnswerHasRequest, vars, netVars, clientVars, sockVars,
     callVars, serverVars, sendVars
<1>4. QED BY <1>1, <1>2, <1>3

(* Both ends and the wire keep to their types over any number of sessions: *)
(* the arithmetic of _ist, _handle_data and the sliding window never       *)
(* leaves 12 bits and the retry counters never exceed their limits.        *)
THEOREM TypeCorrect == RestartSpec => []TypeOK
<1>1. TypeInv => TypeOK
  BY DEF TypeInv
<1>2. QED BY InitTyped, TypeStep, <1>1, PTL DEF RestartSpec

(* The same for one session. *)
THEOREM TypeCorrectOnce == Spec => []TypeInv
<1>1. TypeInv /\ [Next]_vars => TypeInv'
  BY TypeStep
<1>2. QED BY InitTyped, <1>1, PTL DEF Spec

----------------------------------------------------------------------------

(* The requests in queue q come from session b, are numbered as they were  *)
(* sent, lie in lo .. hi and never go back: a retransmission repeats the   *)
(* last one only.                                                          *)
InQueueOrder(q, b, lo, hi) ==
    /\ \A i \in 1 .. Len(q) :
          q[i].msg # 0 => /\ q[i].seq = q[i].msg - 1
                          /\ q[i].boot = b
                          /\ lo <= q[i].msg /\ q[i].msg <= hi
    /\ \A i, j \in 1 .. Len(q) :
          i < j /\ q[i].msg # 0 /\ q[j].msg # 0 => q[i].msg <= q[j].msg

(* What the client has sent and what the server has executed agree: the    *)
(* server expects the number after the last message it executed, and no    *)
(* request older than that one is still on the wire.                       *)
OrderInv ==
    /\ cBoot = 0
    /\ cPc \in {"discover", "call"} => cTx = cMsg - 1
    /\ cPc \in {"send", "recv", "recvd"} => cTx = cMsg
    /\ sExpected = Len(sDone)
    /\ Len(sDone) <= cMsg /\ Len(sDone) <= Len(Program)
    /\ InQueueOrder(c2s, cBoot, Len(sDone), cMsg)
    /\ InOrderOnce

(* Of the session under way n messages were executed: the client has sent  *)
(* those up to cMsg, and no request before the last one executed is still  *)
(* on the wire.                                                            *)
SentSoFar(n) ==
    /\ cPc \in {"discover", "call"} => cTx = cMsg - 1
    /\ cPc \in {"send", "recv", "recvd"} => cTx = cMsg
    /\ n <= cMsg
    /\ InQueueOrder(c2s, cBoot, n, cMsg)

(* Facts about such a queue. *)

LEMMA QueueTail ==
    ASSUME NEW q \in Seq(ClientPacket), q # <<>>,
           NEW b, NEW lo \in Nat, NEW hi \in Nat, InQueueOrder(q, b, lo, hi)
    PROVE  /\ InQueueOrder(Tail(q), b, lo, hi)
           /\ Head(q).msg # 0 => InQueueOrder(Tail(q), b, Head(q).msg, hi)
<1>1. /\ Tail(q) \in Seq(ClientPacket) /\ Len(Tail(q)) = Len(q) - 1
      /\ Head(q) = q[1] /\ Len(q) \in Nat \ {0}
      /\ \A i \in 1 .. Len(Tail(q)) : Tail(q)[i] = q[i + 1]
  BY HeadTailProperties, EmptySeq, LenProperties
<1>2. \A i \in 1 .. Len(Tail(q)) : i + 1 \in 1 .. Len(q) /\ 1 < i + 1
  BY <1>1
<1>3. 1 \in 1 .. Len(q)
  BY <1>1
<1>4. \A i, j \in 1 .. Len(Tail(q)) : i < j => i + 1 < j + 1
  OBVIOUS
<1>5. QED BY <1>1, <1>2, <1>3, <1>4 DEF InQueueOrder

LEMMA QueueAppendAck ==
    ASSUME NEW q \in Seq(ClientPacket), NEW p \in ClientPacket, p.msg = 0,
           NEW b, NEW lo \in Nat, NEW hi \in Nat, InQueueOrder(q, b, lo, hi)
    PROVE  InQueueOrder(Append(q, p), b, lo, hi)
<1>1. /\ Len(Append(q, p)) = Len(q) + 1 /\ Append(q, p)[Len(q) + 1] = p
      /\ \A i \in 1 .. Len(q) : Append(q, p)[i] = q[i]
      /\ Len(q) \in Nat
  BY AppendProperties, LenProperties
<1>2. \A i \in 1 .. Len(q) + 1 : i \in 1 .. Len(q) \/ i = Len(q) + 1
  BY <1>1
<1>3. QED BY <1>1, <1>2, SMTT(30) DEF InQueueOrder

LEMMA QueueAppendRequest ==
    ASSUME NEW q \in Seq(ClientPacket), NEW p \in ClientPacket,
           NEW b, NEW lo \in Nat, NEW hi \in Nat \ {0}, lo <= hi,
           p.msg = hi, p.seq = hi - 1, p.boot = b,
           InQueueOrder(q, b, lo, hi)
    PROVE  InQueueOrder(Append(q, p), b, lo, hi)
<1>1. /\ Len(Append(q, p)) = Len(q) + 1 /\ Append(q, p)[Len(q) + 1] = p
      /\ \A i \in 1 .. Len(q) : Append(q, p)[i] = q[i]
      /\ Len(q) \in Nat
  BY AppendProperties, LenProperties
<1>2. \A i \in 1 .. Len(q) + 1 : i \in 1 .. Len(q) \/ i = Len(q) + 1
  BY <1>1
<1> DEFINE r == Append(q, p)
<1> DEFINE n == Len(q)
<1>3. /\ Len(r) = n + 1 /\ r[n + 1] = p /\ n \in Nat
      /\ \A i \in 1 .. n : r[i] = q[i]
  BY <1>1
<1>4. \A i \in 1 .. n : q[i].msg # 0 => /\ q[i].seq = q[i].msg - 1 /\ q[i].boot = b
                                        /\ lo <= q[i].msg /\ q[i].msg <= hi
  BY DEF InQueueOrder
<1>5. \A i, j \in 1 .. n : i < j /\ q[i].msg # 0 /\ q[j].msg # 0 => q[i].msg <= q[j].msg
  BY DEF InQueueOrder
<1>6. \A i \in 1 .. n + 1 : i \in 1 .. n \/ i = n + 1
  BY <1>3
<1>7. SUFFICES InQueueOrder(r, b, lo, hi)
  OBVIOUS
<1> HIDE DEF r, n
<1>8. \A i \in 1 .. n + 1 :
         r[i].msg # 0 => /\ r[i].seq = r[i].msg - 1 /\ r[i].boot = b
                         /\ lo <= r[i].msg /\ r[i].msg <= hi
  BY <1>3, <1>4, <1>6, SMTT(30)
<1>9. \A i, j \in 1 .. n + 1 : i < j => i \in 1 .. n
  BY <1>3
<1>10. \A i, j \in 1 .. n + 1 : i < j /\ r[i].msg # 0 /\ r[j].msg # 0 => r[i].msg <= r[j].msg
  BY <1>3, <1>4, <1>5, <1>6, <1>9, SMTT(30)
<1>11. QED BY <1>3, <1>8, <1>10 DEF InQueueOrder

LEMMA QueueRaise ==
    ASSUME NEW q \in Seq(ClientPacket),
           NEW b, NEW lo \in Nat, NEW hi \in Nat, InQueueOrder(q, b, lo, hi)
    PROVE  InQueueOrder(q, b, lo, hi + 1)
<1>1. \A p \in ClientPacket : p.msg \in Int
  <2>1. Len(Program) \in Nat
    BY LenProperties
  <2>2. QED BY <2>1 DEF ClientPacket
<1>2. \A i \in 1 .. Len(q) : q[i].msg \in Int
  BY <1>1, ElementOfSeq
<1>3. \A m \in Int : m <= hi => m <= hi + 1
  OBVIOUS
<1>4. QED BY <1>2, <1>3 DEF InQueueOrder

(* A session that fits the sequence numbers never wraps them. *)
LEMMA NoWrap ==
    ASSUME Len(Program) < SeqMod
    PROVE  /\ Len(Program) \in Nat
           /\ \A x \in 0 .. Len(Program) - 1 : Next12(x) = x + 1
           /\ \A x \in 1 .. Len(Program) : Prev12(x) = x - 1
           /\ Prev12(0) = SeqMod - 1
<1>1. Len(Program) \in Nat
  BY LenProperties
<1>2. \A x \in 0 .. SeqMod - 1 : x % SeqMod = x
  OBVIOUS
<1>3. (0 - 1) % SeqMod = SeqMod - 1
  OBVIOUS
<1>4. QED BY <1>1, <1>2, <1>3 DEF Next12, Prev12

LEMMA InitOrdered == Init => OrderInv
<1> SUFFICES ASSUME Init PROVE OrderInv
    OBVIOUS
<1>1. /\ cBoot = 0 /\ cPc = "discover" /\ cTx = 0 /\ cMsg = 1
      /\ sExpected = 0 /\ sDone = <<>> /\ c2s = <<Discovery>>
  BY DEF Init, ClientInit, ServerInit
<1>2. Len(Program) \in Nat /\ Len(sDone) = 0
  BY <1>1, LenProperties
<1>3. InQueueOrder(c2s, cBoot, 0, 1)
  BY <1>1 DEF InQueueOrder, Discovery
<1>4. QED BY <1>1, <1>2, <1>3 DEF OrderInv, InOrderOnce

(* The caller's thread: it sends message cMsg, numbered cMsg - 1, or an    *)
(* acknowledgment, and raises cMsg.                                        *)
LEMMA ClientThreadSends ==
    ASSUME TypeInv, NEW n \in Nat, SentSoFar(n), Len(Program) < SeqMod,
           ClientThread
    PROVE  SentSoFar(n)'
<1>1. /\ c2s \in Seq(ClientPacket) /\ cMsg \in Nat \ {0}
      /\ n <= cMsg
  BY LenProperties DEF TypeInv, TypeOK, NetTypeOK, ClientTypeOK, SentSoFar
<1>2. cBoot' = cBoot
  BY DEF ClientThread, Discovered, DiscoverTimeout, SendCall, SendAcked,
         SendRetry, RecvFin, RecvReturn, RecvNack, RecvWindow, RecvTimeout,
         callVars
<1>3. InQueueOrder(c2s, cBoot, n, cMsg)
  BY DEF SentSoFar
<1>4. InQueueOrder(c2s, cBoot, n, cMsg + 1)
  BY <1>1, <1>3, QueueRaise
<1>5. ASSUME NEW p \in ClientPacket, p.msg = 0
      PROVE  InQueueOrder(Append(c2s, p), cBoot, n, cMsg)
  BY <1>1, <1>3, <1>5, QueueAppendAck
<1>6. \A b \in BOOLEAN : AckPacket(b) \in ClientPacket /\ AckPacket(b).msg = 0
  BY ClientPackets DEF AckPacket, TypeInv
<1>7. Discovery \in ClientPacket /\ Discovery.msg = 0
  BY ClientPackets DEF Discovery, TypeInv
<1>8. ASSUME cPc \in {"call", "send"}
      PROVE  InQueueOrder(Append(c2s, DataPacket(cMsg - 1, cMsg)),
                          cBoot, n, cMsg)
  <2>1. cMsg \in 1 .. Len(Program) /\ cMsg - 1 \in SeqNr
    BY <1>1, <1>8, NoWrap DEF TypeInv, CallInProgram, SeqNr
  <2>2. DataPacket(cMsg - 1, cMsg) \in ClientPacket
    BY <2>1, ClientPackets DEF TypeInv
  <2>4. DataPacket(cMsg - 1, cMsg).msg = cMsg
        /\ DataPacket(cMsg - 1, cMsg).seq = cMsg - 1
        /\ DataPacket(cMsg - 1, cMsg).boot = cBoot
    BY <1>1 DEF DataPacket
  <2>5. QED BY <1>1, <1>3, <2>2, <2>4, QueueAppendRequest
<1>9. CASE Discovered
  BY <1>1, <1>2, <1>3, <1>9 DEF Discovered, SentSoFar, sockVars, netVars
<1>10. CASE DiscoverTimeout
  <2>1. c2s' = c2s \/ c2s' = Append(c2s, Discovery)
    BY <1>10 DEF DiscoverTimeout
  <2>2. InQueueOrder(c2s', cBoot, n, cMsg)
    BY <1>3, <1>5, <1>7, <2>1
  <2>3. QED BY <1>1, <1>2, <1>10, <2>2
            DEF DiscoverTimeout, SentSoFar, sockVars
<1>11. CASE SendCall
  <2>1. cPc = "call" /\ cTx = cMsg - 1
    BY <1>11 DEF SendCall, SentSoFar
  <2>2. cMsg - 1 \in 0 .. Len(Program) - 1
    BY <1>1, <2>1, NoWrap DEF TypeInv, CallInProgram
  <2>3. cTx' = cMsg
    BY <1>1, <1>11, <2>1, <2>2, NoWrap DEF SendCall
  <2>4. InQueueOrder(c2s', cBoot, n, cMsg)
    BY <1>8, <1>11, <2>1 DEF SendCall
  <2>5. cMsg' = cMsg /\ cPc' = "send"
    BY <1>11 DEF SendCall
  <2>6. QED BY <1>1, <1>2, <2>3, <2>4, <2>5 DEF SentSoFar
<1>12. CASE SendAcked
  <2>1. cTx' = cTx /\ c2s' = c2s /\ cPc = "send" /\ cTx = cMsg
    BY <1>12 DEF SendAcked, sockVars, netVars, SentSoFar
  <2>2. CASE Program[cMsg].recv
    BY <1>1, <1>2, <1>3, <1>12, <2>1, <2>2 DEF SendAcked, SentSoFar
  <2>3. CASE ~Program[cMsg].recv
    BY <1>1, <1>2, <1>4, <1>12, <2>1, <2>3 DEF SendAcked, SentSoFar
  <2>4. QED BY <2>2, <2>3
<1>13. CASE SendRetry
  <2>1. cPc = "send" /\ cTx = cMsg /\ cMsg' = cMsg
    BY <1>13 DEF SendRetry, SentSoFar
  <2>2. cMsg \in 1 .. Len(Program)
    BY <1>1, <2>1, NoWrap DEF TypeInv, CallInProgram
  <2>3. Prev12(cTx) = cMsg - 1
    BY <2>1, <2>2, NoWrap
  <2>4. \/ c2s' = Append(c2s, DataPacket(cMsg - 1, cMsg))
           /\ cPc' = cPc /\ cTx' = cTx
        \/ c2s' = c2s /\ cPc' = "failed"
    BY <1>13, <2>3 DEF SendRetry
  <2>5. InQueueOrder(c2s', cBoot, n, cMsg)
    BY <1>3, <1>8, <2>1, <2>4
  <2>6. QED BY <1>1, <1>2, <2>1, <2>4, <2>5 DEF SentSoFar
<1>14. CASE RecvFin
  <2>1. cPc = "recv" /\ cPc' = "recvd" /\ cTx' = cTx /\ cMsg' = cMsg
        /\ c2s' = Append(c2s, AckPacket(TRUE))
    BY <1>14 DEF RecvFin, sockVars
  <2>2. InQueueOrder(c2s', cBoot, n, cMsg)
    BY <1>5, <1>6, <2>1
  <2>3. QED BY <1>1, <1>2, <2>1, <2>2 DEF SentSoFar
<1>15. CASE RecvReturn
  <2>1. cPc = "recvd" /\ cTx = cMsg /\ cMsg' = cMsg + 1 /\ c2s' = c2s
        /\ cTx' = cTx /\ cPc' \in {"call", "done"}
    BY <1>15 DEF RecvReturn, SentSoFar, netVars
  <2>2. QED BY <1>1, <1>2, <1>4, <2>1 DEF SentSoFar
<1>16. CASE RecvNack \/ RecvWindow
  <2>1. /\ \E b \in BOOLEAN : c2s' = Append(c2s, AckPacket(b))
        /\ cPc' = cPc /\ cTx' = cTx /\ cMsg' = cMsg
    BY <1>16 DEF RecvNack, RecvWindow, sockVars, callVars
  <2>2. InQueueOrder(c2s', cBoot, n, cMsg)
    BY <1>5, <1>6, <2>1
  <2>3. QED BY <1>1, <1>2, <2>1, <2>2 DEF SentSoFar
<1>17. CASE RecvTimeout
  <2>1. cPc' = "failed" /\ cMsg' = cMsg /\ c2s' = c2s
    BY <1>17 DEF RecvTimeout, netVars
  <2>2. QED BY <1>1, <1>2, <1>3, <2>1 DEF SentSoFar
<1>18. QED
  BY <1>9, <1>10, <1>11, <1>12, <1>13, <1>14, <1>15, <1>16, <1>17
     DEF ClientThread

LEMMA ClientThreadOrdered ==
    ASSUME TypeInv, OrderInv, Len(Program) < SeqMod,
           ClientThread, UNCHANGED serverVars
    PROVE  OrderInv'
<1>1. PICK n \in Nat : n = Len(sDone)
  BY LenProperties DEF TypeInv, TypeOK, ServerTypeOK
<1>2. SentSoFar(n)
  BY <1>1 DEF OrderInv, SentSoFar
<1>3. SentSoFar(n)'
  BY <1>2, ClientThreadSends
<1>4. UNCHANGED <<sExpected, sDone>>
  BY DEF serverVars
<1>5. cBoot' = cBoot
  BY DEF ClientThread, Discovered, DiscoverTimeout, SendCall, SendAcked,
         SendRetry, RecvFin, RecvReturn, RecvNack, RecvWindow, RecvTimeout,
         callVars
<1>6. QED BY <1>1, <1>3, <1>4, <1>5 DEF OrderInv, SentSoFar, InOrderOnce

(* Neither _ist nor the alarm touches what the order depends on. *)
LEMMA InterruptsOrdered ==
    ASSUME OrderInv, Ist \/ ClientAlarm, UNCHANGED serverVars
    PROVE  OrderInv'
<1>1. UNCHANGED <<cBoot, cPc, cTx, cMsg, c2s, sExpected, sDone>>
  BY DEF Ist, IstInform, IstData, ClientAlarm, Alarm, sockVars, callVars,
         serverVars
<1>2. QED BY <1>1 DEF OrderInv, InOrderOnce

(* Losing a packet, or reading one that starts nothing, keeps the order. *)
LEMMA PacketGoneOrdered ==
    ASSUME TypeInv, OrderInv, c2s # <<>>, c2s' = Tail(c2s),
           UNCHANGED <<cBoot, cPc, cTx, cMsg, sExpected, sDone>>
    PROVE  OrderInv'
<1>1. c2s \in Seq(ClientPacket) /\ cMsg \in Nat /\ Len(sDone) \in Nat
  BY LenProperties
     DEF TypeInv, TypeOK, NetTypeOK, ClientTypeOK, ServerTypeOK
<1>2. InQueueOrder(Tail(c2s), cBoot, Len(sDone), cMsg)
  BY <1>1, QueueTail DEF OrderInv
<1>3. InOrderOnce'
  BY DEF OrderInv, InOrderOnce
<1>4. QED BY <1>2, <1>3 DEF OrderInv

(* The request the server dispatches is the one after the last: number 0   *)
(* is a duplicate as long as it can come, so no session is ever reset.     *)
LEMMA RequestOrdered ==
    ASSUME TypeInv, OrderInv, Len(Program) < SeqMod,
           HandleRequest, UNCHANGED clientVars
    PROVE  OrderInv'
<1> DEFINE p == Head(c2s)
           n == Len(sDone)
<1>1. /\ c2s \in Seq(ClientPacket) /\ c2s # <<>> /\ c2s' = Tail(c2s)
      /\ cMsg \in Nat /\ n \in Nat /\ sDone \in Seq(Request)
      /\ n <= cMsg /\ n <= Len(Program) /\ sExpected = n
      /\ Len(Program) \in Nat
  BY LenProperties
     DEF TypeInv, TypeOK, NetTypeOK, ClientTypeOK, ServerTypeOK,
         HandleRequest, OrderInv
<1>2. p.msg \in 1 .. Len(Program)
  BY <1>1, Received DEF TypeInv, HandleRequest
<1>3. /\ p.seq = p.msg - 1 /\ p.boot = 0 /\ n <= p.msg /\ p.msg <= cMsg
  <2>1. p = c2s[1] /\ 1 \in 1 .. Len(c2s)
    BY <1>1, HeadTailProperties, EmptySeq, LenProperties
  <2>2. QED BY <1>2, <2>1 DEF OrderInv, InQueueOrder
<1>4. ~IsReset(p)
  <2>1. SUFFICES ASSUME p.seq = 0, p.seq # n, p.seq # Prev12(n) PROVE FALSE
    BY <1>1 DEF IsReset, IsExpected, IsDuplicate
  <2>2. p.msg = 1 /\ n \in {0, 1}
    BY <1>1, <1>2, <1>3, <2>1
  <2>3. n = 1
    BY <2>1, <2>2
  <2>4. 1 \in 1 .. Len(Program)
    BY <1>1, <2>3
  <2>5. Prev12(n) = 0
    BY <2>3, <2>4, NoWrap
  <2>6. QED BY <2>1, <2>5
<1>5. p.seq = n
  BY <1>1, <1>4 DEF HandleRequest, IsExpected
<1>6. p.msg = n + 1
  BY <1>1, <1>2, <1>3, <1>5
<1>7. sExpected' = n + 1
  <2>1. n \in 0 .. Len(Program) - 1
    BY <1>1, <1>2, <1>6
  <2>2. sExpected' = Next12(n)
    BY <1>1, <1>4 DEF HandleRequest
  <2>3. QED BY <2>1, <2>2, NoWrap
<1>8. /\ sDone' = Append(sDone, [msg |-> n + 1, boot |-> 0])
      /\ Len(sDone') = n + 1 /\ InOrderOnce'
  <2>1. sDone' = Append(sDone, [msg |-> n + 1, boot |-> 0])
    BY <1>3, <1>6 DEF HandleRequest
  <2>2. [msg |-> n + 1, boot |-> 0] \in Request
    BY <1>1, <1>2, <1>6 DEF Request
  <2>3. /\ Len(sDone') = n + 1
        /\ sDone'[n + 1] = [msg |-> n + 1, boot |-> 0]
        /\ \A i \in 1 .. n : sDone'[i] = sDone[i]
    BY <1>1, <2>1, <2>2, AppendProperties
  <2>4. \A i \in 1 .. n : sDone[i] = [msg |-> i, boot |-> 0]
    BY DEF OrderInv, InOrderOnce
  <2>5. \A i \in 1 .. n + 1 : i \in 1 .. n \/ i = n + 1
    BY <1>1
  <2>6. QED BY <2>1, <2>3, <2>4, <2>5 DEF InOrderOnce
<1>9. InQueueOrder(c2s', cBoot, n + 1, cMsg)
  <2>1. InQueueOrder(Tail(c2s), cBoot, p.msg, cMsg)
    BY <1>1, <1>2, QueueTail DEF OrderInv
  <2>2. QED BY <1>1, <1>6, <2>1
<1>10. /\ n + 1 <= cMsg /\ n + 1 <= Len(Program)
  BY <1>1, <1>2, <1>3, <1>6
<1>11. UNCHANGED <<cBoot, cPc, cTx, cMsg>>
  BY DEF clientVars, sockVars, callVars
<1>12. QED BY <1>7, <1>8, <1>9, <1>10, <1>11 DEF OrderInv

LEMMA ServerOrdered ==
    ASSUME TypeInv, OrderInv, Len(Program) < SeqMod,
           ServerThread \/ ServerAlarm, UNCHANGED clientVars
    PROVE  OrderInv'
<1>1. UNCHANGED <<cBoot, cPc, cTx, cMsg>>
  BY DEF clientVars, sockVars, callVars
<1>2. CASE HandleRequest
  BY <1>2, RequestOrdered
<1>3. CASE \/ HandleDiscovery \/ HandleAck \/ HandleNack
           \/ HandleDuplicate \/ HandleGap \/ DropRequest
           \/ WindowAck \/ WindowNack \/ FinalAck \/ FinalNack
  <2>1. c2s # <<>> /\ c2s' = Tail(c2s) /\ UNCHANGED <<sExpected, sDone>>
    BY <1>3 DEF HandleDiscovery, HandleAck, HandleNack, HandleDuplicate,
                HandleGap, DropRequest, WindowAck, WindowNack, FinalAck,
                FinalNack, serverVars
  <2>2. QED BY <1>1, <2>1, PacketGoneOrdered
<1>4. CASE Retransmit \/ SendPacket \/ WindowFull \/ ServerAlarm
  <2>1. UNCHANGED <<c2s, sExpected, sDone>>
    BY <1>4 DEF Retransmit, SendPacket, WindowFull, ServerAlarm,
                WindowTimeout, FinalTimeout, netVars
  <2>2. QED BY <1>1, <2>1 DEF OrderInv, InOrderOnce
<1>5. QED BY <1>2, <1>3, <1>4 DEF ServerThread

LEMMA NetOrdered ==
    ASSUME TypeInv, OrderInv, NetStep
    PROVE  OrderInv'
<1>1. UNCHANGED <<cBoot, cPc, cTx, cMsg, sExpected, sDone>>
  BY DEF NetStep, clientVars, sockVars, callVars, serverVars
<1>2. CASE LoseToServer
  BY <1>1, <1>2, PacketGoneOrdered DEF LoseToServer
<1>3. CASE LoseToClient
  BY <1>1, <1>3 DEF LoseToClient, OrderInv, InOrderOnce
<1>4. QED BY <1>2, <1>3 DEF NetStep

LEMMA OrderStep ==
    ASSUME TypeInv, OrderInv, Len(Program) < SeqMod, [Next]_vars
    PROVE  OrderInv'
<1>1. CASE ClientStep
  BY <1>1, ClientThreadOrdered, InterruptsOrdered DEF ClientStep
<1>2. CASE ServerStep
  BY <1>2, ServerOrdered DEF ServerStep
<1>3. CASE NetStep
  BY <1>3, NetOrdered
<1>4. CASE UNCHANGED vars
  BY <1>4 DEF OrderInv, InOrderOnce, vars, netVars, clientVars, sockVars,
              callVars, serverVars
<1>5. QED BY <1>1, <1>2, <1>3, <1>4 DEF Next

(* The server executes the messages of a session in the order the client   *)
(* sent them, none twice and none left out (udprdma_send, _handle_data),   *)
(* for every program shorter than the sequence space, every window, every  *)
(* number of losses and early alarms.                                      *)
THEOREM RequestsInOrder ==
    ASSUME Len(Program) < SeqMod
    PROVE  Spec => []InOrderOnce
<1>1. Init => TypeInv /\ OrderInv
  BY InitTyped, InitOrdered
<1>2. TypeInv /\ OrderInv /\ [Next]_vars => TypeInv' /\ OrderInv'
  BY TypeStep, OrderStep
<1>3. OrderInv => InOrderOnce
  BY DEF OrderInv
<1>4. QED BY <1>1, <1>2, <1>3, PTL DEF Spec

----------------------------------------------------------------------------
(* Sessions one after the other against one server, each at any point      *)
(* where the client is reset, after a failed operation too.                *)

(* The last message of the session under way that the server executed. *)
Reached ==
    IF sDone # <<>> /\ Answered.boot = cBoot THEN Answered.msg ELSE 0

(* Nothing of the session reached the server: it sent the client nothing   *)
(* but INFORM, so the client is at its first message, numbered 0, and the  *)
(* server will not take that number for the last one once more.            *)
Fresh ==
    /\ sExpected # 1 /\ ~Busy
    /\ cMsg = 1 /\ cPc \notin {"recv", "recvd"} /\ "ACK" \notin cEv
    /\ \A i \in 1 .. Len(c2s) : ClientKind(c2s[i]) # "clientAck"
    /\ \A i \in 1 .. Len(s2c) : ~s2c[i].isAck

SessionInv ==
    /\ SessionsInOrder
    /\ sDone # <<>> => Answered.boot <= cBoot
    /\ SentSoFar(Reached) /\ Reached <= Len(Program)
    /\ IF Reached = 0 THEN Fresh ELSE sExpected = Reached

(* The server is not about to take number 0 for a duplicate when the       *)
(* client starts again (IsDuplicate is tested before IsReset).             *)
KnownRestart == cBoot' # cBoot => sExpected # 1

LEMMA ReachedType ==
    ASSUME TypeInv
    PROVE  /\ Reached \in Nat /\ cBoot \in Nat /\ Len(Program) \in Nat
           /\ sDone # <<>> => /\ Answered \in Request /\ Answered.msg > 0
                              /\ Answered.msg \in Nat /\ Answered.boot \in Nat
<1>1. cBoot \in Nat /\ Len(Program) \in Nat /\ sDone \in Seq(Request)
  BY LenProperties DEF TypeInv, TypeOK, ClientTypeOK, ServerTypeOK
<1>2. ASSUME sDone # <<>> PROVE Answered \in Request
  BY <1>1, <1>2 DEF Answered
<1>3. \A r \in Request : r.msg \in Nat /\ r.msg > 0 /\ r.boot \in Nat
  BY <1>1 DEF Request
<1>4. QED BY <1>1, <1>2, <1>3 DEF Reached

(* Reading off the wire what starts nothing, and adding to it. *)
LEMMA WithoutHead ==
    ASSUME NEW S, NEW q \in Seq(S), q # <<>>
    PROVE  /\ Head(q) = q[1] /\ 1 \in 1 .. Len(q)
           /\ \A i \in 1 .. Len(Tail(q)) :
                 i + 1 \in 1 .. Len(q) /\ Tail(q)[i] = q[i + 1]
BY HeadTailProperties, EmptySeq, LenProperties

LEMMA OneMore ==
    ASSUME NEW S, NEW q \in Seq(S), NEW p \in S
    PROVE  \A i \in 1 .. Len(Append(q, p)) :
              \/ i \in 1 .. Len(q) /\ Append(q, p)[i] = q[i]
              \/ Append(q, p)[i] = p
<1>1. /\ Len(Append(q, p)) = Len(q) + 1 /\ Append(q, p)[Len(q) + 1] = p
      /\ \A i \in 1 .. Len(q) : Append(q, p)[i] = q[i]
      /\ Len(q) \in Nat
  BY AppendProperties, LenProperties
<1>2. \A i \in 1 .. Len(q) + 1 : i \in 1 .. Len(q) \/ i = Len(q) + 1
  BY <1>1
<1>3. QED BY <1>1, <1>2

LEMMA InitSession == Init => SessionInv
<1> SUFFICES ASSUME Init PROVE SessionInv
    OBVIOUS
<1>1. /\ cBoot = 0 /\ cPc = "discover" /\ cTx = 0 /\ cMsg = 1 /\ cEv = {}
      /\ sExpected = 0 /\ sDone = <<>> /\ c2s = <<Discovery>> /\ s2c = <<>>
      /\ sMode = "idle" /\ sPend = {}
  BY DEF Init, ClientInit, ServerInit, NetInit
<1>2. Len(Program) \in Nat /\ Len(sDone) = 0 /\ Len(s2c) = 0 /\ Reached = 0
  BY <1>1, LenProperties DEF Reached
<1>3. InQueueOrder(c2s, cBoot, 0, 1)
  BY <1>1 DEF InQueueOrder, Discovery
<1>4. SentSoFar(Reached)
  BY <1>1, <1>2, <1>3 DEF SentSoFar
<1>5. \A i \in 1 .. Len(c2s) : ClientKind(c2s[i]) # "clientAck"
  BY <1>1 DEF Discovery, ClientKind
<1>6. Fresh
  BY <1>1, <1>2, <1>5 DEF Fresh, Busy
<1>7. SessionsInOrder
  BY <1>2 DEF SessionsInOrder
<1>8. QED BY <1>1, <1>2, <1>4, <1>6, <1>7 DEF SessionInv

(* A step that executes nothing keeps the invariant when it keeps what the *)
(* client has sent, and Fresh.                                             *)
LEMMA NothingExecuted ==
    ASSUME TypeInv, SessionInv, UNCHANGED <<sDone, sExpected, cBoot>>,
           SentSoFar(Reached)', Fresh => Fresh'
    PROVE  SessionInv'
<1>1. Reached' = Reached
  BY DEF Reached, Answered
<1>2. SessionsInOrder'
  BY DEF SessionInv, SessionsInOrder
<1>3. (sDone # <<>> => Answered.boot <= cBoot)'
  BY DEF SessionInv, Answered
<1>4. QED BY <1>1, <1>2, <1>3 DEF SessionInv

LEMMA ClientThreadSession ==
    ASSUME TypeInv, SessionInv, Len(Program) < SeqMod,
           ClientThread, UNCHANGED serverVars
    PROVE  SessionInv'
<1>1. cBoot' = cBoot
  BY DEF ClientThread, Discovered, DiscoverTimeout, SendCall, SendAcked,
         SendRetry, RecvFin, RecvReturn, RecvNack, RecvWindow, RecvTimeout,
         callVars
<1>2. UNCHANGED <<sDone, sExpected, sMode, sPend>>
  BY DEF serverVars, sendVars
<1>3. SentSoFar(Reached)'
  <2>1. PICK n \in Nat : n = Reached
    BY ReachedType
  <2>2. SentSoFar(n)'
    BY <2>1, ClientThreadSends DEF SessionInv
  <2>3. Reached' = n
    BY <1>1, <1>2, <2>1 DEF Reached, Answered
  <2>4. QED BY <2>2, <2>3 DEF SentSoFar
<1>4. ASSUME Fresh PROVE Fresh'
  <2>1. /\ cMsg = 1 /\ cPc \notin {"recv", "recvd"} /\ "ACK" \notin cEv
        /\ \A i \in 1 .. Len(c2s) : ClientKind(c2s[i]) # "clientAck"
    BY <1>4 DEF Fresh
  <2>2. /\ c2s \in Seq(ClientPacket) /\ s2c' = s2c
    BY DEF TypeInv, TypeOK, NetTypeOK, ClientThread, Discovered,
           DiscoverTimeout, SendCall, SendAcked, SendRetry, RecvFin,
           RecvReturn, RecvNack, RecvWindow, RecvTimeout, netVars
  <2>3. ~SendAcked /\ ~RecvFin /\ ~RecvReturn /\ ~RecvNack /\ ~RecvWindow
        /\ ~RecvTimeout
    BY <2>1 DEF SendAcked, RecvFin, RecvReturn, RecvNack, RecvWindow,
                RecvTimeout
  <2>4. /\ cMsg' = 1 /\ cPc' \notin {"recv", "recvd"} /\ "ACK" \notin cEv'
    BY <2>1, <2>3 DEF ClientThread, Discovered, DiscoverTimeout, SendCall,
                      SendRetry
  <2>5. \/ c2s' = c2s
        \/ \E p \in ClientPacket : /\ c2s' = Append(c2s, p)
                                   /\ ClientKind(p) # "clientAck"
    <3>1. Discovery \in ClientPacket /\ ClientKind(Discovery) # "clientAck"
      BY ClientPackets DEF TypeInv, Discovery, ClientKind
    <3>2. ASSUME cPc \in {"call", "send"}, NEW s \in SeqNr
          PROVE  /\ DataPacket(s, cMsg) \in ClientPacket
                 /\ ClientKind(DataPacket(s, cMsg)) # "clientAck"
      <4>1. cMsg \in 1 .. Len(Program)
        BY <2>1, <3>2, LenProperties DEF TypeInv, CallInProgram
      <4>2. QED BY <2>1, <4>1, ClientPackets
                DEF TypeInv, DataPacket, ClientKind
    <3>3. cTx \in SeqNr /\ Prev12(cTx) \in SeqNr
      BY SeqArithmetic DEF TypeInv, TypeOK, ClientTypeOK
    <3>4. QED BY <2>3, <3>1, <3>2, <3>3
              DEF ClientThread, Discovered, DiscoverTimeout, SendCall,
                  SendRetry, netVars
  <2>6. \A i \in 1 .. Len(c2s') : ClientKind(c2s'[i]) # "clientAck"
    BY <2>1, <2>2, <2>5, OneMore
  <2>7. QED BY <1>2, <1>4, <2>2, <2>4, <2>6 DEF Fresh, Busy
<1>5. QED BY <1>1, <1>2, <1>3, <1>4, NothingExecuted

(* _ist and the alarm: a packet of a fresh session acknowledges nothing. *)
LEMMA InterruptsSession ==
    ASSUME TypeInv, SessionInv, Ist \/ ClientAlarm, UNCHANGED serverVars
    PROVE  SessionInv'
<1>1. UNCHANGED <<cBoot, cPc, cTx, cMsg, c2s, sExpected, sDone, sMode, sPend>>
  BY DEF Ist, IstInform, IstData, ClientAlarm, Alarm, sockVars, callVars,
         serverVars, sendVars
<1>2. SentSoFar(Reached)'
  BY <1>1 DEF SessionInv, SentSoFar, Reached, Answered
<1>3. ASSUME Fresh PROVE Fresh'
  <2>1. CASE Ist
    <3>1. s2c \in Seq(ServerPacket) /\ s2c # <<>> /\ s2c' = Tail(s2c)
      BY <2>1 DEF Ist, IstInform, IstData, TypeInv, TypeOK, NetTypeOK
    <3>2. /\ Head(s2c) = s2c[1] /\ 1 \in 1 .. Len(s2c)
          /\ \A i \in 1 .. Len(s2c') :
                i + 1 \in 1 .. Len(s2c) /\ s2c'[i] = s2c[i + 1]
      BY <3>1, WithoutHead
    <3>3. \A i \in 1 .. Len(s2c) : ~s2c[i].isAck
      BY <1>3 DEF Fresh
    <3>4. "ACK" \notin cEv'
      <4>1. "ACK" \notin Raises(Head(s2c))
        BY <3>2, <3>3 DEF Raises
      <4>2. QED BY <1>3, <2>1, <4>1 DEF Ist, IstInform, IstData, Fresh
    <3>5. \A i \in 1 .. Len(s2c') : ~s2c'[i].isAck
      BY <3>2, <3>3
    <3>6. QED BY <1>1, <1>3, <3>4, <3>5 DEF Fresh, Busy
  <2>2. CASE ClientAlarm
    BY <1>1, <1>3, <2>2 DEF ClientAlarm, Alarm, Fresh, Busy
  <2>3. QED BY <2>1, <2>2
<1>4. QED BY <1>1, <1>2, <1>3, NothingExecuted

(* The oldest packet from the client is gone, and nothing was executed. *)
LEMMA PacketGoneSession ==
    ASSUME TypeInv, SessionInv, c2s # <<>>, c2s' = Tail(c2s),
           UNCHANGED <<clientVars, sDone, sExpected>>,
           Fresh => /\ sMode' = "idle" /\ sPend' = {}
                    /\ \/ s2c' = s2c
                       \/ \E p \in ServerPacket :
                             s2c' = Append(s2c, p) /\ ~p.isAck
    PROVE  SessionInv'
<1>1. /\ UNCHANGED <<cBoot, cPc, cTx, cMsg, cEv>>
      /\ c2s \in Seq(ClientPacket) /\ s2c \in Seq(ServerPacket)
      /\ cMsg \in Nat
  BY LenProperties DEF clientVars, sockVars, callVars, TypeInv, TypeOK,
                       NetTypeOK, ClientTypeOK
<1>2. SentSoFar(Reached)'
  <2>1. PICK n \in Nat : n = Reached
    BY ReachedType
  <2>2. SentSoFar(n)
    BY <2>1 DEF SessionInv
  <2>3. InQueueOrder(Tail(c2s), cBoot, n, cMsg)
    BY <1>1, <2>2, QueueTail DEF SentSoFar
  <2>4. Reached' = n
    BY <1>1, <2>1 DEF Reached, Answered
  <2>5. QED BY <1>1, <2>2, <2>3, <2>4 DEF SentSoFar
<1>3. ASSUME Fresh PROVE Fresh'
  <2>1. \A i \in 1 .. Len(c2s') : ClientKind(c2s'[i]) # "clientAck"
    BY <1>1, <1>3, WithoutHead DEF Fresh
  <2>2. \A i \in 1 .. Len(s2c') : ~s2c'[i].isAck
    <3>1. \A i \in 1 .. Len(s2c) : ~s2c[i].isAck
      BY <1>3 DEF Fresh
    <3>2. CASE s2c' = s2c
      BY <3>1, <3>2
    <3>3. ASSUME NEW p \in ServerPacket, s2c' = Append(s2c, p), ~p.isAck
          PROVE  \A i \in 1 .. Len(s2c') : ~s2c'[i].isAck
      BY <1>1, <3>1, <3>3, OneMore
    <3>4. QED BY <1>3, <3>2, <3>3
  <2>3. QED BY <1>1, <1>3, <2>1, <2>2 DEF Fresh, Busy
<1>4. QED BY <1>1, <1>2, <1>3, NothingExecuted

(* The request at the head of the wire. *)
LEMMA HeadRequest ==
    ASSUME TypeInv, SessionInv, c2s # <<>>, ClientKind(Head(c2s)) = "request"
    PROVE  /\ Head(c2s).msg \in 1 .. Len(Program)
           /\ Head(c2s).msg \in Nat /\ Head(c2s).msg <= cMsg
           /\ Head(c2s).seq = Head(c2s).msg - 1
           /\ Head(c2s).boot = cBoot /\ Reached <= Head(c2s).msg
<1>1. c2s \in Seq(ClientPacket) /\ Len(Program) \in Nat
  BY LenProperties DEF TypeInv, TypeOK, NetTypeOK
<1>2. Head(c2s).msg \in 1 .. Len(Program)
  BY Received DEF TypeInv
<1>3. Head(c2s) = c2s[1] /\ 1 \in 1 .. Len(c2s)
  BY <1>1, WithoutHead
<1>4. InQueueOrder(c2s, cBoot, Reached, cMsg)
  BY DEF SessionInv, SentSoFar
<1>5. QED BY <1>1, <1>2, <1>3, <1>4 DEF InQueueOrder

(* A fresh session is at message 1, and the server takes it: as what it    *)
(* expects, or as a restart.                                               *)
LEMMA FreshIsTaken ==
    ASSUME TypeInv, SessionInv, Fresh,
           c2s # <<>>, ClientKind(Head(c2s)) = "request"
    PROVE  /\ Head(c2s).msg = 1 /\ Head(c2s).seq = 0
           /\ ~IsDuplicate(Head(c2s))
           /\ IsExpected(Head(c2s)) \/ IsReset(Head(c2s))
<1>1. Head(c2s).msg = 1 /\ Head(c2s).seq = 0
  <2>1. cMsg = 1
    BY DEF Fresh
  <2>2. Head(c2s).msg \in Nat /\ Head(c2s).msg <= 1 /\ Head(c2s).msg >= 1
        /\ Head(c2s).seq = Head(c2s).msg - 1
    BY <2>1, HeadRequest, LenProperties
  <2>3. QED BY <2>2
<1>2. sExpected \in 0 .. SeqMod - 1 /\ sExpected # 1
  BY DEF Fresh, TypeInv, TypeOK, ServerTypeOK, SeqNr
<1>3. 0 # (sExpected - 1) % SeqMod
  <2>1. CASE sExpected = 0
    <3>1. (0 - 1) % SeqMod = SeqMod - 1
      OBVIOUS
    <3>2. QED BY <2>1, <3>1
  <2>2. CASE sExpected # 0
    <3>1. \A x \in 0 .. SeqMod - 1 : x % SeqMod = x
      OBVIOUS
    <3>2. sExpected - 1 \in 0 .. SeqMod - 1 /\ sExpected - 1 # 0
      BY <1>2, <2>2
    <3>3. QED BY <3>1, <3>2
  <2>3. QED BY <2>1, <2>2
<1>4. QED BY <1>1, <1>3 DEF IsDuplicate, IsExpected, IsReset, Prev12

(* What the server dispatches is the next message of the session. *)
LEMMA RequestSession ==
    ASSUME TypeInv, SessionInv, Len(Program) < SeqMod,
           HandleRequest, UNCHANGED clientVars
    PROVE  SessionInv'
<1> DEFINE p == Head(c2s)
<1>0. PICK n \in Nat : n = Reached
  BY ReachedType
<1>1. /\ c2s \in Seq(ClientPacket) /\ c2s # <<>> /\ c2s' = Tail(c2s)
      /\ ClientKind(p) = "request" /\ sDone \in Seq(Request)
      /\ cMsg \in Nat /\ cBoot \in Nat /\ Len(Program) \in Nat
      /\ UNCHANGED <<cBoot, cPc, cTx, cMsg>>
  BY LenProperties, ReachedType
     DEF TypeInv, TypeOK, NetTypeOK, ClientTypeOK, ServerTypeOK,
         HandleRequest, clientVars, sockVars, callVars
<1>2. /\ p.msg \in 1 .. Len(Program) /\ p.msg \in Nat /\ p.msg <= cMsg
      /\ p.seq = p.msg - 1 /\ p.boot = cBoot /\ n <= p.msg
  BY <1>0, <1>1, HeadRequest
<1>3. p.msg = n + 1 /\ sExpected' = n + 1
  <2>1. CASE n = 0
    <3>1. Fresh
      BY <1>0, <2>1 DEF SessionInv
    <3>2. p.msg = 1 /\ p.seq = 0 /\ (IsExpected(p) \/ IsReset(p))
      BY <1>1, <3>1, FreshIsTaken
    <3>3. p.msg = 1 /\ p.seq = 0
      BY <1>1, <3>1, FreshIsTaken
    <3>4. sExpected' = Next12(0)
      BY <3>2, <3>3 DEF HandleRequest, IsExpected
    <3>5. 0 \in 0 .. Len(Program) - 1
      BY <1>1, <1>2
    <3>6. QED BY <2>1, <3>3, <3>4, <3>5, NoWrap
  <2>2. CASE n # 0
    <3>1. sExpected = n /\ n <= Len(Program)
      BY <1>0, <2>2 DEF SessionInv
    <3>2. ~IsReset(p)
      <4>1. SUFFICES ASSUME p.seq = 0, p.seq # n, p.seq # Prev12(n)
                     PROVE  FALSE
        BY <3>1 DEF IsReset, IsExpected, IsDuplicate
      <4>2. n = 1 /\ n \in 1 .. Len(Program)
        BY <1>1, <1>2, <2>2, <3>1, <4>1
      <4>3. Prev12(n) = 0
        BY <4>2, NoWrap
      <4>4. QED BY <4>1, <4>3
    <3>3. p.seq = n
      BY <3>1, <3>2 DEF HandleRequest, IsExpected
    <3>4. p.msg = n + 1 /\ n \in 0 .. Len(Program) - 1
      BY <1>1, <1>2, <3>3
    <3>5. sExpected' = Next12(n)
      BY <3>1, <3>2 DEF HandleRequest
    <3>6. QED BY <3>4, <3>5, NoWrap
  <2>3. QED BY <2>1, <2>2
<1>4. sDone' = Append(sDone, [msg |-> n + 1, boot |-> cBoot])
  BY <1>2, <1>3 DEF HandleRequest
<1>5. [msg |-> n + 1, boot |-> cBoot] \in Request
  BY <1>1, <1>2, <1>3 DEF Request
<1>6. PICK k \in Nat : k = Len(sDone)
  BY <1>1, LenProperties
<1>7. /\ Len(sDone') = k + 1
      /\ sDone'[k + 1] = [msg |-> n + 1, boot |-> cBoot]
      /\ \A i \in 1 .. k : sDone'[i] = sDone[i]
      /\ k = 0 <=> sDone = <<>>
  BY <1>1, <1>4, <1>5, <1>6, AppendProperties, EmptySeq, LenProperties
<1>8. sDone' # <<>> /\ Answered' = [msg |-> n + 1, boot |-> cBoot]
  BY <1>6, <1>7, EmptySeq DEF Answered
<1>9. Reached' = n + 1
  BY <1>1, <1>8 DEF Reached
<1>10. SessionsInOrder'
  <2> SUFFICES ASSUME NEW i \in 1 .. Len(sDone')
               PROVE  LET first == i = 1 \/ sDone'[i].boot # sDone'[i - 1].boot
                      IN  /\ sDone'[i].msg = IF first THEN 1
                                             ELSE sDone'[i - 1].msg + 1
                          /\ i > 1 => sDone'[i].boot >= sDone'[i - 1].boot
    BY DEF SessionsInOrder
  <2>1. CASE i \in 1 .. k
    <3>1. i = 1 \/ i - 1 \in 1 .. k
      BY <2>1
    <3>2. sDone'[i] = sDone[i] /\ i \in 1 .. Len(sDone)
          /\ (i = 1 \/ sDone'[i - 1] = sDone[i - 1])
      BY <1>6, <1>7, <2>1, <3>1
    <3>3. QED BY <3>2 DEF SessionInv, SessionsInOrder
  <2>2. CASE i = k + 1 /\ k = 0
    <3>1. n = 0
      BY <1>0, <1>7, <2>2 DEF Reached
    <3>2. QED BY <1>7, <2>2, <3>1
  <2>3. CASE i = k + 1 /\ k # 0
    <3>1. i # 1 /\ i - 1 = k /\ k \in 1 .. k
      BY <2>3
    <3>2. sDone'[i - 1] = Answered /\ Answered \in Request
          /\ sDone'[i] = [msg |-> n + 1, boot |-> cBoot]
      BY <1>6, <1>7, <2>3, <3>1, ReachedType DEF Answered
    <3>3. /\ Answered.boot <= cBoot /\ Answered.boot \in Nat
          /\ n = IF Answered.boot = cBoot THEN Answered.msg ELSE 0
      BY <1>0, <1>7, <2>3, ReachedType DEF SessionInv, Reached
    <3>4. QED BY <1>1, <3>1, <3>2, <3>3
  <2>4. QED BY <1>7, <2>1, <2>2, <2>3
<1>11. SentSoFar(Reached)'
  <2>1. SentSoFar(n)
    BY <1>0 DEF SessionInv
  <2>2. InQueueOrder(Tail(c2s), cBoot, p.msg, cMsg)
    BY <1>0, <1>1, <1>2, <2>1, QueueTail DEF SentSoFar
  <2>3. QED BY <1>1, <1>2, <1>3, <1>9, <2>1, <2>2 DEF SentSoFar
<1>12. (sDone # <<>> => Answered.boot <= cBoot)'
  BY <1>1, <1>8
<1>13. Reached' <= Len(Program) /\ sExpected' = Reached' /\ Reached' # 0
  BY <1>2, <1>3, <1>9
<1>14. QED BY <1>10, <1>11, <1>12, <1>13 DEF SessionInv

LEMMA ServerSession ==
    ASSUME TypeInv, SessionInv, Len(Program) < SeqMod,
           ServerThread \/ ServerAlarm, UNCHANGED clientVars
    PROVE  SessionInv'
<1>1. CASE HandleRequest
  BY <1>1, RequestSession
<1>2. CASE HandleDiscovery
  <2>1. Inform \in ServerPacket /\ ~Inform.isAck
    BY ServerPackets DEF Inform, TypeInv
  <2>2. /\ c2s # <<>> /\ c2s' = Tail(c2s) /\ s2c' = Append(s2c, Inform)
        /\ UNCHANGED <<sDone, sExpected, sMode, sPend>>
    BY <1>2 DEF HandleDiscovery, serverVars, sendVars
  <2>3. Fresh => sMode' = "idle" /\ sPend' = {}
    BY <2>2 DEF Fresh, Busy
  <2>4. QED BY <2>1, <2>2, <2>3, PacketGoneSession
<1>3. CASE HandleDuplicate \/ HandleGap
  <2>1. /\ c2s # <<>> /\ c2s' = Tail(c2s)
        /\ ClientKind(Head(c2s)) = "request"
        /\ UNCHANGED <<sDone, sExpected>>
    BY <1>3 DEF HandleDuplicate, HandleGap
  <2>2. ~Fresh
    BY <1>3, <2>1, FreshIsTaken DEF HandleDuplicate, HandleGap
  <2>3. QED BY <2>1, <2>2, PacketGoneSession
<1>4. CASE \/ HandleAck \/ HandleNack \/ DropRequest
           \/ WindowAck \/ WindowNack \/ FinalAck \/ FinalNack
  <2>1. c2s # <<>> /\ c2s' = Tail(c2s) /\ UNCHANGED <<sDone, sExpected>>
    BY <1>4 DEF HandleAck, HandleNack, DropRequest, WindowAck, WindowNack,
                FinalAck, FinalNack, serverVars
  <2>2. ~Fresh
    <3>1. ClientKind(Head(c2s)) = "clientAck" \/ sMode # "idle"
      BY <1>4 DEF HandleAck, HandleNack, DropRequest, WindowAck,
                  WindowNack, FinalAck, FinalNack
    <3>2. Head(c2s) = c2s[1] /\ 1 \in 1 .. Len(c2s)
      BY <2>1, WithoutHead DEF TypeInv, TypeOK, NetTypeOK
    <3>3. QED BY <3>1, <3>2 DEF Fresh, Busy
  <2>3. QED BY <2>1, <2>2, PacketGoneSession
<1>5. CASE Retransmit \/ SendPacket \/ WindowFull \/ ServerAlarm
  <2>1. UNCHANGED <<c2s, sExpected, sDone, cBoot, cPc, cTx, cMsg>>
    BY <1>5 DEF Retransmit, SendPacket, WindowFull, ServerAlarm,
                WindowTimeout, FinalTimeout, netVars, clientVars, sockVars,
                callVars
  <2>2. ~Fresh
    BY <1>5 DEF Retransmit, SendPacket, WindowFull, ServerAlarm,
                WindowTimeout, FinalTimeout, Fresh, Busy
  <2>3. SentSoFar(Reached)'
    BY <2>1 DEF SessionInv, SentSoFar, Reached, Answered
  <2>4. QED BY <2>1, <2>2, <2>3, NothingExecuted
<1>6. QED BY <1>1, <1>2, <1>3, <1>4, <1>5 DEF ServerThread

LEMMA NetSession ==
    ASSUME TypeInv, SessionInv, NetStep
    PROVE  SessionInv'
<1>1. CASE LoseToServer
  <2>1. /\ c2s # <<>> /\ c2s' = Tail(c2s) /\ s2c' = s2c
        /\ UNCHANGED <<clientVars, sDone, sExpected, sMode, sPend>>
    BY <1>1 DEF NetStep, LoseToServer, serverVars, sendVars
  <2>2. Fresh => sMode' = "idle" /\ sPend' = {}
    BY <2>1 DEF Fresh, Busy
  <2>3. QED BY <2>1, <2>2, PacketGoneSession
<1>2. CASE LoseToClient
  <2>1. UNCHANGED <<cBoot, cPc, cTx, cMsg, cEv, c2s, sExpected, sDone, sMode,
                    sPend>>
    BY <1>2 DEF NetStep, LoseToClient, clientVars, sockVars, callVars,
                serverVars, sendVars
  <2>2. SentSoFar(Reached)'
    BY <2>1 DEF SessionInv, SentSoFar, Reached, Answered
  <2>3. ASSUME Fresh PROVE Fresh'
    <3>1. /\ s2c \in Seq(ServerPacket) /\ s2c # <<>> /\ s2c' = Tail(s2c)
      BY <1>2 DEF LoseToClient, TypeInv, TypeOK, NetTypeOK
    <3>2. \A i \in 1 .. Len(s2c') : ~s2c'[i].isAck
      BY <2>3, <3>1, WithoutHead DEF Fresh
    <3>3. QED BY <2>1, <2>3, <3>2 DEF Fresh, Busy
  <2>4. QED BY <2>1, <2>2, <2>3, NothingExecuted
<1>3. QED BY <1>1, <1>2 DEF NetStep

(* A new client: whatever became of the old one, no packet of it is in     *)
(* flight and the server is idle.                                          *)
LEMMA RestartSession ==
    ASSUME TypeInv, SessionInv, Restart, sExpected # 1
    PROVE  SessionInv'
<1>1. /\ c2s = <<>> /\ s2c' = <<>> /\ ~Busy
      /\ cBoot' = cBoot + 1 /\ cPc' = "discover" /\ cTx' = 0 /\ cMsg' = 1
      /\ cEv' = {}
      /\ UNCHANGED <<sDone, sExpected, sMode, sPend>>
  BY DEF Restart, Reboot, serverVars, sendVars
<1>2. /\ sDone # <<>> => Answered.boot \in Nat /\ Answered.boot <= cBoot
      /\ cBoot \in Nat /\ Len(Program) \in Nat /\ Answered' = Answered
  BY <1>1, ReachedType DEF SessionInv, Answered
<1>3. Reached' = 0
  BY <1>1, <1>2 DEF Reached
<1>4. c2s' = <<[Discovery EXCEPT !.boot = cBoot + 1]>>
  BY DEF Restart, Reboot
<1>5. /\ Len(c2s') = 1 /\ c2s'[1].msg = 0 /\ c2s'[1].type = "DISCOVERY"
      /\ Len(s2c') = 0
  BY <1>1, <1>4 DEF Discovery
<1>6. InQueueOrder(c2s', cBoot', 0, 1)
  BY <1>5 DEF InQueueOrder
<1>7. SentSoFar(Reached)'
  BY <1>1, <1>3, <1>6 DEF SentSoFar
<1>8. Fresh'
  BY <1>1, <1>5 DEF Fresh, Busy, ClientKind
<1>9. SessionsInOrder'
  BY <1>1 DEF SessionInv, SessionsInOrder
<1>10. QED BY <1>1, <1>2, <1>3, <1>7, <1>8, <1>9 DEF SessionInv

LEMMA SessionStep ==
    ASSUME TypeInv, SessionInv, Len(Program) < SeqMod,
           [Next \/ Restart]_vars, [KnownRestart]_vars
    PROVE  SessionInv'
<1>1. CASE ClientStep
  BY <1>1, ClientThreadSession, InterruptsSession DEF ClientStep
<1>2. CASE ServerStep
  BY <1>2, ServerSession DEF ServerStep
<1>3. CASE NetStep
  BY <1>3, NetSession
<1>4. CASE Restart
  <2>1. cBoot \in Nat /\ cBoot' = cBoot + 1
    BY <1>4, ReachedType DEF Restart, Reboot
  <2>2. cBoot' # cBoot
    BY <2>1
  <2>3. sExpected # 1
    BY <2>2 DEF KnownRestart, vars, clientVars, callVars
  <2>4. QED BY <1>4, <2>3, RestartSession
<1>5. CASE UNCHANGED vars
  <2>1. UNCHANGED <<cBoot, cPc, cTx, cMsg, cEv, c2s, s2c, sExpected, sDone,
                    sMode, sPend>>
    BY <1>5 DEF vars, netVars, clientVars, sockVars, callVars, serverVars,
                sendVars
  <2>2. SentSoFar(Reached)' /\ (Fresh => Fresh')
    BY <2>1 DEF SessionInv, SentSoFar, Reached, Answered, Fresh, Busy
  <2>3. QED BY <2>1, <2>2, NothingExecuted
<1>6. QED BY <1>1, <1>2, <1>3, <1>4, <1>5 DEF Next

(* A server that keeps its numbers over resets of the client executes each *)
(* session's messages from the first on, in order and once, and none of an *)
(* earlier session after one of a later (_handle_data's reset of           *)
(* rx_seq_nr_expected), wherever the earlier session stopped - except with *)
(* exactly one message executed: then the first message of the new client  *)
(* passes for the old one's (KnownRestart).                                *)
THEOREM SessionsKeepOrder ==
    ASSUME Len(Program) < SeqMod
    PROVE  RestartSpec /\ [][KnownRestart]_vars => []SessionsInOrder
<1>1. Init => TypeInv /\ SessionInv
  BY InitTyped, InitSession
<1>2. TypeInv /\ SessionInv /\ [Next \/ Restart]_vars /\ [KnownRestart]_vars
        => TypeInv' /\ SessionInv'
  BY TypeStep, SessionStep
<1>3. SessionInv => SessionsInOrder
  BY DEF SessionInv
<1>4. QED BY <1>1, <1>2, <1>3, PTL DEF RestartSpec

----------------------------------------------------------------------------
(* Sequence numbers: Nr(x) is the number of the packet at place x.         *)

\* Integers with one residue that are less than SeqMod apart are the same.
LEMMA Multiples ==
    ASSUME NEW k \in Int, -SeqMod < SeqMod * k, SeqMod * k < SeqMod
    PROVE  k = 0
<1>1. CASE k >= 1
  <2>1. SeqMod * k >= SeqMod * 1
    BY <1>1, Z3
  <2> QED BY <2>1
<1>2. CASE k <= -1
  <2>1. SeqMod * k <= SeqMod * (-1)
    BY <1>2, Z3
  <2> QED BY <2>1
<1> QED BY <1>1, <1>2

LEMMA Quotient ==
    ASSUME NEW x \in Int
    PROVE  /\ x % SeqMod \in 0 .. SeqMod - 1
           /\ x \div SeqMod \in Int
           /\ x - (x % SeqMod) = SeqMod * (x \div SeqMod)
<1>1. x % SeqMod \in 0 .. SeqMod - 1
  OBVIOUS
<1>2. x \div SeqMod \in Int
  OBVIOUS
<1>3. x - (x % SeqMod) = SeqMod * (x \div SeqMod)
  OBVIOUS
<1> QED BY <1>1, <1>2, <1>3

LEMMA SameResidue ==
    ASSUME NEW x \in Int, NEW y \in Int, x % SeqMod = y % SeqMod,
           x - y < SeqMod, y - x < SeqMod
    PROVE  x = y
<1> DEFINE q == x \div SeqMod
           r == y \div SeqMod
<1>1. /\ q \in Int /\ r \in Int
      /\ x - (x % SeqMod) = SeqMod * q /\ y - (y % SeqMod) = SeqMod * r
  BY Quotient
<1>2. x % SeqMod \in Int /\ y % SeqMod \in Int
  BY Quotient
<1> HIDE DEF q, r
<1>3. x - y = SeqMod * q - SeqMod * r
  BY <1>1, <1>2
<1>4. SeqMod * q - SeqMod * r = SeqMod * (q - r)
  BY <1>1
<1>5. q - r = 0
  BY <1>1, <1>3, <1>4, Multiples
<1>6. q = r
  BY <1>1, <1>5
<1> QED BY <1>1, <1>2, <1>6

LEMMA Shifted ==
    ASSUME NEW x \in Int, NEW k \in Int
    PROVE  (x + SeqMod * k) % SeqMod = x % SeqMod
<1> DEFINE s == SeqMod * k
           y == x + s
           q == x \div SeqMod
           r == y \div SeqMod
           m == x % SeqMod
           n == y % SeqMod
<1>1. s \in Int /\ y \in Int
  OBVIOUS
<1>2. q \in Int /\ m \in 0 .. SeqMod - 1 /\ x - m = SeqMod * q
  BY Quotient
<1>3. r \in Int /\ n \in 0 .. SeqMod - 1 /\ y - n = SeqMod * r
  <2> HIDE DEF y
  <2> QED BY <1>1, Quotient
<1>4. y = x + s /\ s = SeqMod * k
  OBVIOUS
<1> HIDE DEF s, y, q, r, m, n
<1>5. SeqMod * q \in Int /\ SeqMod * r \in Int
  BY <1>2, <1>3
<1>6. m - n = SeqMod * r - SeqMod * q - s
  BY <1>1, <1>2, <1>3, <1>4, <1>5
<1>7. SeqMod * r - SeqMod * q - s = SeqMod * (r - q - k)
  BY <1>2, <1>3, <1>4
<1>8. r - q - k = 0
  BY <1>2, <1>3, <1>6, <1>7, Multiples
<1>9. m - n = 0
  BY <1>2, <1>3, <1>6, <1>7, <1>8
<1>10. m = n
  BY <1>2, <1>3, <1>9
<1> QED BY <1>10 DEF m, n, y, s

\* What is added to a residue.
LEMMA ResidueSum ==
    ASSUME NEW x \in Int, NEW y \in Int
    PROVE  ((x % SeqMod) + y) % SeqMod = (x + y) % SeqMod
<1> DEFINE q == x \div SeqMod
           m == x % SeqMod
<1>1. q \in Int /\ m \in 0 .. SeqMod - 1 /\ x - m = SeqMod * q
  BY Quotient
<1> HIDE DEF q, m
<1>2. x + y = (m + y) + SeqMod * q /\ m + y \in Int
  BY <1>1
<1> QED BY <1>1, <1>2, Shifted DEF m

LEMMA ResidueDifference ==
    ASSUME NEW x \in Int, NEW y \in Int
    PROVE  ((x % SeqMod) - (y % SeqMod)) % SeqMod = (x - y) % SeqMod
<1> DEFINE q == y \div SeqMod
           m == y % SeqMod
           l == x % SeqMod
<1>1. q \in Int /\ m \in 0 .. SeqMod - 1 /\ y - m = SeqMod * q
  BY Quotient
<1>0. l \in Int
  OBVIOUS
<1>2. (l - m) % SeqMod = (x - m) % SeqMod
  <2>1. -m \in Int
    BY <1>1
  <2>2. (l + (-m)) % SeqMod = (x + (-m)) % SeqMod
    BY <2>1, ResidueSum
  <2> HIDE DEF m, l
  <2> QED BY <1>0, <1>1, <2>2
<1> HIDE DEF q, m, l
<1>3. x - m = (x - y) + SeqMod * q /\ x - y \in Int
  BY <1>1
<1>4. (x - m) % SeqMod = (x - y) % SeqMod
  BY <1>1, <1>3, Shifted
<1> QED BY <1>2, <1>4 DEF m, l

\* The sequence number of the x-th packet.
Nr(x) == x % SeqMod

LEMMA NrType ==
    ASSUME NEW x \in Int
    PROVE  Nr(x) \in SeqNr
BY Quotient DEF Nr, SeqNr

\* What is known of numbers: a place from its number, sums, differences.
LEMMA NrSame ==
    ASSUME NEW x \in Int, NEW y \in Int, Nr(x) = Nr(y),
           x - y < SeqMod, y - x < SeqMod
    PROVE  x = y
BY SameResidue DEF Nr

LEMMA NrSmall ==
    ASSUME NEW x \in 0 .. SeqMod - 1
    PROVE  Nr(x) = x
BY DEF Nr

LEMMA NrNext ==
    ASSUME NEW x \in Int
    PROVE  Next12(Nr(x)) = Nr(x + 1) /\ Prev12(Nr(x)) = Nr(x - 1)
<1>0. 1 \in Int /\ -1 \in Int
  OBVIOUS
<1>a. \A y \in Int : ((x % SeqMod) + y) % SeqMod = (x + y) % SeqMod
  BY ResidueSum, Zenon
<1>1. (Nr(x) + 1) % SeqMod = (x + 1) % SeqMod
  BY <1>0, <1>a, Zenon DEF Nr
<1>2. (Nr(x) + (-1)) % SeqMod = (x + (-1)) % SeqMod
  BY <1>0, <1>a, Zenon DEF Nr
<1>3. Nr(x) \in Int
  BY NrType DEF SeqNr
<1>4. Nr(x) + (-1) = Nr(x) - 1 /\ x + (-1) = x - 1
  BY <1>3
<1> HIDE DEF Nr
<1>5. (Nr(x) - 1) % SeqMod = (x - 1) % SeqMod
  BY <1>2, <1>4
<1> QED BY <1>1, <1>5 DEF Next12, Prev12, Nr

LEMMA NrDiff ==
    ASSUME NEW x \in Int, NEW y \in Int
    PROVE  Diff12(Nr(x), Nr(y)) = Nr(x - y)
BY ResidueDifference DEF Diff12, Nr

LEMMA NrSum ==
    ASSUME NEW x \in Int, NEW y \in Int
    PROVE  (Nr(x) + y) % SeqMod = Nr(x + y)
BY ResidueSum DEF Nr

----------------------------------------------------------------------------
(* Answers: which packets are on their way, and which the client takes.    *)

\* Messages j and k belong to one operation.
Same(j, k) == j <= k /\ \A i \in j .. k - 1 : ~Program[i].recv
Size(k) == IF k = 0 THEN 0 ELSE Program[k].reply

\* What a program of udpfs_core.c is like: fewer messages in a session than
\* sequence numbers, one answer at most to an operation, and two answers
\* (of at most UDPFS_MAX_READ bytes) that fit the numbers together.
OneAnswer ==
    \A j, k \in 1 .. Len(Program) :
      Same(j, k) /\ j # k => Program[j].reply = 0 \/ Program[k].reply = 0
AnswersFit ==
    \A j, k \in 1 .. Len(Program) :
      Program[j].reply + Program[k].reply <= SeqMod
Usual == Len(Program) < SeqMod /\ OneAnswer /\ AnswersFit

\* Where the caller is.
HasFirst(k) ==
    \E j \in 1 .. k : /\ StartsOperation(j)
                      /\ \A i \in (j + 1) .. k : ~StartsOperation(i)
Started == ~(cPc \in {"discover", "call", "done"} /\ StartsOperation(cMsg))
CallerInv ==
    /\ cPc \in {"discover", "call"} =>
         /\ Len(sDone) < cMsg
         /\ \A i \in 1 .. Len(c2s) : c2s[i].msg # cMsg
    /\ cPc = "discover" => cRx = <<>>
    /\ cPc \in {"recv", "recvd"} => Program[cMsg].recv
    /\ cPc \in {"call", "send", "recv", "recvd"} => cState = "CONNECTED"
    /\ cPc = "discover" => cState = "DISCOVERING"
    /\ cOk = {j \in 1 .. cMsg - 1 : Program[j].recv}
    /\ HasFirst(cMsg)
    /\ cPc = "done" => cMsg > Len(Program)
    /\ ~Started => cBuffer = FALSE

\* The answer under way is that to message a; the one before it was to z.
\* Packets are counted from the first of a on, and packet i of a has the
\* sequence number of b + i - 1.
Place(p, a, z) == IF p.msg = a THEN p.idx ELSE p.idx - Size(z)
IsPacket(p, a, z, b, o) ==
    /\ p.boot = 0 /\ p.fin = (p.idx = Size(p.msg))
    /\ \/ a # 0 /\ p.msg = a /\ p.idx \in 1 .. o
       \/ z # 0 /\ z < a /\ p.msg = z /\ p.idx \in 1 .. Size(z)
    /\ p.seq = Nr(b + Place(p, a, z) - 1)

\* Packets of the earlier answer are before those of the later one.
OnWire(q, a, z, b, o) ==
    /\ \A i \in 1 .. Len(q) : q[i].idx # 0 => IsPacket(q[i], a, z, b, o)
    /\ \A i, j \in 1 .. Len(q) :
         i < j /\ q[i].idx # 0 /\ q[j].idx # 0 /\ q[i].msg = a => q[j].msg = a
OnlyOf(q, a) == \A i \in 1 .. Len(q) : q[i].idx # 0 => q[i].msg = a

\* The server sends the answer to the last message that has one.
ServerPart(a, z, b) ==
    /\ a \in 0 .. Len(sDone) /\ z \in 0 .. Len(sDone) /\ b \in Int
    /\ a # 0 => Size(a) > 0
    /\ \A k \in a + 1 .. Len(sDone) : Program[k].reply = 0
    /\ sOff <= Size(a) /\ sTx = Nr(b + sOff)
    /\ sMode # "idle" => a = Len(sDone)
    /\ sMode \in {"stream", "window"} => sOff < Size(a)
    /\ \A q \in sBuf \cup sPend :
         q.msg = a /\ q.idx # 0 /\ IsPacket(q, a, z, b, sOff)

\* Whether it is to the client's operation, and how much of it the client has.
Mine(a) == a # 0 /\ Same(a, cMsg)
Got(a) == IF Mine(a) THEN Len(cRx) ELSE sOff

ClientPart(a, b) ==
    /\ cExpected = Nr(b + Got(a))
    /\ Mine(a) => /\ Len(cRx) <= sOff
                  /\ \A i \in 1 .. Len(cRx) :
                       cRx[i].idx = i /\ cRx[i].msg = a /\ cRx[i].boot = 0
    /\ ~Mine(a) => sOff = Size(a) /\ (Started => cRx = <<>>)
    /\ ~Mine(a) \/ cRx # <<>> => OnlyOf(s2c, a)
    /\ "FIN" \in cEv \/ cPc = "recvd" => Mine(a) /\ Len(cRx) = Size(a)
    /\ cPc = "recvd" => "FIN" \notin cEv
    /\ \A k \in 1 .. Len(Program) :
         k < cMsg /\ ~Same(k, cMsg) /\ Program[k].reply > 0 => k <= Len(sDone)

AnswerInv(a, z, b) ==
    ServerPart(a, z, b) /\ OnWire(s2c, a, z, b, sOff) /\ ClientPart(a, b)
ReplyInv ==
    CallerInv /\ \E a \in Nat, z \in Nat, b \in Int : AnswerInv(a, z, b)

----------------------------------------------------------------------------
(* Facts. *)

LEMMA Sizes ==
    /\ Len(Program) \in Nat
    /\ \A k \in 1 .. Len(Program) :
         /\ Program[k].reply \in Nat /\ Program[k].recv \in BOOLEAN
         /\ Size(k) = Program[k].reply
    /\ Size(0) = 0
<1>1. \A k \in 1 .. Len(Program) : Program[k] \in Message
  BY ElementOfSeq
<1> QED BY <1>1, LenProperties DEF Message, Size

\* The types that the steps below keep needing.
LEMMA Numbers ==
    ASSUME TypeInv, OrderInv
    PROVE  /\ Len(sDone) \in Nat /\ Len(Program) \in Nat
           /\ cMsg \in Nat /\ cMsg >= 1 /\ cMsg <= Len(Program) + 1
           /\ Len(sDone) <= cMsg /\ Len(sDone) <= Len(Program)
           /\ sOff \in Nat /\ Len(cRx) \in Nat /\ Len(s2c) \in Nat /\ Len(c2s) \in Nat
           /\ cRx \in Seq(ServerPacket) /\ s2c \in Seq(ServerPacket)
           /\ c2s \in Seq(ClientPacket)
BY LenProperties
   DEF TypeInv, TypeOK, NetTypeOK, ClientTypeOK, ServerTypeOK, OrderInv

LEMMA SameNext ==
    ASSUME NEW j \in Nat, NEW k \in Nat, j <= k
    PROVE  Same(j, k + 1) <=> Same(j, k) /\ ~Program[k].recv
<1>1. \A i \in Int : i \in j .. (k + 1) - 1 <=> i \in j .. k - 1 \/ i = k
  OBVIOUS
<1> QED BY <1>1 DEF Same

LEMMA SameWithin ==
    ASSUME NEW i \in Nat, NEW j \in Nat, NEW k \in Nat, i <= j, j <= k, Same(i, k)
    PROVE  Same(i, j) /\ Same(j, k)
BY DEF Same

\* The message that opens the operation.
LEMMA FirstIsFirst ==
    ASSUME NEW j \in Nat \ {0}, NEW k \in Nat, HasFirst(k), Same(j, k)
    PROVE  FirstOf(k) \in Int /\ FirstOf(k) <= j
<1> DEFINE f == FirstOf(k)
<1>1. f \in 1 .. k /\ StartsOperation(f)
  BY DEF HasFirst, FirstOf
<1>2. ~(f > j)
  <2> HIDE DEF f
  <2>1. SUFFICES ASSUME f > j PROVE FALSE
    OBVIOUS
  <2>2. f # 1 /\ f - 1 \in j .. k - 1
    BY <1>1, <2>1
  <2> QED BY <1>1, <2>2 DEF StartsOperation, Same
<1> HIDE DEF f
<1>3. f \in Int /\ f <= j
  BY <1>1, <1>2
<1> QED BY <1>3 DEF f

LEMMA FirstNext ==
    ASSUME NEW k \in Nat, k >= 1, HasFirst(k)
    PROVE  HasFirst(k + 1)
<1>1. CASE StartsOperation(k + 1)
  <2>1. k + 1 \in 1 .. k + 1 /\ \A i \in (k + 1) + 1 .. k + 1 : ~StartsOperation(i)
    OBVIOUS
  <2> QED BY <1>1, <2>1 DEF HasFirst
<1>2. CASE ~StartsOperation(k + 1)
  <2>1. PICK j \in 1 .. k : /\ StartsOperation(j)
                            /\ \A i \in (j + 1) .. k : ~StartsOperation(i)
    BY DEF HasFirst
  <2>2. j \in 1 .. k + 1 /\ \A i \in (j + 1) .. k + 1 : i \in (j + 1) .. k \/ i = k + 1
    BY <2>1
  <2> QED BY <1>2, <2>1, <2>2 DEF HasFirst
<1> QED BY <1>1, <1>2

LEMMA TailFacts ==
    ASSUME NEW S, NEW q \in Seq(S), q # <<>>
    PROVE  /\ Head(q) = q[1] /\ 1 \in 1 .. Len(q) /\ Head(q) \in S
           /\ Tail(q) \in Seq(S) /\ Len(Tail(q)) = Len(q) - 1
           /\ \A i \in 1 .. Len(Tail(q)) :
                Tail(q)[i] = q[i + 1] /\ i + 1 \in 1 .. Len(q)
<1>1. Len(q) \in Nat \ {0}
  BY EmptySeq
<1>2. /\ Tail(q) \in Seq(S) /\ Len(Tail(q)) = Len(q) - 1 /\ Head(q) \in S
      /\ \A i \in 1 .. Len(Tail(q)) : Tail(q)[i] = q[i + 1]
  BY HeadTailProperties
<1>3. Head(q) = q[1]
  OBVIOUS
<1> QED BY <1>1, <1>2, <1>3

LEMMA AppendFacts ==
    ASSUME NEW S, NEW q \in Seq(S), NEW p \in S
    PROVE  /\ Append(q, p) \in Seq(S)
           /\ Len(Append(q, p)) = Len(q) + 1 /\ Len(q) \in Nat
           /\ Append(q, p)[Len(q) + 1] = p
           /\ \A i \in 1 .. Len(Append(q, p)) :
                \/ i \in 1 .. Len(q) /\ Append(q, p)[i] = q[i]
                \/ i = Len(q) + 1 /\ Append(q, p)[i] = p
<1>1. /\ Append(q, p) \in Seq(S)
      /\ Len(Append(q, p)) = Len(q) + 1 /\ Append(q, p)[Len(q) + 1] = p
      /\ \A i \in 1 .. Len(q) : Append(q, p)[i] = q[i]
  BY AppendProperties
<1>2. Len(q) \in Nat
  BY LenProperties
<1> QED BY <1>1, <1>2

\* A packet leaves the wire, one without payload joins it, one of the answer
\* under way joins it.
LEMMA WireTail ==
    ASSUME NEW q \in Seq(ServerPacket), q # <<>>, NEW a \in Nat, NEW z, NEW b, NEW o,
           OnWire(q, a, z, b, o)
    PROVE  /\ OnWire(Tail(q), a, z, b, o)
           /\ OnlyOf(q, a) => OnlyOf(Tail(q), a)
           /\ Head(q).idx # 0 /\ Head(q).msg = a => OnlyOf(Tail(q), a)
<1> USE TailFacts
<1>1. \A i, j \in 1 .. Len(Tail(q)) : i < j => i + 1 < j + 1 /\ 1 < j + 1
  OBVIOUS
<1>2. \A j \in 1 .. Len(Tail(q)) : 1 < j + 1
  OBVIOUS
<1> QED BY <1>1, <1>2 DEF OnWire, OnlyOf

LEMMA WirePlain ==
    ASSUME NEW q \in Seq(ServerPacket), NEW p \in ServerPacket, p.idx = 0,
           NEW a \in Nat, NEW z, NEW b, NEW o, OnWire(q, a, z, b, o)
    PROVE  /\ OnWire(Append(q, p), a, z, b, o)
           /\ OnlyOf(q, a) => OnlyOf(Append(q, p), a)
           /\ Append(q, p) \in Seq(ServerPacket)
<1> DEFINE r == Append(q, p)
<1>1. /\ Len(r) = Len(q) + 1 /\ Len(q) \in Nat
      /\ \A i \in 1 .. Len(r) : \/ i \in 1 .. Len(q) /\ r[i] = q[i]
                                \/ i = Len(q) + 1 /\ r[i] = p
  BY AppendFacts
<1> HIDE DEF r
<1>2. \A i \in 1 .. Len(r) : r[i].idx # 0 => IsPacket(r[i], a, z, b, o)
  BY <1>1 DEF OnWire
<1>3. \A i, j \in 1 .. Len(r) :
        i < j /\ r[i].idx # 0 /\ r[j].idx # 0 /\ r[i].msg = a => r[j].msg = a
  BY <1>1 DEF OnWire
<1>4. OnlyOf(q, a) => OnlyOf(r, a)
  BY <1>1 DEF OnlyOf
<1> QED BY <1>2, <1>3, <1>4, AppendFacts DEF OnWire, r

LEMMA WireReply ==
    ASSUME NEW q \in Seq(ServerPacket), NEW p \in ServerPacket, p.idx # 0,
           NEW a \in Nat, NEW z, NEW b, NEW o, OnWire(q, a, z, b, o),
           p.msg = a, IsPacket(p, a, z, b, o)
    PROVE  /\ OnWire(Append(q, p), a, z, b, o)
           /\ OnlyOf(q, a) => OnlyOf(Append(q, p), a)
<1> DEFINE r == Append(q, p)
<1>1. /\ Len(r) = Len(q) + 1 /\ Len(q) \in Nat
      /\ \A i \in 1 .. Len(r) : \/ i \in 1 .. Len(q) /\ r[i] = q[i]
                                \/ i = Len(q) + 1 /\ r[i] = p
  BY AppendFacts
<1> HIDE DEF r
<1>2. \A i \in 1 .. Len(r) : r[i].idx # 0 => IsPacket(r[i], a, z, b, o)
  BY <1>1 DEF OnWire
<1>3. \A i, j \in 1 .. Len(r) :
        i < j /\ r[i].idx # 0 /\ r[j].idx # 0 /\ r[i].msg = a => r[j].msg = a
  BY <1>1 DEF OnWire
<1>4. OnlyOf(q, a) => OnlyOf(r, a)
  BY <1>1 DEF OnlyOf
<1> QED BY <1>2, <1>3, <1>4 DEF OnWire, r

LEMMA PacketGrows ==
    ASSUME NEW p, NEW a, NEW z, NEW b, NEW o \in Nat, IsPacket(p, a, z, b, o)
    PROVE  IsPacket(p, a, z, b, o + 1)
BY DEF IsPacket

----------------------------------------------------------------------------
(* The caller's thread and what it has asked for.                          *)

----------------------------------------------------------------------------
(* The caller. *)

\* The requests on the wire are none beyond the caller's message.
LEMMA RequestsSent ==
    ASSUME TypeInv, OrderInv
    PROVE  \A i \in 1 .. Len(c2s) :
             /\ c2s[i].msg \in 0 .. Len(Program) /\ c2s[i].msg <= cMsg
             /\ c2s[i].msg # 0 => Len(sDone) <= c2s[i].msg
<1>1. \A i \in 1 .. Len(c2s) : c2s[i] \in ClientPacket
  BY Numbers, ElementOfSeq
<1>2. \A i \in 1 .. Len(c2s) : c2s[i].msg \in 0 .. Len(Program)
  BY <1>1 DEF ClientPacket
<1> QED BY <1>2, Numbers DEF OrderInv, InQueueOrder

\* The request the server dispatches is the one after the last.
LEMMA RequestIsNext ==
    ASSUME TypeInv, OrderInv, Len(Program) < SeqMod, HandleRequest
    PROVE  /\ c2s # <<>> /\ c2s' = Tail(c2s) /\ ~IsReset(Head(c2s))
           /\ Head(c2s).msg = Len(sDone) + 1
           /\ Len(sDone) + 1 \in 1 .. Len(Program)
           /\ sDone' = Append(sDone, [msg |-> Len(sDone) + 1, boot |-> 0])
           /\ Len(sDone') = Len(sDone) + 1
<1> DEFINE p == Head(c2s)
           n == Len(sDone)
<1>1. /\ c2s \in Seq(ClientPacket) /\ c2s # <<>> /\ c2s' = Tail(c2s)
      /\ cMsg \in Nat /\ n \in Nat /\ sDone \in Seq(Request)
      /\ n <= cMsg /\ n <= Len(Program) /\ sExpected = n
      /\ Len(Program) \in Nat
  BY LenProperties
     DEF TypeInv, TypeOK, NetTypeOK, ClientTypeOK, ServerTypeOK,
         HandleRequest, OrderInv
<1>2. p.msg \in 1 .. Len(Program)
  BY <1>1, Received DEF TypeInv, HandleRequest
<1>3. /\ p.seq = p.msg - 1 /\ p.boot = 0 /\ n <= p.msg /\ p.msg <= cMsg
  <2>1. p = c2s[1] /\ 1 \in 1 .. Len(c2s)
    BY <1>1, HeadTailProperties, EmptySeq, LenProperties
  <2>2. QED BY <1>2, <2>1 DEF OrderInv, InQueueOrder
<1>4. ~IsReset(p)
  <2>1. SUFFICES ASSUME p.seq = 0, p.seq # n, p.seq # Prev12(n) PROVE FALSE
    BY <1>1 DEF IsReset, IsExpected, IsDuplicate
  <2>2. p.msg = 1 /\ n \in {0, 1}
    BY <1>1, <1>2, <1>3, <2>1
  <2>3. n = 1
    BY <2>1, <2>2
  <2>4. 1 \in 1 .. Len(Program)
    BY <1>1, <2>3
  <2>5. Prev12(n) = 0
    BY <2>3, <2>4, NoWrap
  <2>6. QED BY <2>1, <2>5
<1>5. p.seq = n
  BY <1>1, <1>4 DEF HandleRequest, IsExpected
<1>6. p.msg = n + 1
  BY <1>1, <1>2, <1>3, <1>5
<1>7. sDone' = Append(sDone, [msg |-> n + 1, boot |-> 0])
  BY <1>3, <1>6 DEF HandleRequest
<1>8. [msg |-> n + 1, boot |-> 0] \in Request
  BY <1>1, <1>2, <1>6 DEF Request
<1>9. Len(sDone') = n + 1
  BY <1>1, <1>7, <1>8, AppendProperties
<1> QED BY <1>1, <1>2, <1>4, <1>6, <1>7, <1>9

\* The caller goes on to the next message.
LEMMA NextCaller ==
    ASSUME TypeInv, OrderInv, CallerInv, cMsg' = cMsg + 1, UNCHANGED <<c2s, sDone>>,
           cPc \in {"send", "recvd"},
           cPc' = IF cMsg = Len(Program) THEN "done" ELSE "call", cState' = "CONNECTED",
           cBuffer' = IF Program[cMsg].recv THEN FALSE ELSE cBuffer,
           cOk' = IF Program[cMsg].recv THEN cOk \cup {cMsg} ELSE cOk
    PROVE  CallerInv'
<1>1. cMsg \in Nat /\ cMsg >= 1 /\ Len(sDone) \in Nat /\ Len(sDone) <= cMsg
  BY Numbers
<1>2. HasFirst(cMsg + 1)
  BY <1>1, FirstNext DEF CallerInv
<1>3. \A i \in 1 .. Len(c2s) : c2s[i].msg # cMsg + 1
  BY <1>1, RequestsSent
<1>4. cOk' = {j \in 1 .. (cMsg + 1) - 1 : Program[j].recv}
  <2>1. \A j \in Int : j \in 1 .. (cMsg + 1) - 1 <=> j \in 1 .. cMsg - 1 \/ j = cMsg
    BY <1>1
  <2>2. cOk = {j \in 1 .. cMsg - 1 : Program[j].recv}
    BY DEF CallerInv
  <2>3. CASE Program[cMsg].recv
    <3>1. cOk' = cOk \cup {cMsg}
      BY <2>3
    <3>2. 1 .. (cMsg + 1) - 1 = (1 .. cMsg - 1) \cup {cMsg}
      BY <1>1
    <3> QED BY <2>2, <2>3, <3>1, <3>2, Zenon
  <2>4. CASE ~Program[cMsg].recv
    <3>1. cOk' = cOk
      BY <2>4
    <3> QED BY <2>1, <2>2, <2>4, <3>1
  <2> QED BY <2>3, <2>4
<1>5. cMsg' = cMsg + 1 /\ (cMsg + 1) - 1 = cMsg /\ Len(sDone) < cMsg + 1
  BY <1>1
<1>6. HasFirst(cMsg)'
  BY <1>2, <1>5 DEF HasFirst, StartsOperation
<1>7. cOk' = {j \in 1 .. cMsg' - 1 : Program[j].recv}
  BY <1>4, <1>5
<1>8. Len(sDone') < cMsg' /\ \A i \in 1 .. Len(c2s') : c2s'[i].msg # cMsg'
  BY <1>3, <1>5
<1>9. ~Started' => cBuffer' = FALSE
  BY <1>1, <1>5 DEF Started, StartsOperation
<1>10. cPc' = "done" => cMsg' > Len(Program)
  BY <1>1, <1>5, LenProperties
<1> QED BY <1>6, <1>7, <1>8, <1>9, <1>10 DEF CallerInv

LEMMA CallerThread ==
    ASSUME TypeInv, OrderInv, CallerInv, ClientThread, UNCHANGED serverVars
    PROVE  CallerInv'
<1>0. /\ sDone' = sDone /\ cMsg \in Nat /\ cMsg >= 1 /\ c2s \in Seq(ClientPacket)
      /\ Len(sDone) <= cMsg /\ Len(sDone) \in Nat
  BY Numbers DEF serverVars
<1>1. cMsg' = cMsg => HasFirst(cMsg)'
  BY DEF CallerInv, HasFirst, StartsOperation
<1>2. CASE Discovered
  <2>1. Program = <<>> => Len(Program) = 0
    BY EmptySeq
  <2>2. cPc' = "done" => cMsg' > Len(Program)
    BY <1>0, <1>2, <2>1 DEF Discovered
  <2> QED BY <1>0, <1>1, <2>2, <1>2 DEF Discovered, CallerInv, sockVars, Started, StartsOperation, netVars
<1>3. CASE DiscoverTimeout
  <2>1. CASE c2s' = c2s
    BY <1>0, <1>1, <1>3, <2>1 DEF DiscoverTimeout, CallerInv, sockVars, Started, StartsOperation
  <2>2. CASE c2s' = Append(c2s, Discovery) /\ cPc' = cPc /\ cState' = cState
    <3>1. Discovery \in ClientPacket /\ Discovery.msg = 0
      BY ClientPackets DEF Discovery, TypeInv
    <3>2. \A i \in 1 .. Len(c2s') : c2s'[i].msg # cMsg
      BY <1>0, <1>3, <2>2, <3>1, AppendFacts DEF CallerInv, DiscoverTimeout
    <3> QED BY <1>0, <1>1, <1>3, <2>2, <3>2 DEF DiscoverTimeout, CallerInv, sockVars, Started, StartsOperation
  <2> QED BY <1>3, <2>1, <2>2 DEF DiscoverTimeout
<1>4. CASE SendCall
  BY <1>0, <1>1, <1>4 DEF SendCall, CallerInv, Started, StartsOperation
<1>5. CASE SendAcked
  <2>1. CASE Program[cMsg].recv
    BY <1>0, <1>1, <1>5, <2>1 DEF SendAcked, CallerInv, sockVars, Started, StartsOperation, netVars
  <2>2. CASE ~Program[cMsg].recv
    <3>1. /\ cMsg' = cMsg + 1 /\ UNCHANGED <<c2s, sDone>>
          /\ cPc' = IF cMsg = Len(Program) THEN "done" ELSE "call"
          /\ cState' = "CONNECTED" /\ cOk' = cOk /\ cPc = "send" /\ cBuffer' = cBuffer
      BY <1>0, <1>5, <2>2 DEF SendAcked, CallerInv, netVars, sockVars
    <3> QED BY <2>2, <3>1, NextCaller
  <2> QED BY <2>1, <2>2
<1>6. CASE SendRetry
  BY <1>0, <1>1, <1>6 DEF SendRetry, CallerInv, Started, StartsOperation
<1>7. CASE RecvFin
  BY <1>0, <1>1, <1>7 DEF RecvFin, CallerInv, sockVars, Started, StartsOperation
<1>8. CASE RecvReturn
  <2>1. /\ cMsg' = cMsg + 1 /\ UNCHANGED <<c2s, sDone>> /\ Program[cMsg].recv
        /\ cPc = "recvd"
        /\ cPc' = IF cMsg = Len(Program) THEN "done" ELSE "call"
        /\ cState' = "CONNECTED" /\ cOk' = cOk \cup {cMsg} /\ cBuffer' = FALSE
    BY <1>0, <1>8 DEF RecvReturn, CallerInv, netVars
  <2> QED BY <2>1, NextCaller
<1>9. CASE RecvNack \/ RecvWindow
  BY <1>0, <1>1, <1>9 DEF RecvNack, RecvWindow, CallerInv, sockVars, Started, StartsOperation, callVars
<1>10. CASE RecvTimeout
  BY <1>0, <1>1, <1>10 DEF RecvTimeout, CallerInv, Started, StartsOperation, netVars
<1> QED BY <1>2, <1>3, <1>4, <1>5, <1>6, <1>7, <1>8, <1>9, <1>10 DEF ClientThread

\* Interrupts leave the caller where it is, and packets that arrive or are
\* lost go from the wire.
LEMMA CallerKept ==
    ASSUME TypeInv, CallerInv, UNCHANGED <<cPc, cMsg, cState, cOk, cBuffer>>,
           cPc = "discover" => cRx' = cRx,
           \/ c2s' = c2s
           \/ c2s # <<>> /\ c2s' = Tail(c2s),
           cPc \in {"discover", "call"} => Len(sDone') < cMsg
    PROVE  CallerInv'
<1>1. HasFirst(cMsg)'
  BY DEF CallerInv, HasFirst, StartsOperation
<1>2. c2s \in Seq(ClientPacket)
  BY DEF TypeInv, TypeOK, NetTypeOK
<1>3. cPc \in {"discover", "call"} => \A i \in 1 .. Len(c2s') : c2s'[i].msg # cMsg
  <2>1. SUFFICES ASSUME cPc \in {"discover", "call"}, c2s # <<>>, c2s' = Tail(c2s),
                        NEW i \in 1 .. Len(c2s')
                 PROVE  c2s'[i].msg # cMsg
    BY DEF CallerInv
  <2>2. c2s'[i] = c2s[i + 1] /\ i + 1 \in 1 .. Len(c2s)
    BY <1>2, <2>1, TailFacts
  <2> QED BY <2>1, <2>2 DEF CallerInv
<1> QED BY <1>1, <1>3 DEF CallerInv, Started, StartsOperation

\* Every step keeps CallerInv.
LEMMA CallerStep ==
    ASSUME TypeInv, OrderInv, OrderInv', CallerInv, Len(Program) < SeqMod, [Next]_vars,
           Ist => (cPc = "discover" => cRx' = cRx)
    PROVE  CallerInv'
<1>0. /\ cMsg \in Nat /\ cMsg >= 1 /\ Len(sDone) \in Nat
      /\ c2s \in Seq(ClientPacket) /\ HasFirst(cMsg)
  BY Numbers DEF CallerInv
<1>1. CASE ClientThread /\ UNCHANGED serverVars
  BY <1>1, CallerThread
<1>2. CASE (Ist \/ ClientAlarm) /\ UNCHANGED serverVars
  <2>1. UNCHANGED <<cPc, cMsg, cState, cOk, cBuffer, c2s, sDone>>
    BY <1>2 DEF Ist, IstInform, IstData, ClientAlarm, Alarm, callVars, sockVars, serverVars
  <2>2. cPc = "discover" => cRx' = cRx
    BY <1>2 DEF ClientAlarm, Alarm, sockVars
  <2> QED BY <2>1, <2>2, CallerKept DEF CallerInv
<1>3. CASE ServerStep
  <2>1. UNCHANGED <<cPc, cMsg, cState, cOk, cBuffer, cRx>>
    BY <1>3 DEF ServerStep, clientVars, callVars, sockVars
  <2>2. CASE HandleRequest
    <3>1. c2s # <<>> /\ c2s' = Tail(c2s)
      BY <2>2 DEF HandleRequest
    <3>2. Head(c2s).msg = Len(sDone) + 1 /\ Len(sDone') = Len(sDone) + 1
      <4>1. UNCHANGED clientVars
        BY <1>3 DEF ServerStep
      <4> QED BY <2>2, <4>1, RequestOrdered, RequestIsNext
    <3>3. cPc \in {"discover", "call"} => Len(sDone') < cMsg
      <4>1. Head(c2s) = c2s[1] /\ 1 \in 1 .. Len(c2s)
        BY <1>0, <3>1, TailFacts
      <4>2. c2s[1].msg <= cMsg
        BY <4>1, RequestsSent
      <4> QED BY <1>0, <3>2, <4>1, <4>2 DEF CallerInv
    <3> QED BY <2>1, <3>1, <3>3, CallerKept
  <2>3. CASE ~HandleRequest
    <3>1. /\ sDone' = sDone
          /\ c2s' = c2s \/ (c2s # <<>> /\ c2s' = Tail(c2s))
      BY <1>3, <2>3 DEF ServerStep, ServerThread, ServerAlarm,
         HandleDiscovery, HandleAck, HandleNack, HandleDuplicate, HandleGap,
         DropRequest, WindowAck, WindowNack, FinalAck, FinalNack, serverVars,
         Retransmit, SendPacket, WindowFull, WindowTimeout, FinalTimeout, netVars
    <3> QED BY <2>1, <3>1, CallerKept DEF CallerInv
  <2> QED BY <2>2, <2>3
<1>4. CASE NetStep
  <2>1. /\ UNCHANGED <<cPc, cMsg, cState, cOk, cBuffer, cRx, sDone>>
        /\ c2s' = c2s \/ (c2s # <<>> /\ c2s' = Tail(c2s))
    BY <1>4 DEF NetStep, clientVars, callVars, sockVars, serverVars, LoseToServer,
                LoseToClient
  <2> QED BY <2>1, CallerKept DEF CallerInv
<1>5. CASE UNCHANGED vars
  BY <1>0, <1>5, CallerKept
     DEF CallerInv, vars, clientVars, callVars, sockVars, serverVars, netVars
<1> QED BY <1>1, <1>2, <1>3, <1>4, <1>5 DEF Next, ClientStep

----------------------------------------------------------------------------
(* The answer under way, as the client sees it.                            *)

\* Of two messages of one operation one at most is answered.
LEMMA OnlyAnswer ==
    ASSUME Usual, NEW j \in Nat, NEW k \in Nat, NEW c \in Nat,
           j \in 1 .. Len(Program), k \in 1 .. Len(Program),
           j <= c, k <= c, Same(j, c), Same(k, c),
           Program[j].reply > 0, Program[k].reply > 0
    PROVE  j = k
<1>1. CASE j < k
  <2>1. Same(j, k)
    BY <1>1, SameWithin
  <2> QED BY <1>1, <2>1, Sizes DEF Usual, OneAnswer
<1>2. CASE k < j
  <2>1. Same(k, j)
    BY <1>2, SameWithin
  <2> QED BY <1>2, <2>1, Sizes DEF Usual, OneAnswer
<1> QED BY <1>1, <1>2

\* What the client's part says when the caller stays at its message.
LEMMA CallerStays ==
    ASSUME NEW a \in Nat, NEW b \in Int, ClientPart(a, b),
           UNCHANGED <<cMsg, cExpected, cRx, s2c, sOff, sDone>>,
           "FIN" \in cEv' \/ cPc' = "recvd" => "FIN" \in cEv \/ cPc = "recvd",
           cPc' = "recvd" => "FIN" \notin cEv',
           Started' => Started \/ cRx = <<>>
    PROVE  ClientPart(a, b)'
BY DEF ClientPart, Mine, Got, Same, OnlyOf

LEMMA CallerMoves ==
    ASSUME TypeInv, OrderInv, CallerInv, NEW a \in Nat, NEW z \in Nat, NEW b \in Int,
           ServerPart(a, z, b), ClientPart(a, b), cPc = "send", ~Program[cMsg].recv,
           cMsg' = cMsg + 1, cPc' \in {"call", "done"}, cEv' \subseteq cEv,
           UNCHANGED <<cExpected, cRx, s2c, sOff, sDone>>
    PROVE  ClientPart(a, b)'
<1>1. /\ cMsg \in Nat /\ cMsg >= 1 /\ a <= cMsg
      /\ Len(sDone) \in Nat /\ Len(Program) \in Nat
  BY Numbers DEF ServerPart
<1>2. Mine(a)' <=> Mine(a)
  BY <1>1, SameNext DEF Mine
<1>3. Started' /\ Started
  BY <1>1 DEF Started, StartsOperation
<1>4. Got(a)' = Got(a)
  BY <1>2 DEF Got
<1>5. \A k \in 1 .. Len(Program) :
        k < cMsg + 1 /\ ~Same(k, cMsg + 1) /\ Program[k].reply > 0 => k <= Len(sDone)
  <2>1. SUFFICES ASSUME NEW k \in 1 .. Len(Program), k < cMsg + 1,
                        ~Same(k, cMsg + 1), Program[k].reply > 0
                 PROVE  k <= Len(sDone)
    OBVIOUS
  <2>2. k <= cMsg /\ k \in Nat
    BY <1>1, <2>1
  <2>3. ~Same(k, cMsg)
    BY <1>1, <2>1, <2>2, SameNext
  <2>4. k # cMsg
    BY <1>1, <2>3 DEF Same
  <2> QED BY <1>1, <2>1, <2>2, <2>3, <2>4 DEF ClientPart
<1> QED BY <1>2, <1>3, <1>4, <1>5 DEF ClientPart, OnlyOf

LEMMA CallerReturns ==
    ASSUME TypeInv, OrderInv, CallerInv, Usual, NEW a \in Nat, NEW z \in Nat, NEW b \in Int,
           ServerPart(a, z, b), ClientPart(a, b), cPc = "recvd",
           cMsg' = cMsg + 1, cPc' \in {"call", "done"}, cEv' = cEv,
           UNCHANGED <<cExpected, cRx, s2c, sOff, sDone>>
    PROVE  ClientPart(a, b)'
<1>1. /\ cMsg \in Nat /\ cMsg >= 1 /\ a <= cMsg /\ a <= Len(sDone) /\ sOff \in Nat
      /\ Len(sDone) \in Nat /\ Len(Program) \in Nat /\ Len(sDone) <= Len(Program)
      /\ Program[cMsg].recv
  BY Numbers DEF ServerPart, CallerInv
<1>2. /\ Mine(a) /\ a # 0 /\ Same(a, cMsg) /\ Len(cRx) = Size(a) /\ Size(a) > 0
      /\ "FIN" \notin cEv /\ Len(cRx) <= sOff /\ sOff <= Size(a)
  BY DEF ServerPart, ClientPart, Mine
<1>3. ~Mine(a)'
  BY <1>1, SameNext DEF Mine
<1>4. ~Started'
  BY <1>1 DEF Started, StartsOperation
<1>5. a \in 1 .. Len(Program) /\ Program[a].reply > 0 /\ Size(a) \in Nat
  BY <1>1, <1>2, Sizes
<1>6. sOff = Size(a) /\ cRx # <<>> /\ Len(cRx) = sOff
  BY <1>1, <1>2, <1>5
<1>7. \A k \in 1 .. Len(Program) :
        k < cMsg + 1 /\ ~Same(k, cMsg + 1) /\ Program[k].reply > 0 => k <= Len(sDone)
  <2>1. SUFFICES ASSUME NEW k \in 1 .. Len(Program), k < cMsg + 1,
                        Program[k].reply > 0
                 PROVE  k <= Len(sDone)
    OBVIOUS
  <2>2. k <= cMsg /\ k \in Nat
    BY <1>1, <2>1
  <2>3. CASE Same(k, cMsg)
    <3>1. k = a
      BY <1>1, <1>2, <1>5, <2>1, <2>2, <2>3, OnlyAnswer
    <3> QED BY <1>1, <3>1
  <2>4. CASE ~Same(k, cMsg)
    <3>1. k # cMsg
      BY <1>1, <2>4 DEF Same
    <3> QED BY <1>1, <2>1, <2>2, <2>4, <3>1 DEF ClientPart
  <2> QED BY <2>3, <2>4
<1>8. cExpected = Nr(b + sOff) /\ OnlyOf(s2c, a)
  BY <1>2, <1>6 DEF ClientPart, Got
<1> QED BY <1>2, <1>3, <1>4, <1>6, <1>7, <1>8 DEF ClientPart, OnlyOf, Got

\* The caller's thread keeps AnswerInv: it moves from one message to the next.
LEMMA CallerAnswer ==
    ASSUME TypeInv, OrderInv, CallerInv, Usual, NEW a \in Nat, NEW z \in Nat, NEW b \in Int,
           AnswerInv(a, z, b), ClientThread, UNCHANGED serverVars
    PROVE  AnswerInv(a, z, b)'
<1>1. s2c' = s2c
  BY DEF ClientThread, Discovered, DiscoverTimeout, SendCall, SendAcked,
         SendRetry, RecvFin, RecvReturn, RecvNack, RecvWindow, RecvTimeout, netVars
<1>2. ServerPart(a, z, b)' /\ OnWire(s2c, a, z, b, sOff)'
  BY <1>1 DEF AnswerInv, serverVars, sendVars, ServerPart, OnWire, IsPacket, Place
<1> SUFFICES ClientPart(a, b)'
  BY <1>2 DEF AnswerInv
<1>3. ServerPart(a, z, b) /\ ClientPart(a, b)
  BY DEF AnswerInv
<1>4. UNCHANGED <<sOff, sDone>>
  BY DEF serverVars, sendVars
<1>a. cMsg \in Nat /\ cMsg >= 1 /\ Len(sDone) \in Nat /\ a <= Len(sDone) /\ Len(sDone) <= cMsg
  BY <1>3, Numbers DEF ServerPart
<1>5. CASE Discovered
  BY <1>1, <1>3, <1>4, <1>5, CallerStays DEF Discovered, sockVars, Started, StartsOperation
<1>6. CASE DiscoverTimeout
  BY <1>1, <1>3, <1>4, <1>6, CallerStays
     DEF DiscoverTimeout, sockVars, Started, StartsOperation, CallerInv
<1>7. CASE SendCall
  <2>1. CASE StartsOperation(cMsg)
    <3>1. ~Same(a, cMsg) \/ a = 0
      <4>1. a < cMsg
        BY <1>a, <1>7 DEF SendCall, CallerInv
      <4>2. a # 0 => cMsg # 1 /\ cMsg - 1 \in a .. cMsg - 1
        BY <1>a, <4>1
      <4> QED BY <2>1, <4>2 DEF Same, StartsOperation
    <3>2. ~Mine(a) /\ ~Mine(a)'
      BY <1>7, <3>1 DEF Mine, Same, SendCall
    <3>3. cRx' = <<>> /\ UNCHANGED <<cMsg, cExpected>> /\ cEv' \subseteq cEv /\ cPc' = "send"
      BY <1>7, <2>1 DEF SendCall
    <3> QED BY <1>1, <1>2, <1>3, <1>4, <3>2, <3>3 DEF ClientPart, Got, OnlyOf, AnswerInv, Same
  <2>2. CASE ~StartsOperation(cMsg)
    BY <1>1, <1>2, <1>3, <1>4, <1>7, <2>2, CallerStays DEF SendCall, Started, AnswerInv
  <2> QED BY <2>1, <2>2
<1>8. CASE SendAcked
  <2>1. CASE Program[cMsg].recv
    BY <1>1, <1>2, <1>3, <1>4, <1>8, <2>1, CallerStays DEF SendAcked, Started, AnswerInv, sockVars
  <2>2. CASE ~Program[cMsg].recv
    <3>1. /\ cMsg' = cMsg + 1 /\ cPc = "send" /\ cPc' \in {"call", "done"}
          /\ cEv' \subseteq cEv /\ UNCHANGED <<cExpected, cRx>>
      BY <1>8, <2>2 DEF SendAcked, sockVars
    <3> QED BY <1>1, <1>2, <1>3, <1>4, <2>2, <3>1, CallerMoves DEF AnswerInv
  <2> QED BY <2>1, <2>2
<1>9. CASE SendRetry
  BY <1>1, <1>3, <1>4, <1>9, CallerStays DEF SendRetry, Started
<1>10. CASE RecvFin
  BY <1>1, <1>3, <1>4, <1>10, CallerStays DEF RecvFin, Started, sockVars
<1>11. CASE RecvReturn
  <2>1. /\ cMsg' = cMsg + 1 /\ cPc = "recvd" /\ cPc' \in {"call", "done"}
        /\ cEv' = cEv /\ UNCHANGED <<cExpected, cRx>>
    BY <1>11 DEF RecvReturn
  <2> QED BY <1>1, <1>2, <1>3, <1>4, <2>1, CallerReturns DEF AnswerInv
<1>12. CASE RecvNack \/ RecvWindow
  BY <1>1, <1>3, <1>4, <1>12, CallerStays DEF RecvNack, RecvWindow, Started, sockVars, callVars
<1>13. CASE RecvTimeout
  BY <1>1, <1>3, <1>4, <1>13, CallerStays DEF RecvTimeout, Started
<1> QED BY <1>2, <1>5, <1>6, <1>7, <1>8, <1>9, <1>10, <1>11, <1>12, <1>13
        DEF ClientThread, AnswerInv

\* The sizes of the answers.
LEMMA AnswerSizes ==
    ASSUME TypeInv, OrderInv, Usual, NEW a \in Nat, NEW z \in Nat, NEW b \in Int,
           ServerPart(a, z, b)
    PROVE  /\ Size(a) \in Nat /\ Size(z) \in Nat /\ sOff \in Nat
           /\ Size(a) + Size(z) <= SeqMod
           /\ Size(a) < SeqMod /\ Size(z) < SeqMod
           /\ sOff <= Size(a) /\ a <= cMsg /\ a <= Len(sDone) /\ Len(sDone) \in Nat
           /\ a <= Len(Program) /\ z <= Len(Program) /\ Len(Program) \in Nat
<1>1. /\ a <= Len(Program) /\ z <= Len(Program) /\ Len(Program) \in Nat /\ sOff \in Nat
      /\ a <= cMsg /\ a <= Len(sDone) /\ Len(sDone) \in Nat
  BY Numbers DEF ServerPart
<1>2. \A j, k \in 1 .. Len(Program) :
        Size(j) \in Nat /\ Size(k) \in Nat /\ Size(j) + Size(k) <= SeqMod
  BY Sizes DEF Usual, AnswersFit
<1>3. Size(0) = 0
  BY Sizes
<1>4. \A j \in 0 .. Len(Program) : Size(j) \in Nat /\ Size(j) + Size(j) <= SeqMod
  <2>1. \A j \in 0 .. Len(Program) : j = 0 \/ j \in 1 .. Len(Program)
    BY <1>1
  <2> QED BY <1>2, <1>3, <2>1
<1>5. Size(a) \in Nat /\ Size(z) \in Nat /\ Size(a) < SeqMod /\ Size(z) < SeqMod
  <2>1. a \in 0 .. Len(Program) /\ z \in 0 .. Len(Program)
    BY <1>1
  <2> QED BY <1>4, <2>1
<1>6. Size(a) + Size(z) <= SeqMod
  <2>1. CASE a = 0 \/ z = 0
    BY <1>3, <1>5, <2>1
  <2>2. CASE a # 0 /\ z # 0
    <3>1. a \in 1 .. Len(Program) /\ z \in 1 .. Len(Program)
      BY <1>1, <2>2
    <3> QED BY <1>2, <3>1
  <2> QED BY <2>1, <2>2
<1>7. sOff <= Size(a)
  BY DEF ServerPart
<1> QED BY <1>1, <1>5, <1>6, <1>7

\* The packet the client takes is the next of the answer to its operation.
LEMMA NextIsTaken ==
    ASSUME TypeInv, OrderInv, Usual, NEW a \in Nat, NEW z \in Nat, NEW b \in Int,
           AnswerInv(a, z, b), s2c # <<>>, Takes(Head(s2c))
    PROVE  /\ Mine(a) /\ Head(s2c).msg = a /\ Head(s2c).boot = 0
           /\ Head(s2c).idx = Len(cRx) + 1 /\ Len(cRx) + 1 <= sOff
           /\ Head(s2c).fin = (Len(cRx) + 1 = Size(a))
           /\ cExpected = Nr(b + Len(cRx)) /\ Head(s2c).seq = Nr(b + Len(cRx))
<1> DEFINE p == Head(s2c)
<1>1. ServerPart(a, z, b) /\ OnWire(s2c, a, z, b, sOff) /\ ClientPart(a, b)
  BY DEF AnswerInv
<1>2. /\ Size(a) \in Nat /\ Size(z) \in Nat /\ sOff \in Nat
      /\ Size(a) + Size(z) <= SeqMod
      /\ Size(a) < SeqMod /\ Size(z) < SeqMod
      /\ sOff <= Size(a)
  BY <1>1, AnswerSizes
<1>3. s2c \in Seq(ServerPacket) /\ Len(cRx) \in Nat
  BY Numbers
<1>4. p = s2c[1] /\ 1 \in 1 .. Len(s2c) /\ p \in ServerPacket
  BY <1>3, TailFacts
<1>5. p.idx # 0 /\ p.seq = cExpected
  BY DEF Takes
<1>6. IsPacket(p, a, z, b, sOff)
  BY <1>1, <1>4, <1>5 DEF OnWire
<1>7. p.idx \in Nat
  BY <1>4 DEF ServerPacket
<1>8. OnlyOf(s2c, a) => p.msg = a
  BY <1>4, <1>5 DEF OnlyOf
<1> HIDE DEF p
<1>9. Mine(a)
  <2>1. SUFFICES ASSUME ~Mine(a) PROVE FALSE
    OBVIOUS
  <2>2. p.msg = a /\ cExpected = Nr(b + sOff)
    BY <1>1, <1>8, <2>1 DEF ClientPart, Got
  <2>3. p.idx \in 1 .. sOff /\ p.seq = Nr(b + p.idx - 1)
    BY <1>6, <2>2 DEF IsPacket, Place
  <2>4. Nr(b + sOff) = Nr(b + p.idx - 1)
    BY <1>5, <2>2, <2>3
  <2>5. /\ b + sOff \in Int /\ b + p.idx - 1 \in Int
        /\ (b + sOff) - (b + p.idx - 1) < SeqMod
        /\ (b + p.idx - 1) - (b + sOff) < SeqMod
    BY <1>2, <1>7, <2>3, SMTT(30)
  <2>6. b + sOff = b + p.idx - 1
    BY <2>4, <2>5, NrSame
  <2> QED BY <1>2, <1>7, <2>3, <2>6
<1>10. Len(cRx) <= sOff /\ cExpected = Nr(b + Len(cRx))
  BY <1>1, <1>9 DEF ClientPart, Got
<1>11. p.msg = a
  <2>1. SUFFICES ASSUME p.msg # a PROVE FALSE
    OBVIOUS
  <2>2. p.idx \in 1 .. Size(z) /\ p.seq = Nr(b + (p.idx - Size(z)) - 1)
    BY <1>6, <2>1 DEF IsPacket, Place
  <2>3. cRx = <<>>
    BY <1>1, <1>8, <2>1 DEF ClientPart
  <2>4. Len(cRx) = 0
    BY <2>3
  <2>5. Nr(b + 0) = Nr(b + (p.idx - Size(z)) - 1)
    BY <1>5, <1>10, <2>2, <2>4
  <2>6. /\ b + 0 \in Int /\ b + (p.idx - Size(z)) - 1 \in Int
        /\ (b + 0) - (b + (p.idx - Size(z)) - 1) < SeqMod
        /\ (b + (p.idx - Size(z)) - 1) - (b + 0) < SeqMod
    BY <1>2, <1>7, <2>2, SMTT(30)
  <2>7. b + 0 = b + (p.idx - Size(z)) - 1
    BY <2>5, <2>6, NrSame
  <2> QED BY <1>2, <1>7, <2>2, <2>7
<1>12. p.idx \in 1 .. sOff /\ p.seq = Nr(b + p.idx - 1)
  <2>1. CASE a # 0 /\ p.msg = a /\ p.idx \in 1 .. sOff
    BY <1>6, <2>1 DEF IsPacket, Place
  <2>2. CASE z < a /\ p.msg = z
    BY <1>11, <2>2
  <2> QED BY <1>6, <2>1, <2>2 DEF IsPacket
<1>13. p.idx = Len(cRx) + 1
  <2>1. Nr(b + Len(cRx)) = Nr(b + p.idx - 1)
    BY <1>5, <1>10, <1>12
  <2>a. Len(cRx) < SeqMod /\ p.idx <= SeqMod /\ p.idx >= 1
    BY <1>2, <1>3, <1>10, <1>12, SMTT(30)
  <2>2. /\ b + Len(cRx) \in Int /\ b + p.idx - 1 \in Int
        /\ (b + Len(cRx)) - (b + p.idx - 1) < SeqMod
        /\ (b + p.idx - 1) - (b + Len(cRx)) < SeqMod
    BY <1>3, <1>7, <2>a, SMTT(30)
  <2>3. b + Len(cRx) = b + p.idx - 1
    BY <2>1, <2>2, NrSame
  <2> QED BY <1>3, <1>7, <2>3
<1>14. p.boot = 0 /\ p.fin = (p.idx = Size(a))
  BY <1>6, <1>11 DEF IsPacket
<1>15. p.seq = Nr(b + Len(cRx)) /\ Len(cRx) + 1 <= sOff
  BY <1>5, <1>10, <1>12, <1>13
<1> QED BY <1>9, <1>10, <1>11, <1>13, <1>14, <1>15 DEF p

LEMMA NothingBeforeSend ==
    ASSUME TypeInv, OrderInv, CallerInv, Usual, NEW a \in Nat, NEW z \in Nat, NEW b \in Int,
           AnswerInv(a, z, b), IstData, cPc = "discover"
    PROVE  cRx' = cRx
<1>1. SUFFICES ASSUME Takes(Head(s2c)) PROVE FALSE
  BY DEF IstData
<1>2. Mine(a)
  BY <1>1, NextIsTaken DEF IstData
<1>3. a <= Len(sDone) /\ Len(sDone) \in Nat
  BY AnswerSizes DEF AnswerInv
<1>4. cMsg = 1 /\ Len(sDone) < cMsg
  BY DEF TypeInv, CallInProgram, CallerInv
<1> QED BY <1>2, <1>3, <1>4 DEF Mine

\* So does _ist, which takes the next packet or none.
LEMMA ReceivedAnswer ==
    ASSUME TypeInv, OrderInv, Usual, NEW a \in Nat, NEW z \in Nat, NEW b \in Int,
           AnswerInv(a, z, b), Ist, UNCHANGED serverVars
    PROVE  AnswerInv(a, z, b)'
<1>1. ServerPart(a, z, b) /\ OnWire(s2c, a, z, b, sOff) /\ ClientPart(a, b)
  BY DEF AnswerInv
<1>2. /\ s2c \in Seq(ServerPacket) /\ s2c # <<>> /\ s2c' = Tail(s2c)
      /\ UNCHANGED <<cPc, cMsg, sOff, sDone>> /\ Len(cRx) \in Nat /\ cRx \in Seq(ServerPacket)
  BY Numbers DEF Ist, IstInform, IstData, callVars, serverVars, sendVars
<1>3. ServerPart(a, z, b)'
  BY <1>1 DEF serverVars, sendVars, ServerPart, IsPacket, Place
<1>4. OnWire(s2c, a, z, b, sOff)' /\ (OnlyOf(s2c, a) => OnlyOf(s2c, a)')
  <2>1. OnWire(Tail(s2c), a, z, b, sOff) /\ (OnlyOf(s2c, a) => OnlyOf(Tail(s2c), a))
    BY <1>1, <1>2, WireTail
  <2> QED BY <1>2, <2>1 DEF OnWire, IsPacket, Place, OnlyOf
<1>5. /\ Size(a) \in Nat /\ sOff \in Nat /\ sOff <= Size(a)
  BY <1>1, AnswerSizes
<1>6. CASE IstInform \/ (IstData /\ ~Takes(Head(s2c)))
  <2>1. UNCHANGED <<cRx, cExpected>> /\ ("FIN" \in cEv' => "FIN" \in cEv)
    BY <1>6 DEF IstInform, IstData, sockVars, Raises
  <2>2. ClientPart(a, b)'
    BY <1>1, <1>2, <1>4, <2>1 DEF ClientPart, Got, Mine, Same, Started, StartsOperation
  <2> QED BY <1>3, <1>4, <2>2 DEF AnswerInv
<1>7. CASE IstData /\ Takes(Head(s2c))
  <2> DEFINE p == Head(s2c)
  <2>1. /\ Mine(a) /\ p.msg = a /\ p.boot = 0
        /\ p.idx = Len(cRx) + 1 /\ Len(cRx) + 1 <= sOff
        /\ p.fin = (Len(cRx) + 1 = Size(a))
        /\ cExpected = Nr(b + Len(cRx)) /\ p.seq = Nr(b + Len(cRx))
    BY <1>2, <1>7, NextIsTaken
  <2>2. p \in ServerPacket /\ p.idx # 0
    BY <1>2, <1>7, TailFacts DEF Takes
  <2>3. /\ cRx' = Append(cRx, p) /\ cExpected' = Next12(p.seq)
        /\ cEv' = cEv \cup Raises(p)
    BY <1>7 DEF IstData
  <2>4. "FIN" \notin cEv /\ cPc # "recvd"
    BY <1>1, <1>2, <1>5, <2>1 DEF ClientPart
  <2>5. "FIN" \in cEv' => Len(cRx) + 1 = Size(a)
    BY <2>1, <2>3, <2>4 DEF Raises
  <2> HIDE DEF p
  <2>6. /\ Len(cRx') = Len(cRx) + 1
        /\ \A i \in 1 .. Len(cRx') : \/ i \in 1 .. Len(cRx) /\ cRx'[i] = cRx[i]
                                     \/ i = Len(cRx) + 1 /\ cRx'[i] = p
    BY <1>2, <2>2, <2>3, AppendFacts
  <2>7. Mine(a)' /\ Got(a)' = Len(cRx) + 1
    BY <1>2, <2>1, <2>6 DEF Mine, Same, Got
  <2>8. cExpected' = Nr(b + (Len(cRx) + 1))
    <3>1. b + Len(cRx) \in Int /\ b + Len(cRx) + 1 = b + (Len(cRx) + 1)
      BY <1>2
    <3>2. Next12(Nr(b + Len(cRx))) = Nr(b + Len(cRx) + 1)
      BY <3>1, NrNext
    <3> QED BY <2>1, <2>3, <3>1, <3>2
  <2>9. \A i \in 1 .. Len(cRx') :
          cRx'[i].idx = i /\ cRx'[i].msg = a /\ cRx'[i].boot = 0
    BY <1>1, <2>1, <2>6 DEF ClientPart
  <2>10. OnlyOf(s2c, a)'
    <3>1. OnlyOf(Tail(s2c), a)
      BY <1>1, <1>2, <2>1, <2>2, WireTail DEF p
    <3> QED BY <1>2, <3>1 DEF OnlyOf
  <2>11. \A k \in 1 .. Len(Program) :
           k < cMsg' /\ ~Same(k, cMsg') /\ Program[k].reply > 0 => k <= Len(sDone')
    BY <1>1, <1>2 DEF ClientPart, Same
  <2>12. ClientPart(a, b)'
    BY <1>2, <2>1, <2>4, <2>5, <2>6, <2>7, <2>8, <2>9, <2>10, <2>11 DEF ClientPart
  <2> QED BY <1>3, <1>4, <2>12 DEF AnswerInv
<1> QED BY <1>6, <1>7 DEF Ist

LEMMA AlarmAnswer ==
    ASSUME NEW a \in Nat, NEW z \in Nat, NEW b \in Int,
           AnswerInv(a, z, b), ClientAlarm, UNCHANGED serverVars
    PROVE  AnswerInv(a, z, b)'
<1>1. /\ UNCHANGED <<s2c, cPc, cMsg, cRx, cExpected, sOff, sDone>>
      /\ cEv' = cEv \cup {"TIMEOUT"}
  BY DEF ClientAlarm, Alarm, sockVars, callVars, serverVars, sendVars
<1>2. ServerPart(a, z, b)' /\ OnWire(s2c, a, z, b, sOff)'
  BY <1>1 DEF AnswerInv, serverVars, sendVars, ServerPart, OnWire, IsPacket, Place
<1>3. ClientPart(a, b)'
  BY <1>1 DEF AnswerInv, ClientPart, Got, Mine, Same, OnlyOf, Started, StartsOperation
<1> QED BY <1>2, <1>3 DEF AnswerInv

----------------------------------------------------------------------------
(* The answer under way, as the server sends it.                           *)

\* Steps that send nothing of an answer and start none.
LEMMA NothingNew ==
    ASSUME TypeInv, NEW a \in Nat, NEW z \in Nat, NEW b \in Int, AnswerInv(a, z, b),
           UNCHANGED <<cPc, cMsg, cRx, cExpected, cEv, sTx, sOff, sDone>>,
           sMode' # "idle" => sMode # "idle",
           sMode' \in {"stream", "window"} => sMode \in {"stream", "window"},
           sBuf' \cup sPend' \subseteq sBuf \cup sPend,
           \/ s2c' = s2c
           \/ s2c # <<>> /\ s2c' = Tail(s2c)
           \/ \E p \in ServerPacket : p.idx = 0 /\ s2c' = Append(s2c, p)
    PROVE  AnswerInv(a, z, b)'
<1>1. ServerPart(a, z, b) /\ OnWire(s2c, a, z, b, sOff) /\ ClientPart(a, b)
  BY DEF AnswerInv
<1>2. s2c \in Seq(ServerPacket)
  BY DEF TypeInv, TypeOK, NetTypeOK
<1>3. ServerPart(a, z, b)'
  BY <1>1 DEF ServerPart, IsPacket, Place
<1>4. OnWire(s2c', a, z, b, sOff) /\ (OnlyOf(s2c, a) => OnlyOf(s2c', a))
  <2>1. CASE s2c' = s2c
    BY <1>1, <2>1
  <2>2. CASE s2c # <<>> /\ s2c' = Tail(s2c)
    BY <1>1, <1>2, <2>2, WireTail
  <2>3. CASE \E p \in ServerPacket : p.idx = 0 /\ s2c' = Append(s2c, p)
    BY <1>1, <1>2, <2>3, WirePlain
  <2> QED BY <2>1, <2>2, <2>3
<1>5. OnWire(s2c, a, z, b, sOff)'
  BY <1>4 DEF OnWire, IsPacket, Place
<1>6. ClientPart(a, b)'
  BY <1>1, <1>4 DEF ClientPart, Got, Mine, Same, OnlyOf, Started, StartsOperation
<1> QED BY <1>3, <1>5, <1>6 DEF AnswerInv

LEMMA PlainReplies ==
    ASSUME TypeInv
    PROVE  /\ Inform \in ServerPacket /\ Inform.idx = 0
           /\ \A e \in SeqNr, b \in BOOLEAN :
                AckReply(e, b) \in ServerPacket /\ AckReply(e, b).idx = 0
           /\ sExpected \in SeqNr
BY ServerPackets DEF Inform, AckReply, TypeInv, TypeOK, ServerTypeOK

\* _retransmit_from and _send_data_packet keep AnswerInv.
LEMMA SentAgain ==
    ASSUME TypeInv, OrderInv, NEW a \in Nat, NEW z \in Nat, NEW b \in Int, AnswerInv(a, z, b),
           Retransmit, UNCHANGED clientVars
    PROVE  AnswerInv(a, z, b)'
<1>1. ServerPart(a, z, b) /\ OnWire(s2c, a, z, b, sOff) /\ ClientPart(a, b)
  BY DEF AnswerInv
<1>2. s2c \in Seq(ServerPacket) /\ sPend \subseteq ServerPacket
  BY DEF TypeInv, TypeOK, NetTypeOK, ServerTypeOK
<1>3. PICK q \in sPend : s2c' = Append(s2c, q) /\ sPend' = sPend \ {q}
  BY DEF Retransmit
<1>4. q.msg = a /\ q.idx # 0 /\ IsPacket(q, a, z, b, sOff) /\ q \in ServerPacket
  BY <1>1, <1>2 DEF ServerPart
<1>5. /\ UNCHANGED <<cPc, cMsg, cRx, cExpected, cEv, sTx, sOff, sDone, sMode, sBuf>>
  BY DEF Retransmit, clientVars, callVars, sockVars
<1>6. ServerPart(a, z, b)'
  BY <1>1, <1>3, <1>5 DEF ServerPart, IsPacket, Place
<1>7. OnWire(s2c', a, z, b, sOff) /\ (OnlyOf(s2c, a) => OnlyOf(s2c', a))
  BY <1>1, <1>2, <1>3, <1>4, WireReply
<1>8. OnWire(s2c, a, z, b, sOff)'
  BY <1>5, <1>7 DEF OnWire, IsPacket, Place
<1>9. ClientPart(a, b)'
  BY <1>1, <1>5, <1>7 DEF ClientPart, Got, Mine, Same, OnlyOf, Started, StartsOperation
<1> QED BY <1>6, <1>8, <1>9 DEF AnswerInv

LEMMA SentNext ==
    ASSUME TypeInv, OrderInv, Usual, NEW a \in Nat, NEW z \in Nat, NEW b \in Int, AnswerInv(a, z, b),
           SendPacket, UNCHANGED clientVars
    PROVE  AnswerInv(a, z, b)'
<1> DEFINE p == ReplyPacket(sOff + 1)
           o == sOff + 1
<1>1. ServerPart(a, z, b) /\ OnWire(s2c, a, z, b, sOff) /\ ClientPart(a, b)
  BY DEF AnswerInv
<1>2. s2c \in Seq(ServerPacket) /\ sDone # <<>> /\ sDone \in Seq(Request)
  BY DEF TypeInv, TypeOK, NetTypeOK, ServerTypeOK, SendPacket, AnswerHasRequest
<1>3. /\ Size(a) \in Nat /\ sOff \in Nat /\ Len(sDone) \in Nat /\ Len(cRx) \in Nat
      /\ a <= Len(Program)
  BY <1>1, AnswerSizes, Numbers
<1>4. a = Len(sDone) /\ sOff < Size(a) /\ sTx = Nr(b + sOff) /\ sPend = {} /\ sMode = "stream"
  BY <1>1 DEF ServerPart, SendPacket
<1>5. Len(sDone) # 0
  BY <1>2, EmptySeq
<1>6. sDone[a].msg = a /\ sDone[a].boot = 0 /\ a \in 1 .. Len(sDone)
  <2>1. a \in 1 .. Len(sDone)
    BY <1>3, <1>4, <1>5
  <2>2. sDone[a] = [msg |-> a, boot |-> 0]
    BY <2>1 DEF OrderInv, InOrderOnce
  <2> QED BY <2>1, <2>2
<1>7. p \in ServerPacket /\ p.idx = o /\ p.msg = a /\ p.boot = 0
      /\ p.fin = (o = Size(a)) /\ p.seq = Nr(b + sOff)
  <2>1. p \in ServerPacket
    BY <1>2, <1>3, ServerPackets DEF TypeInv
  <2>2. Size(a) = Program[a].reply
    BY <1>3, <1>4, <1>5, Sizes
  <2> QED BY <1>4, <1>6, <2>1, <2>2 DEF ReplyPacket, Answered
<1>8. /\ s2c' = Append(s2c, p) /\ sBuf' = sBuf \cup {p}
      /\ sMode' = IF p.fin THEN "final" ELSE "stream"
      /\ sTx' = Next12(sTx) /\ sOff' = o /\ sPend' = {}
      /\ sDone' = sDone
  BY <1>4 DEF SendPacket
<1>9. UNCHANGED <<cPc, cMsg, cRx, cExpected, cEv>>
  BY DEF clientVars, callVars, sockVars
<1>10. IsPacket(p, a, z, b, o)
  <2>1. b + o - 1 = b + sOff /\ o \in 1 .. o /\ a # 0
    BY <1>3, <1>4, <1>5
  <2> QED BY <1>7, <2>1 DEF IsPacket, Place
<1> HIDE DEF p
<1>11. sTx' = Nr(b + o)
  <2>1. b + sOff \in Int /\ b + sOff + 1 = b + o
    BY <1>3
  <2>2. Next12(Nr(b + sOff)) = Nr(b + sOff + 1)
    BY <2>1, NrNext
  <2> QED BY <1>4, <1>8, <2>1, <2>2
<1>12. o \in Nat /\ o <= Size(a) /\ (~p.fin => o < Size(a))
  <2>1. o \in Nat /\ o <= Size(a)
    BY <1>3, <1>4
  <2>2. ~p.fin => o # Size(a)
    BY <1>7
  <2> QED BY <1>3, <2>1, <2>2
<1>13. \A q \in sBuf' \cup sPend' : q.msg = a /\ q.idx # 0 /\ IsPacket(q, a, z, b, o)
  <2>1. \A q \in sBuf : IsPacket(q, a, z, b, o) /\ q.msg = a /\ q.idx # 0
    BY <1>1, <1>3, PacketGrows DEF ServerPart
  <2>2. o # 0
    BY <1>3
  <2> QED BY <1>7, <1>8, <1>10, <2>1, <2>2
<1>14. ServerPart(a, z, b)'
  <2>1. sMode' \in {"stream", "window"} => o < Size(a)
    BY <1>8, <1>12
  <2> QED BY <1>1, <1>4, <1>8, <1>11, <1>12, <1>13, <2>1 DEF ServerPart, IsPacket, Place
<1>15. OnWire(s2c', a, z, b, o) /\ (OnlyOf(s2c, a) => OnlyOf(s2c', a))
  <2>1. OnWire(s2c, a, z, b, o)
    BY <1>1, <1>3, PacketGrows DEF OnWire
  <2>2. p.idx # 0
    BY <1>3, <1>7
  <2> QED BY <1>2, <1>7, <1>8, <1>10, <2>1, <2>2, WireReply
<1>16. OnWire(s2c, a, z, b, sOff)'
  BY <1>8, <1>15 DEF OnWire, IsPacket, Place
<1>17. Mine(a)
  BY <1>1, <1>3, <1>4 DEF ClientPart
<1>18. ClientPart(a, b)'
  BY <1>1, <1>3, <1>8, <1>9, <1>15, <1>17 DEF ClientPart, Got, Mine, Same, OnlyOf
<1> QED BY <1>14, <1>16, <1>18 DEF AnswerInv

LEMMA WirePlains ==
    ASSUME NEW q \in Seq(ServerPacket), NEW p \in ServerPacket, p.idx = 0,
           NEW a \in Nat, NEW z, NEW b, NEW o, OnWire(q, a, z, b, o)
    PROVE  /\ OnWire(q \o <<p, p>>, a, z, b, o)
           /\ OnlyOf(q, a) => OnlyOf(q \o <<p, p>>, a)
<1> DEFINE r == Append(q, p)
<1>1. /\ OnWire(r, a, z, b, o) /\ (OnlyOf(q, a) => OnlyOf(r, a)) /\ r \in Seq(ServerPacket)
  BY WirePlain
<1>2. q \o <<p, p>> = Append(r, p)
  OBVIOUS
<1> HIDE DEF r
<1>3. OnWire(Append(r, p), a, z, b, o) /\ (OnlyOf(r, a) => OnlyOf(Append(r, p), a))
  BY <1>1, WirePlain
<1> QED BY <1>1, <1>2, <1>3

LEMMA RequestAck ==
    ASSUME TypeInv, HandleRequest, ~IsReset(Head(c2s))
    PROVE  \E p \in ServerPacket :
             /\ p.idx = 0
             /\ s2c' = IF Program[Head(c2s).msg].reply = 0 THEN s2c \o <<p, p>>
                       ELSE Append(s2c, p)
<1> DEFINE ack == AckReply(Next12(sExpected), TRUE)
           p == [ack EXCEPT !.seq = sTx]
<1>1. sExpected \in SeqNr /\ Next12(sExpected) \in SeqNr /\ sTx \in SeqNr
  BY SeqArithmetic DEF TypeInv, TypeOK, ServerTypeOK
<1>2. ack \in ServerPacket /\ ack.idx = 0
  BY <1>1, PlainReplies
<1>3. s2c' = IF Program[Head(c2s).msg].reply = 0 THEN s2c \o <<p, p>> ELSE Append(s2c, p)
  BY DEF HandleRequest
<1> HIDE DEF ack
<1>4. p \in ServerPacket /\ p.idx = 0
  BY <1>1, <1>2 DEF ServerPacket
<1> HIDE DEF p
<1> QED BY <1>3, <1>4

\* A request that is not answered.
LEMMA RequestSilent ==
    ASSUME TypeInv, OrderInv, Usual, NEW a \in Nat, NEW z \in Nat, NEW b \in Int,
           AnswerInv(a, z, b), HandleRequest, UNCHANGED clientVars,
           Program[Head(c2s).msg].reply = 0
    PROVE  AnswerInv(a, z, b)'
<1> DEFINE n == Len(sDone)
<1>1. ServerPart(a, z, b) /\ OnWire(s2c, a, z, b, sOff) /\ ClientPart(a, b)
  BY DEF AnswerInv
<1>2. /\ ~IsReset(Head(c2s)) /\ Head(c2s).msg = n + 1 /\ Len(sDone') = n + 1
      /\ n + 1 \in 1 .. Len(Program)
  BY RequestIsNext DEF Usual
<1>3. n \in Nat /\ a \in 0 .. n /\ z \in 0 .. n
  BY <1>1, Numbers DEF ServerPart
<1>4. sExpected \in SeqNr /\ Next12(sExpected) \in SeqNr /\ s2c \in Seq(ServerPacket)
  BY SeqArithmetic DEF TypeInv, TypeOK, ServerTypeOK, NetTypeOK
<1>5. PICK ack \in ServerPacket : ack.idx = 0 /\ s2c' = s2c \o <<ack, ack>>
  BY <1>2, RequestAck
<1>8. /\ UNCHANGED <<sTx, sOff, sPend, sMode>> /\ sMode = "idle"
      /\ sBuf' \subseteq sBuf
  BY <1>2 DEF HandleRequest, Busy, Unacked
<1>9. UNCHANGED <<cPc, cMsg, cRx, cExpected, cEv>>
  BY DEF clientVars, callVars, sockVars
<1>10. OnWire(s2c', a, z, b, sOff) /\ (OnlyOf(s2c, a) => OnlyOf(s2c', a))
  BY <1>1, <1>4, <1>5, WirePlains
<1>11. ServerPart(a, z, b)'
  <2>1. a \in 0 .. n + 1 /\ z \in 0 .. n + 1
    BY <1>3
  <2>2. \A k \in a + 1 .. n + 1 : k \in a + 1 .. n \/ k = n + 1
    BY <1>3
  <2>3. \A k \in a + 1 .. n + 1 : Program[k].reply = 0
    BY <1>1, <1>2, <2>2 DEF ServerPart
  <2> QED BY <1>1, <1>2, <1>8, <2>1, <2>3 DEF ServerPart, IsPacket, Place
<1>12. OnWire(s2c, a, z, b, sOff)'
  BY <1>8, <1>10 DEF OnWire, IsPacket, Place
<1>13. \A k \in 1 .. Len(Program) :
         k < cMsg /\ ~Same(k, cMsg) /\ Program[k].reply > 0 => k <= n + 1
  BY <1>1, <1>3 DEF ClientPart
<1>14. ClientPart(a, b)'
  BY <1>1, <1>2, <1>8, <1>9, <1>10, <1>13
     DEF ClientPart, Got, Mine, Same, OnlyOf, Started, StartsOperation
<1> QED BY <1>11, <1>12, <1>14 DEF AnswerInv

\* A request that is answered starts a new answer: the client has the whole
\* of the one before, and nothing of this one.
LEMMA RequestAnswered ==
    ASSUME TypeInv, OrderInv, CallerInv, Usual, NEW a \in Nat, NEW z \in Nat, NEW b \in Int,
           AnswerInv(a, z, b), HandleRequest, UNCHANGED clientVars,
           Program[Head(c2s).msg].reply # 0, NEW k \in Nat, k = Len(sDone) + 1
    PROVE  AnswerInv(k, a, b + Size(a))' /\ sOff = Size(a) /\ ~Mine(a)
<1> DEFINE n == Len(sDone)
           c == b + Size(a)
<1>1. ServerPart(a, z, b) /\ OnWire(s2c, a, z, b, sOff) /\ ClientPart(a, b)
  BY DEF AnswerInv
<1>2. /\ ~IsReset(Head(c2s)) /\ Head(c2s).msg = k /\ Len(sDone') = k
      /\ k \in 1 .. Len(Program) /\ c2s # <<>>
  BY RequestIsNext DEF Usual
<1>3. /\ n \in Nat /\ a \in 0 .. n /\ z \in 0 .. n /\ cMsg \in Nat /\ Len(Program) \in Nat
      /\ c2s \in Seq(ClientPacket) /\ Size(a) \in Nat /\ cMsg >= 1
  BY <1>1, Numbers, AnswerSizes DEF ServerPart
<1>4. k <= cMsg /\ 1 \in 1 .. Len(c2s) /\ c2s[1].msg = k
  <2>1. Head(c2s) = c2s[1] /\ 1 \in 1 .. Len(c2s)
    BY <1>2, <1>3, TailFacts
  <2> QED BY <1>2, <2>1, RequestsSent
<1>5. Program[k].reply > 0 /\ Size(k) = Program[k].reply
  BY <1>2, Sizes
<1>6. ~Mine(a)
  <2>1. SUFFICES ASSUME a # 0, Same(a, cMsg) PROVE FALSE
    BY DEF Mine
  <2>2. Same(a, k)
    BY <1>3, <1>4, <2>1, SameWithin
  <2>3. a \in 1 .. Len(Program) /\ a # k
    BY <1>2, <1>3, <2>1
  <2>4. Program[a].reply > 0
    BY <1>1, <2>1, <2>3, Sizes DEF ServerPart
  <2>5. Same(k, k)
    BY <1>3 DEF Same
  <2> QED BY <1>2, <1>3, <1>5, <2>2, <2>3, <2>4, <2>5, OnlyAnswer, SMTT(30)
<1>7. /\ sOff = Size(a) /\ cExpected = Nr(c) /\ OnlyOf(s2c, a)
      /\ "FIN" \notin cEv /\ cPc # "recvd" /\ (Started => cRx = <<>>)
  BY <1>1, <1>6 DEF ClientPart, Got
<1>8. Same(k, cMsg)
  <2>1. CASE k = cMsg
    BY <1>3, <2>1 DEF Same
  <2>2. CASE k < cMsg
    <3>1. ~(k <= n)
      BY <1>3
    <3> QED BY <1>1, <1>2, <1>5, <2>2, <3>1 DEF ClientPart
  <2> QED BY <1>3, <1>4, <2>1, <2>2
<1>9. Started
  <2>1. SUFFICES ASSUME cPc \in {"discover", "call", "done"}, StartsOperation(cMsg)
                 PROVE  FALSE
    BY DEF Started
  <2>2. k # cMsg
    <3>1. cPc = "done" => cMsg > Len(Program)
      BY DEF CallerInv
    <3>2. cPc \in {"discover", "call"} => c2s[1].msg # cMsg
      BY <1>4 DEF CallerInv
    <3> QED BY <1>2, <1>3, <1>4, <2>1, <3>1, <3>2
  <2>3. cMsg # 1 /\ cMsg - 1 \in k .. cMsg - 1
    <3>1. k \in Nat /\ k >= 1
      BY <1>2, <1>3
    <3> QED BY <1>3, <1>4, <2>2, <3>1
  <2> QED BY <1>8, <2>1, <2>3 DEF Same, StartsOperation
<1>10. cRx = <<>> /\ Len(cRx) = 0
  BY <1>7, <1>9
<1>11. /\ sTx' = sTx /\ sOff' = 0 /\ sPend' = {} /\ sBuf' = {} /\ sMode' = "stream"
  BY <1>2 DEF HandleRequest, Busy
<1>12. UNCHANGED <<cPc, cMsg, cRx, cExpected, cEv>>
  BY DEF clientVars, callVars, sockVars
<1>13. /\ OnWire(s2c', k, a, c, 0)
  <2>1. sExpected \in SeqNr /\ Next12(sExpected) \in SeqNr /\ s2c \in Seq(ServerPacket)
    BY SeqArithmetic DEF TypeInv, TypeOK, ServerTypeOK, NetTypeOK
  <2>2. PICK ack \in ServerPacket : ack.idx = 0 /\ s2c' = Append(s2c, ack)
    BY <1>2, RequestAck
  <2>5. OnWire(s2c, k, a, c, 0)
    <3>1. ASSUME NEW i \in 1 .. Len(s2c), s2c[i].idx # 0
          PROVE  IsPacket(s2c[i], k, a, c, 0) /\ s2c[i].msg # k
      <4>1. IsPacket(s2c[i], a, z, b, sOff) /\ s2c[i].msg = a
        BY <1>1, <1>7, <3>1 DEF OnWire, OnlyOf
      <4>2. a # k /\ a < k
        BY <1>3
      <4>3. a # 0 /\ s2c[i].idx \in 1 .. Size(a)
        BY <1>7, <4>1 DEF IsPacket
      <4>4. s2c[i].seq = Nr(b + s2c[i].idx - 1)
        BY <4>1 DEF IsPacket, Place
      <4>5. b + s2c[i].idx - 1 = c + (s2c[i].idx - Size(a)) - 1
        BY <1>3, <4>3, SMTT(30)
      <4> QED BY <4>1, <4>2, <4>3, <4>4, <4>5 DEF IsPacket, Place
    <3> QED BY <3>1 DEF OnWire
  <2>6. k \in Nat
    BY <1>3
  <2> QED BY <2>1, <2>2, <2>5, <2>6, WirePlain
<1>14. ServerPart(k, a, c)'
  <2>1. /\ k \in 0 .. k /\ a \in 0 .. k /\ c \in Int /\ k # 0
        /\ \A j \in k + 1 .. k : FALSE
        /\ Size(k) > 0 /\ 0 <= Size(k) /\ 0 < Size(k)
    BY <1>2, <1>3, <1>5, Sizes
  <2>2. sTx' = Nr(c + 0)
    <3>1. sTx = Nr(b + sOff)
      BY <1>1 DEF ServerPart
    <3>2. b + sOff = c + 0
      BY <1>3, <1>7
    <3> QED BY <1>11, <3>1, <3>2
  <2> HIDE DEF c
  <2> QED BY <1>2, <1>11, <2>1, <2>2 DEF ServerPart
<1>15. OnWire(s2c, k, a, c, sOff)'
  BY <1>11, <1>13 DEF OnWire, IsPacket, Place
<1>16. ClientPart(k, c)'
  <2>1. Mine(k) /\ k # 0
    BY <1>3, <1>8 DEF Mine
  <2>2. cExpected = Nr(c + Len(cRx))
    <3>1. c + 0 = c
      BY <1>3
    <3> QED BY <1>7, <1>10, <3>1
  <2>3. \A j \in 1 .. Len(Program) :
          j < cMsg /\ ~Same(j, cMsg) /\ Program[j].reply > 0 => j <= k
    BY <1>1, <1>3 DEF ClientPart
  <2> HIDE DEF c
  <2>4. Mine(k)'
    BY <1>12, <2>1 DEF Mine, Same
  <2>5. cExpected' = Nr(c + Got(k)')
    BY <1>12, <2>2, <2>4 DEF Got
  <2>6. \A i \in 1 .. Len(cRx') : FALSE
    BY <1>10, <1>12
  <2> QED BY <1>2, <1>7, <1>10, <1>11, <1>12, <2>3, <2>4, <2>5, <2>6 DEF ClientPart, Same
<1>17. sOff = Size(a) /\ ~Mine(a) /\ c = b + Size(a)
  BY <1>6, <1>7
<1>18. AnswerInv(k, a, c)'
  <2> HIDE DEF c
  <2> QED BY <1>14, <1>15, <1>16 DEF AnswerInv
<1> QED BY <1>17, <1>18

\* The other steps of the server send no packet of an answer.
LEMMA ServerQuiet ==
    ASSUME TypeInv, NEW a \in Nat, NEW z \in Nat, NEW b \in Int, AnswerInv(a, z, b),
           ServerThread \/ ServerAlarm, UNCHANGED clientVars,
           ~Retransmit, ~SendPacket, ~HandleRequest
    PROVE  AnswerInv(a, z, b)'
<1>1. UNCHANGED <<cPc, cMsg, cRx, cExpected, cEv>>
  BY DEF clientVars, callVars, sockVars
<1>2. CASE HandleDiscovery
  <2>1. UNCHANGED serverVars /\ s2c' = Append(s2c, Inform)
    BY <1>2 DEF HandleDiscovery
  <2> QED BY <1>1, <2>1, PlainReplies, NothingNew DEF serverVars, sendVars
<1>3. CASE HandleAck
  <2>1. /\ UNCHANGED <<sTx, sOff, sDone, sMode, sPend, s2c>> /\ sBuf' \subseteq sBuf
    BY <1>3 DEF HandleAck, sendVars, Unacked
  <2> QED BY <1>1, <2>1, NothingNew
<1>4. CASE HandleNack \/ WindowNack \/ FinalNack
  <2>1. UNCHANGED <<sTx, sOff, sDone, sMode, sBuf, s2c>> /\ sPend' \subseteq sBuf
    BY <1>4 DEF HandleNack, WindowNack, FinalNack, From
  <2> QED BY <1>1, <2>1, NothingNew
<1>5. CASE HandleDuplicate
  <2>1. /\ UNCHANGED <<sTx, sOff, sDone, sMode>> /\ sPend' \subseteq sBuf /\ sBuf' \subseteq sBuf
        /\ s2c' = Append(s2c, AckReply(sExpected, TRUE))
    BY <1>5 DEF HandleDuplicate, AllOf, Unacked
  <2>2. AckReply(sExpected, TRUE) \in ServerPacket /\ AckReply(sExpected, TRUE).idx = 0
    BY PlainReplies
  <2> QED BY <1>1, <2>1, <2>2, NothingNew
<1>6. CASE HandleGap
  <2>1. /\ UNCHANGED <<sTx, sOff, sDone, sMode, sPend>> /\ sBuf' \subseteq sBuf
        /\ s2c' = Append(s2c, AckReply(sExpected, FALSE))
    BY <1>6 DEF HandleGap, sendVars, Unacked
  <2>2. AckReply(sExpected, FALSE) \in ServerPacket /\ AckReply(sExpected, FALSE).idx = 0
    BY PlainReplies
  <2> QED BY <1>1, <2>1, <2>2, NothingNew
<1>7. CASE WindowFull
  <2>1. UNCHANGED <<sTx, sOff, sDone, sPend, sBuf, s2c>> /\ sMode = "stream"
    BY <1>7 DEF WindowFull, netVars
  <2> QED BY <1>1, <2>1, NothingNew
<1>8. CASE DropRequest
  <2>1. UNCHANGED serverVars /\ s2c' = s2c
    BY <1>8 DEF DropRequest
  <2> QED BY <1>1, <2>1, NothingNew DEF serverVars, sendVars
<1>9. CASE WindowAck
  <2>1. UNCHANGED <<sTx, sOff, sDone, sPend, s2c>> /\ sMode = "window" /\ sBuf' \subseteq sBuf
    BY <1>9 DEF WindowAck, Unacked
  <2> QED BY <1>1, <2>1, NothingNew
<1>10. CASE FinalAck
  <2>1. /\ UNCHANGED <<sTx, sOff, sDone, sPend, s2c>> /\ sMode = "final" /\ sBuf' \subseteq sBuf
        /\ sMode' \in {"final", "idle"}
    BY <1>10 DEF FinalAck, Unacked
  <2> QED BY <1>1, <2>1, NothingNew
<1>11. CASE ServerAlarm
  <2>1. CASE WindowTimeout(Silent)
    <3>1. /\ UNCHANGED <<sTx, sOff, sDone, sBuf, s2c>> /\ sMode = "window" /\ sPend' \subseteq sBuf
      BY <2>1 DEF WindowTimeout, AllOf
    <3> QED BY <1>1, <3>1, NothingNew
  <2>2. CASE FinalTimeout(Silent)
    <3>1. /\ UNCHANGED <<sTx, sOff, sDone, sBuf, s2c>> /\ sMode = "final"
          /\ sPend' \subseteq sBuf \cup sPend /\ sMode' \in {"final", "idle"}
      BY <2>2 DEF FinalTimeout, AllOf
    <3> QED BY <1>1, <3>1, NothingNew
  <2> QED BY <1>11, <2>1, <2>2 DEF ServerAlarm
<1> QED BY <1>2, <1>3, <1>4, <1>5, <1>6, <1>7, <1>8, <1>9, <1>10, <1>11 DEF ServerThread

NewAnswer == ServerStep /\ HandleRequest /\ Program[Head(c2s).msg].reply # 0

\* Every step but a request that is answered keeps the answer under way.
LEMMA AnswerStep ==
    ASSUME TypeInv, OrderInv, CallerInv, Usual, NEW a \in Nat, NEW z \in Nat, NEW b \in Int,
           AnswerInv(a, z, b), [Next]_vars, ~NewAnswer
    PROVE  AnswerInv(a, z, b)'
<1>1. CASE ClientStep
  BY <1>1, CallerAnswer, ReceivedAnswer, AlarmAnswer DEF ClientStep
<1>2. CASE ServerStep
  BY <1>2, ServerQuiet, SentAgain, SentNext, RequestSilent DEF ServerStep, NewAnswer
<1>3. CASE NetStep
  <2>1. /\ UNCHANGED <<cPc, cMsg, cRx, cExpected, cEv, sTx, sOff, sDone, sMode, sBuf, sPend>>
        /\ s2c' = s2c \/ (s2c # <<>> /\ s2c' = Tail(s2c))
    BY <1>3 DEF NetStep, LoseToServer, LoseToClient, clientVars, callVars, sockVars,
                serverVars, sendVars
  <2> QED BY <2>1, NothingNew
<1>4. CASE UNCHANGED vars
  <2>1. UNCHANGED <<cPc, cMsg, cRx, cExpected, cEv, sTx, sOff, sDone, sMode, sBuf, sPend, s2c>>
    BY <1>4 DEF vars, netVars, clientVars, callVars, sockVars, serverVars, sendVars
  <2> QED BY <2>1, NothingNew
<1> QED BY <1>1, <1>2, <1>3, <1>4 DEF Next

\* A request that is answered makes its own the answer under way.
LEMMA ReplyStep ==
    ASSUME TypeInv, OrderInv, OrderInv', Usual, ReplyInv, [Next]_vars
    PROVE  ReplyInv'
<1>1. PICK a \in Nat, z \in Nat, b \in Int : AnswerInv(a, z, b)
  BY DEF ReplyInv
<1>2. CallerInv
  BY DEF ReplyInv
<1>3. CallerInv'
  <2>1. Ist => (cPc = "discover" => cRx' = cRx)
    BY <1>1, <1>2, NothingBeforeSend DEF Ist, IstInform, sockVars
  <2> QED BY <1>2, <2>1, CallerStep DEF Usual
<1>4. CASE NewAnswer
  <2>1. PICK k \in Nat : k = Len(sDone) + 1
    BY Numbers
  <2>2. AnswerInv(k, a, b + Size(a))'
    BY <1>1, <1>2, <1>4, <2>1, RequestAnswered DEF ServerStep, NewAnswer
  <2>3. b + Size(a) \in Int
    BY <1>1, AnswerSizes DEF AnswerInv
  <2> QED BY <1>1, <1>3, <2>1, <2>2, <2>3 DEF ReplyInv
<1>5. CASE ~NewAnswer
  BY <1>1, <1>2, <1>3, <1>5, AnswerStep DEF ReplyInv
<1> QED BY <1>4, <1>5

LEMMA ReplyInit == Init => ReplyInv
<1> SUFFICES ASSUME Init PROVE ReplyInv
  OBVIOUS
<1>1. /\ cPc = "discover" /\ cState = "DISCOVERING" /\ cMsg = 1 /\ cEv = {} /\ cOk = {}
      /\ cExpected = 0 /\ cBuffer = FALSE /\ cRx = <<>> /\ c2s = <<Discovery>>
      /\ s2c = <<>> /\ sMode = "idle" /\ sTx = 0 /\ sBuf = {} /\ sPend = {} /\ sOff = 0
      /\ sDone = <<>> /\ Len(sDone) = 0
  BY DEF Init, ClientInit, ServerInit, NetInit
<1>2. CallerInv
  <2>1. HasFirst(1)
    BY DEF HasFirst, StartsOperation
  <2>2. {j \in 1 .. 1 - 1 : Program[j].recv} = {}
    OBVIOUS
  <2>3. \A i \in 1 .. Len(c2s) : c2s[i].msg # 1
    BY <1>1 DEF Discovery
  <2> QED BY <1>1, <2>1, <2>2, <2>3 DEF CallerInv
<1>3. AnswerInv(0, 0, 0)
  <2>1. Size(0) = 0 /\ Nr(0 + 0) = 0
    BY Sizes, NrSmall
  <2>2. ServerPart(0, 0, 0)
    BY <1>1, <2>1 DEF ServerPart
  <2>3. OnWire(s2c, 0, 0, 0, sOff) /\ OnlyOf(s2c, 0)
    BY <1>1 DEF OnWire, OnlyOf
  <2>4. ClientPart(0, 0)
    BY <1>1, <2>1, <2>3 DEF ClientPart, Mine, Got, Same
  <2> QED BY <2>2, <2>3, <2>4 DEF AnswerInv
<1> QED BY <1>2, <1>3 DEF ReplyInv

\* With the answer at its place in the buffer, the buffer is as it should be.
LEMMA ReplyInvIntact ==
    ASSUME TypeInv, OrderInv, Usual, ReplyInv
    PROVE  ReplyIntact
<1>1. PICK a \in Nat, z \in Nat, b \in Int : AnswerInv(a, z, b)
  BY DEF ReplyInv
<1>2. ServerPart(a, z, b) /\ ClientPart(a, b) /\ CallerInv
  BY <1>1 DEF AnswerInv, ReplyInv
<1>3. cMsg \in Nat /\ cMsg >= 1 /\ Len(cRx) \in Nat /\ cBoot = 0
  BY Numbers DEF OrderInv
<1>4. a <= cMsg /\ a <= Len(Program) /\ Len(Program) \in Nat
  BY <1>2, AnswerSizes
<1>5. ASSUME cBuffer, NEW i \in 1 .. Len(cRx)
      PROVE  cRx[i].idx = i /\ cRx[i].msg \in FirstOf(cMsg) .. cMsg /\ cRx[i].boot = cBoot
  <2>1. Started /\ cRx # <<>>
    BY <1>2, <1>5 DEF CallerInv
  <2>2. Mine(a)
    BY <1>2, <2>1 DEF ClientPart
  <2>3. cRx[i].idx = i /\ cRx[i].msg = a /\ cRx[i].boot = 0
    BY <1>2, <1>5, <2>2 DEF ClientPart
  <2>4. FirstOf(cMsg) \in Int /\ FirstOf(cMsg) <= a
    BY <1>2, <1>3, <2>2, FirstIsFirst DEF Mine, CallerInv
  <2> QED BY <1>3, <1>4, <2>3, <2>4
<1>6. ASSUME cPc = "recvd"
      PROVE  cRx # <<>> /\ Len(cRx) = Program[cRx[1].msg].reply
  <2>1. Mine(a) /\ Len(cRx) = Size(a) /\ Size(a) > 0 /\ a # 0
    BY <1>2, <1>6 DEF ClientPart, Mine, ServerPart
  <2>2. 1 \in 1 .. Len(cRx) /\ cRx # <<>>
    BY <1>3, <2>1
  <2>3. cRx[1].msg = a
    BY <1>2, <2>1, <2>2 DEF ClientPart
  <2> QED BY <2>1, <2>2, <2>3 DEF Size
<1> QED BY <1>5, <1>6 DEF ReplyIntact

(* The receive buffer holds a prefix of the answer to the operation the    *)
(* caller is in, without gap, repeat or packet of an earlier answer, and   *)
(* udprdma_recv succeeds only when the whole answer is there (_ist,        *)
(* udprdma_recv), for every session shorter than the sequence space whose  *)
(* operations have one answer each, of sizes that fit the numbers.         *)
THEOREM AnswerIsIntact ==
    ASSUME Len(Program) < SeqMod, OneAnswer, AnswersFit
    PROVE  Spec => []ReplyIntact
<1>0. Usual
  BY DEF Usual
<1>1. Init => TypeInv /\ OrderInv /\ ReplyInv
  BY InitTyped, InitOrdered, ReplyInit
<1>2. TypeInv /\ OrderInv /\ ReplyInv /\ [Next]_vars => TypeInv' /\ OrderInv' /\ ReplyInv'
  <2>1. TypeInv /\ OrderInv /\ [Next]_vars => TypeInv' /\ OrderInv'
    BY TypeStep, OrderStep
  <2> QED BY <1>0, <2>1, ReplyStep
<1>3. TypeInv /\ OrderInv /\ ReplyInv => ReplyIntact
  BY <1>0, ReplyInvIntact
<1>4. QED BY <1>1, <1>2, <1>3, PTL DEF Spec

----------------------------------------------------------------------------
(* The refinement.                                                         *)

Executed == [i \in 1 .. Len(sDone) |-> sDone[i].msg]
Broken == cState = "DISCONNECTED"

\* Executed requests are numbered from 1.
LEMMA ExecutedNumbers ==
    ASSUME TypeInv, OrderInv
    PROVE  Executed = [i \in 1 .. Len(sDone) |-> i] /\ Len(sDone) \in Nat
<1>1. \A i \in 1 .. Len(sDone) : sDone[i].msg = i
  <2> TAKE i \in 1 .. Len(sDone)
  <2>1. sDone[i] = [msg |-> i, boot |-> 0]
    BY DEF OrderInv, InOrderOnce
  <2> QED BY <2>1
<1> QED BY <1>1, Numbers DEF Executed

LEMMA UpTo ==
    ASSUME NEW n \in Nat
    PROVE  /\ [i \in 1 .. n |-> i] \in Seq(Nat)
           /\ Len([i \in 1 .. n |-> i]) = n
           /\ Append([i \in 1 .. n |-> i], n + 1) = [i \in 1 .. n + 1 |-> i]
<1> DEFINE f(m) == [i \in 1 .. m |-> i]
<1>1. \A m \in Nat : f(m) \in Seq(Nat) /\ Len(f(m)) = m
  <2> SUFFICES ASSUME NEW m \in Nat PROVE f(m) \in Seq(Nat) /\ Len(f(m)) = m
    OBVIOUS
  <2>1. f(m) \in [1 .. m -> Nat]
    OBVIOUS
  <2>2. f(m) \in Seq(Nat)
    BY <2>1, SeqDef
  <2>3. DOMAIN f(m) = 1 .. m
    OBVIOUS
  <2> QED BY <2>2, <2>3, LenProperties
<1>2. n + 1 \in Nat
  OBVIOUS
<1>3. /\ Append(f(n), n + 1) \in Seq(Nat) /\ Len(Append(f(n), n + 1)) = n + 1
      /\ \A i \in 1 .. n : Append(f(n), n + 1)[i] = f(n)[i]
      /\ Append(f(n), n + 1)[n + 1] = n + 1
  <2> HIDE DEF f
  <2> QED BY <1>1, <1>2, AppendProperties
<1>4. \A i \in 1 .. n + 1 : Append(f(n), n + 1)[i] = f(n + 1)[i]
  <2>1. \A i \in 1 .. n + 1 : i \in 1 .. n \/ i = n + 1
    OBVIOUS
  <2>2. \A i \in 1 .. n : f(n)[i] = i
    OBVIOUS
  <2>3. \A i \in 1 .. n + 1 : f(n + 1)[i] = i
    OBVIOUS
  <2> HIDE DEF f
  <2> QED BY <1>3, <2>1, <2>2, <2>3
<1>5. Append(f(n), n + 1) = f(n + 1)
  <2> HIDE DEF f
  <2> QED BY <1>1, <1>2, <1>3, <1>4, SeqEqual
<1> QED BY <1>1, <1>5

\* Every step is one of UdprdmaReliable or changes nothing it sees.
LEMMA StepImplements ==
    ASSUME TypeInv, OrderInv, OrderInv', Usual, ReplyInv, [Next]_vars
    PROVE  [Reliable!Next]_(Reliable!vars)
<1>0. PICK a \in Nat, z \in Nat, b \in Int : AnswerInv(a, z, b)
  BY DEF ReplyInv
<1>1. CallerInv
  BY DEF ReplyInv
<1>2. CASE ServerStep /\ HandleRequest
  <2>1. /\ Len(sDone') = Len(sDone) + 1 /\ Len(sDone) + 1 \in 1 .. Len(Program)
        /\ sDone' = Append(sDone, [msg |-> Len(sDone) + 1, boot |-> 0])
    BY <1>2, RequestIsNext DEF Usual
  <2>2. Executed = [i \in 1 .. Len(sDone) |-> i] /\ Len(sDone) \in Nat
    BY ExecutedNumbers
  <2>3. Executed' = [i \in 1 .. Len(sDone) + 1 |-> i]
    <3>1. \A i \in 1 .. Len(sDone') : sDone'[i].msg = i
      <4> TAKE i \in 1 .. Len(sDone')
      <4>1. sDone'[i] = [msg |-> i, boot |-> 0]
        BY DEF OrderInv, InOrderOnce
      <4> QED BY <4>1
    <3> QED BY <2>1, <3>1 DEF Executed
  <2>4. Len(Executed) = Len(sDone) /\ Executed' = Append(Executed, Len(Executed) + 1)
    BY <2>2, <2>3, UpTo
  <2>5. UNCHANGED <<cOk, Broken>>
    BY <1>2 DEF ServerStep, clientVars, callVars, Broken
  <2>6. Len(Executed) < Len(Program)
    BY <2>1, <2>2, <2>4, LenProperties
  <2>7. Reliable!Execute
    BY <2>4, <2>5, <2>6 DEF Reliable!Execute, Executed, Broken
  <2> QED BY <2>7 DEF Reliable!Next
<1>3. CASE ClientStep /\ RecvReturn
  <2>1. ServerPart(a, z, b) /\ ClientPart(a, b) /\ cPc = "recvd"
    BY <1>0, <1>3 DEF AnswerInv, ClientStep, RecvReturn
  <2>2. /\ Mine(a) /\ a # 0 /\ Same(a, cMsg) /\ Size(a) > 0
    BY <2>1 DEF ServerPart, ClientPart, Mine
  <2>3. /\ cMsg \in 1 .. Len(Program) /\ Len(Program) \in Nat /\ Len(sDone) \in Nat
        /\ a \in 1 .. cMsg /\ a <= Len(sDone) /\ Size(a) = Program[a].reply
    <3>1. cMsg \in Nat /\ cMsg >= 1 /\ cMsg <= Len(Program) /\ Len(Program) \in Nat
          /\ Len(sDone) \in Nat
      BY <2>1, Numbers DEF TypeInv, CallInProgram
    <3>2. a <= cMsg /\ a <= Len(sDone) /\ a <= Len(Program)
      BY <2>1, AnswerSizes
    <3> QED BY <2>2, <3>1, <3>2, Sizes
  <2>4. /\ Program[cMsg].recv /\ cState = "CONNECTED"
        /\ cOk = {j \in 1 .. cMsg - 1 : Program[j].recv}
    BY <1>1, <2>1 DEF CallerInv
  <2>5. Len(Executed) = Len(sDone)
    <3>1. Executed = [i \in 1 .. Len(sDone) |-> i] /\ Len(sDone) \in Nat
      BY ExecutedNumbers
    <3> QED BY <3>1, UpTo
  <2>6. /\ cOk' = cOk \cup {cMsg} /\ cState' = cState /\ sDone' = sDone
    BY <1>3 DEF ClientStep, RecvReturn, serverVars
  <2>7. Reliable!SameOperation(a, cMsg)
    BY <2>2 DEF Same, Reliable!SameOperation
  <2>8. cMsg \notin cOk /\ \A j \in 1 .. cMsg - 1 : Program[j].recv => j \in cOk
    BY <2>3, <2>4
  <2>9. UNCHANGED <<Executed, Broken>> /\ ~Broken
    BY <2>4, <2>6 DEF Executed, Broken
  <2>10. \E j \in 1 .. cMsg : /\ Reliable!SameOperation(j, cMsg)
                              /\ j <= Len(Executed) /\ Program[j].reply > 0
    BY <2>2, <2>3, <2>5, <2>7
  <2>11. Reliable!Answer(cMsg)
    BY <2>4, <2>6, <2>8, <2>9, <2>10 DEF Reliable!Answer, Executed, Broken
  <2> QED BY <2>3, <2>11 DEF Reliable!Next
<1>4. CASE ~(ServerStep /\ HandleRequest) /\ ~(ClientStep /\ RecvReturn)
  <2>1. UNCHANGED <<sDone, cOk>>
    BY <1>4 DEF Next, ClientStep, ServerStep, NetStep, vars, serverVars, clientVars,
         callVars, ClientThread, Discovered, DiscoverTimeout, SendCall, SendAcked,
         SendRetry, RecvFin, RecvNack, RecvWindow, RecvTimeout, Ist, IstInform, IstData,
         ClientAlarm, Alarm, ServerThread, ServerAlarm, HandleDiscovery, HandleAck,
         HandleNack, HandleDuplicate, HandleGap, Retransmit, SendPacket, WindowFull,
         DropRequest, WindowAck, WindowNack, FinalAck, FinalNack, WindowTimeout, FinalTimeout
  <2>2. UNCHANGED Broken \/ (~Broken /\ Broken')
    <3>1. CASE ClientStep /\ Discovered
      BY <1>1, <3>1 DEF Discovered, CallerInv, Broken
    <3>2. CASE ClientStep /\ (DiscoverTimeout \/ SendRetry \/ RecvTimeout)
      BY <1>1, <3>2 DEF DiscoverTimeout, SendRetry, RecvTimeout, CallerInv, Broken
    <3>3. CASE ~(ClientStep /\ (Discovered \/ DiscoverTimeout \/ SendRetry \/ RecvTimeout))
      <4>1. cState' = cState
        BY <1>4, <3>3 DEF Next, ClientStep, ServerStep, NetStep, vars, serverVars, clientVars,
         callVars, ClientThread, SendCall, SendAcked,
         RecvFin, RecvReturn, RecvNack, RecvWindow, Ist, IstInform, IstData,
         ClientAlarm, Alarm
      <4> QED BY <4>1 DEF Broken
    <3> QED BY <3>1, <3>2, <3>3
  <2>3. UNCHANGED Executed
    BY <2>1 DEF Executed
  <2> QED BY <2>1, <2>2, <2>3
          DEF Reliable!Next, Reliable!vars, Reliable!Break, Executed, Broken
<1> QED BY <1>2, <1>3, <1>4

(* The same sessions implement UdprdmaReliable, step by step: a request is *)
(* executed once and in its turn (_handle_data), an operation is answered  *)
(* only after that (udprdma_recv), and the connection may break            *)
(* (udprdma_send and udprdma_recv give up).                                *)
THEOREM SessionIsReliable ==
    ASSUME Len(Program) < SeqMod, OneAnswer, AnswersFit
    PROVE  Spec => ImplementsReliable
<1>0. Usual
  BY DEF Usual
<1>1. Init => TypeInv /\ OrderInv /\ ReplyInv
  BY InitTyped, InitOrdered, ReplyInit
<1>2. TypeInv /\ OrderInv /\ ReplyInv /\ [Next]_vars => TypeInv' /\ OrderInv' /\ ReplyInv'
  <2>1. TypeInv /\ OrderInv /\ [Next]_vars => TypeInv' /\ OrderInv'
    BY TypeStep, OrderStep
  <2> QED BY <1>0, <2>1, ReplyStep
<1>3. Init => Reliable!Init
  <2>1. SUFFICES ASSUME Init PROVE Reliable!Init
    OBVIOUS
  <2>2. sDone = <<>> /\ cOk = {} /\ cState = "DISCOVERING"
    BY <2>1 DEF Init, ClientInit, ServerInit
  <2>3. Executed = <<>>
    <3>1. Executed = [i \in 1 .. 0 |-> i]
      BY <2>2 DEF Executed
    <3>2. [i \in 1 .. 0 |-> i] \in Seq(Nat) /\ Len([i \in 1 .. 0 |-> i]) = 0
      BY UpTo
    <3> QED BY <3>1, <3>2, EmptySeq
  <2> QED BY <2>2, <2>3 DEF Reliable!Init, Executed
<1>4. TypeInv /\ OrderInv /\ ReplyInv /\ [Next]_vars => [Reliable!Next]_(Reliable!vars)
  <2>1. TypeInv /\ OrderInv /\ [Next]_vars => OrderInv'
    BY <1>0, OrderStep
  <2> QED BY <1>0, <2>1, StepImplements
<1> QED BY <1>1, <1>2, <1>3, <1>4, PTL DEF Spec, ImplementsReliable, Reliable!Spec

----------------------------------------------------------------------------
(* The window.                                                             *)

\* AtOrAfter orders the packets of a window, as "< 2048" does in the code.
SmallWindow == 2 * (SendWindow - 1) < SeqMod

\* The packet a client's packet asks for next, how far it is behind the one
\* the client asks for now, and how far the server is ahead of that.
Wants(p) == IF p.msg # 0 \/ p.isAck THEN Next12(p.ack) ELSE p.ack
LagOf(e, p) == Diff12(e, Wants(p))
Lag == Diff12(cExpected, Next12(sAcked))
Ahead == Diff12(sTx, cExpected)

\* Acknowledgments on the wire are behind by at most r, the later the less.
AcksWithin(q, e, r) ==
    \A i \in 1 .. Len(q) : q[i].type = "DATA" => LagOf(e, q[i]) <= r
AcksInOrder(q, e) ==
    \A i, j \in 1 .. Len(q) :
      i < j /\ q[i].type = "DATA" /\ q[j].type = "DATA"
        => LagOf(e, q[j]) <= LagOf(e, q[i])

\* Requests whose answers are still to come leave nothing unacknowledged.
Current(q, e, n) ==
    \A i \in 1 .. Len(q) :
      q[i].type = "DATA" /\ q[i].msg > n /\ Program[q[i].msg].reply > 0
        => LagOf(e, q[i]) = 0

WindowInv(a) ==
    /\ Ahead <= SendWindow
    /\ AcksWithin(c2s, cExpected, SendWindow - Ahead)
    /\ AcksInOrder(c2s, cExpected)
    /\ sDone # <<>> => Lag <= SendWindow - Ahead /\ AcksWithin(c2s, cExpected, Lag)
    /\ sMode = "stream" /\ sOff = 0 => Lag = 0
    /\ sMode = "window" => sOff > 0
    /\ ~Mine(a) => Current(c2s, cExpected, Len(sDone))
    /\ sMode # "idle" =>
         \A i \in 1 .. sOff : i > Got(a) - Lag => \E q \in sBuf : q.idx = i

AnswerWindow ==
    \E a \in Nat, z \in Nat, b \in Int : AnswerInv(a, z, b) /\ WindowInv(a)

LEMMA SeqNrIsNr ==
    ASSUME NEW x \in SeqNr
    PROVE  x \in Int /\ Nr(x) = x
BY NrSmall DEF SeqNr

LEMMA NextOfPrev ==
    ASSUME NEW x \in SeqNr
    PROVE  Next12(Prev12(x)) = x /\ Prev12(x) \in SeqNr
<1>1. x \in Int /\ Nr(x) = x /\ x - 1 \in Int /\ x - 1 + 1 = x
  BY SeqNrIsNr
<1>2. Prev12(Nr(x)) = Nr(x - 1)
  BY <1>1, NrNext
<1>3. Next12(Nr(x - 1)) = Nr(x - 1 + 1)
  BY <1>1, NrNext
<1> QED BY <1>1, <1>2, <1>3, SeqArithmetic

LEMMA DiffSelf ==
    ASSUME NEW x \in SeqNr
    PROVE  Diff12(x, x) = 0
<1>1. x \in Int /\ Nr(x) = x /\ x - x = 0 /\ 0 \in 0 .. SeqMod - 1
  BY SeqNrIsNr
<1>2. Diff12(Nr(x), Nr(x)) = Nr(x - x)
  BY <1>1, NrDiff
<1>3. Nr(0) = 0
  BY <1>1, NrSmall
<1> QED BY <1>1, <1>2, <1>3

\* The client asks for the next packet: what was asked before lags one more.
LEMMA LagGrows ==
    ASSUME NEW e \in SeqNr, NEW x \in SeqNr, Diff12(e, x) < SeqMod - 1
    PROVE  Diff12(Next12(e), x) = Diff12(e, x) + 1
<1> DEFINE d == Diff12(e, x)
<1>1. e \in Int /\ x \in Int /\ Nr(e) = e /\ Nr(x) = x /\ e + 1 \in Int /\ e - x \in Int
  BY SeqNrIsNr
<1>2. d = Nr(e - x) /\ d \in SeqNr
  <2>1. Diff12(Nr(e), Nr(x)) = Nr(e - x)
    BY <1>1, NrDiff
  <2> QED BY <1>1, <2>1, NrType
<1>3. d + 1 \in 0 .. SeqMod - 1 /\ d \in Int
  BY <1>2 DEF SeqNr
<1>4. Next12(e) = Nr(e + 1)
  BY <1>1, NrNext
<1>5. Diff12(Nr(e + 1), Nr(x)) = Nr(e + 1 - x)
  BY <1>1, NrDiff
<1>6. Next12(Nr(e - x)) = Nr(e - x + 1)
  BY <1>1, NrNext
<1>7. e + 1 - x = e - x + 1
  BY <1>1
<1>8. Nr(d + 1) = d + 1
  BY <1>3, NrSmall
<1>9. Next12(d) = Nr(d + 1)
  BY DEF Next12, Nr
<1> QED BY <1>1, <1>2, <1>4, <1>5, <1>6, <1>7, <1>8, <1>9

\* A distance made of two.
LEMMA DiffSum ==
    ASSUME NEW t \in SeqNr, NEW e \in SeqNr, NEW x \in SeqNr,
           Diff12(t, e) + Diff12(e, x) < SeqMod
    PROVE  Diff12(t, x) = Diff12(t, e) + Diff12(e, x)
<1>1. t \in Int /\ e \in Int /\ x \in Int /\ Nr(t) = t /\ Nr(e) = e /\ Nr(x) = x
  BY SeqNrIsNr
<1>2. /\ Diff12(t, e) = Nr(t - e) /\ Diff12(e, x) = Nr(e - x) /\ Diff12(t, x) = Nr(t - x)
  <2>1. /\ Diff12(Nr(t), Nr(e)) = Nr(t - e) /\ Diff12(Nr(e), Nr(x)) = Nr(e - x)
        /\ Diff12(Nr(t), Nr(x)) = Nr(t - x)
    BY <1>1, NrDiff
  <2> QED BY <1>1, <2>1
<1>3. Nr(t - e) \in SeqNr /\ Nr(e - x) \in SeqNr /\ t - e \in Int /\ e - x \in Int
  BY <1>1, NrType
<1>4. Nr(Nr(t - e) + Nr(e - x)) = Nr(t - x)
  <2> DEFINE p == t - e
             q == e - x
  <2>1. Nr(q) \in Int /\ p \in Int /\ q \in Int /\ p + q = t - x
    BY <1>1, <1>3 DEF SeqNr
  <2> HIDE DEF p, q
  <2>2. (Nr(p) + Nr(q)) % SeqMod = Nr(p + Nr(q))
    BY <2>1, NrSum
  <2>3. (Nr(q) + p) % SeqMod = Nr(q + p)
    BY <2>1, NrSum
  <2>4. p + Nr(q) = Nr(q) + p /\ q + p = p + q
    BY <2>1
  <2>5. Nr(Nr(p) + Nr(q)) = Nr(p + q)
    BY <2>1, <2>2, <2>3, <2>4 DEF Nr
  <2> QED BY <2>1, <2>5 DEF p, q
<1>5. Nr(t - e) + Nr(e - x) \in 0 .. SeqMod - 1
  BY <1>2, <1>3 DEF SeqNr
<1>6. Nr(Nr(t - e) + Nr(e - x)) = Nr(t - e) + Nr(e - x)
  BY <1>5, NrSmall
<1> QED BY <1>2, <1>4, <1>6

----------------------------------------------------------------------------
(* Queues of acknowledgments. *)

LEMMA WantsNr ==
    ASSUME NEW p \in ClientPacket
    PROVE  Wants(p) \in SeqNr /\ \A e \in SeqNr : LagOf(e, p) \in SeqNr
BY SeqArithmetic DEF ClientPacket, Wants, LagOf

\* An acknowledgment is read; one is sent; the client goes on.
LEMMA AcksTail ==
    ASSUME NEW q \in Seq(ClientPacket), q # <<>>, NEW e, NEW r, NEW n
    PROVE  /\ AcksWithin(q, e, r) => AcksWithin(Tail(q), e, r)
           /\ AcksInOrder(q, e) => AcksInOrder(Tail(q), e)
           /\ Current(q, e, n) => Current(Tail(q), e, n)
           /\ AcksInOrder(q, e) /\ Head(q).type = "DATA"
                => AcksWithin(Tail(q), e, LagOf(e, Head(q)))
<1>1. /\ Head(q) = q[1] /\ 1 \in 1 .. Len(q)
      /\ \A i \in 1 .. Len(Tail(q)) :
           Tail(q)[i] = q[i + 1] /\ i + 1 \in 1 .. Len(q)
  BY TailFacts
<1>2. \A i \in 1 .. Len(Tail(q)) : 1 < i + 1
  OBVIOUS
<1>3. \A i, j \in 1 .. Len(Tail(q)) : i < j => i + 1 < j + 1
  OBVIOUS
<1>4. AcksWithin(q, e, r) => AcksWithin(Tail(q), e, r)
  BY <1>1 DEF AcksWithin
<1>5. AcksInOrder(q, e) => AcksInOrder(Tail(q), e)
  BY <1>1, <1>3 DEF AcksInOrder
<1>6. Current(q, e, n) => Current(Tail(q), e, n)
  BY <1>1 DEF Current
<1>7. AcksInOrder(q, e) /\ Head(q).type = "DATA"
        => AcksWithin(Tail(q), e, LagOf(e, Head(q)))
  BY <1>1, <1>2 DEF AcksInOrder, AcksWithin
<1> QED BY <1>4, <1>5, <1>6, <1>7

LEMMA AcksAppend ==
    ASSUME NEW q \in Seq(ClientPacket), NEW p \in ClientPacket, NEW e \in SeqNr,
           NEW r \in Int, r >= 0, NEW n, p.type = "DATA" => Wants(p) = e
    PROVE  /\ AcksWithin(q, e, r) => AcksWithin(Append(q, p), e, r)
           /\ AcksInOrder(q, e) => AcksInOrder(Append(q, p), e)
           /\ Current(q, e, n) => Current(Append(q, p), e, n)
<1> DEFINE s == Append(q, p)
<1>1. /\ Len(s) = Len(q) + 1 /\ Len(q) \in Nat
      /\ \A i \in 1 .. Len(s) : \/ i \in 1 .. Len(q) /\ s[i] = q[i]
                                \/ i = Len(q) + 1 /\ s[i] = p
  BY AppendFacts
<1> HIDE DEF s
<1>2. p.type = "DATA" => LagOf(e, p) = 0
  BY DiffSelf DEF LagOf
<1>3. AcksWithin(q, e, r) => AcksWithin(s, e, r)
  BY <1>1, <1>2 DEF AcksWithin
<1>4. \A i \in 1 .. Len(q) : LagOf(e, q[i]) \in Int /\ LagOf(e, q[i]) >= 0
  <2> TAKE i \in 1 .. Len(q)
  <2>1. q[i] \in ClientPacket
    BY ElementOfSeq
  <2>2. LagOf(e, q[i]) \in SeqNr
    BY <2>1, WantsNr
  <2> QED BY <2>2 DEF SeqNr
<1>5. AcksInOrder(q, e) => AcksInOrder(s, e)
  BY <1>1, <1>2, <1>4 DEF AcksInOrder
<1>6. Current(q, e, n) => Current(s, e, n)
  BY <1>1, <1>2 DEF Current
<1> QED BY <1>3, <1>5, <1>6 DEF s

\* One packet more was received.
LEMMA AcksLag ==
    ASSUME NEW q \in Seq(ClientPacket), NEW e \in SeqNr, NEW r \in Int, r < SeqMod - 1,
           AcksWithin(q, e, r)
    PROVE  /\ AcksWithin(q, Next12(e), r + 1)
           /\ AcksInOrder(q, e) => AcksInOrder(q, Next12(e))
           /\ \A l \in Int : AcksWithin(q, e, l) => AcksWithin(q, Next12(e), l + 1)
<1>1. ASSUME NEW i \in 1 .. Len(q), q[i].type = "DATA"
      PROVE  LagOf(e, q[i]) \in Int /\ LagOf(Next12(e), q[i]) = LagOf(e, q[i]) + 1
  <2>1. Wants(q[i]) \in SeqNr /\ LagOf(e, q[i]) \in SeqNr
    BY WantsNr, ElementOfSeq
  <2>2. LagOf(e, q[i]) < SeqMod - 1
    <3>1. LagOf(e, q[i]) <= r
      BY <1>1 DEF AcksWithin
    <3> QED BY <2>1, <3>1 DEF SeqNr
  <2> QED BY <2>1, <2>2, LagGrows DEF LagOf, SeqNr
<1>2. \A l \in Int : AcksWithin(q, e, l) => AcksWithin(q, Next12(e), l + 1)
  BY <1>1 DEF AcksWithin
<1>3. AcksInOrder(q, e) => AcksInOrder(q, Next12(e))
  BY <1>1 DEF AcksInOrder
<1> QED BY <1>2, <1>3

----------------------------------------------------------------------------
(* Steps that concern the window.                                          *)

LEMMA WindowNumbers ==
    ASSUME TypeInv
    PROVE  /\ cExpected \in SeqNr /\ sTx \in SeqNr /\ sAcked \in SeqNr
           /\ Next12(sAcked) \in SeqNr /\ c2s \in Seq(ClientPacket)
           /\ Lag \in Int /\ Lag >= 0 /\ Lag < SeqMod
           /\ Ahead \in Int /\ Ahead >= 0 /\ Ahead < SeqMod
           /\ SendWindow \in Nat /\ SendWindow >= 1
<1>1. /\ cExpected \in SeqNr /\ sTx \in SeqNr /\ sAcked \in SeqNr
      /\ c2s \in Seq(ClientPacket)
  BY DEF TypeInv, TypeOK, NetTypeOK, ClientTypeOK, ServerTypeOK
<1>2. Next12(sAcked) \in SeqNr
  BY <1>1, SeqArithmetic
<1>3. Lag \in SeqNr /\ Ahead \in SeqNr
  BY <1>1, <1>2, SeqArithmetic DEF Lag, Ahead
<1> QED BY <1>1, <1>2, <1>3 DEF SeqNr

\* How far the server is ahead, in packets.
LEMMA AheadIs ==
    ASSUME TypeInv, OrderInv, Usual, NEW a \in Nat, NEW z \in Nat, NEW b \in Int,
           AnswerInv(a, z, b)
    PROVE  /\ Got(a) \in Nat /\ sOff \in Nat /\ Got(a) <= sOff /\ Ahead = sOff - Got(a)
           /\ cExpected = Nr(b + Got(a)) /\ sTx = Nr(b + sOff)
<1>1. ServerPart(a, z, b) /\ ClientPart(a, b)
  BY DEF AnswerInv
<1>2. /\ sOff \in Nat /\ Size(a) \in Nat /\ Size(a) < SeqMod /\ sOff <= Size(a)
      /\ Len(cRx) \in Nat
  BY <1>1, AnswerSizes, Numbers
<1>3. Got(a) \in Nat /\ Got(a) <= sOff
  BY <1>1, <1>2 DEF ClientPart, Got
<1>4. cExpected = Nr(b + Got(a)) /\ sTx = Nr(b + sOff)
  BY <1>1 DEF ServerPart, ClientPart
<1> DEFINE x == b + sOff
           y == b + Got(a)
<1>5. x \in Int /\ y \in Int /\ x - y = sOff - Got(a) /\ x - y \in 0 .. SeqMod - 1
  BY <1>2, <1>3
<1>6. Diff12(Nr(x), Nr(y)) = x - y
  <2> HIDE DEF x, y
  <2>1. Diff12(Nr(x), Nr(y)) = Nr(x - y)
    BY <1>5, NrDiff
  <2> QED BY <1>5, <2>1, NrSmall
<1> QED BY <1>2, <1>3, <1>4, <1>5, <1>6 DEF Ahead

\* The numbers stay; packets of the client come, are received or are lost.
LEMMA WindowStays ==
    ASSUME TypeInv, NEW a \in Nat, WindowInv(a),
           UNCHANGED <<cExpected, sTx, sAcked, sDone, sOff, sBuf>>, Got(a)' = Got(a),
           sMode' = "stream" => sMode = "stream" \/ sOff > 0,
           sMode' = "window" => sOff > 0,
           sMode' # "idle" => sMode # "idle",
           \/ c2s' = c2s
           \/ c2s # <<>> /\ c2s' = Tail(c2s)
           \/ \E p \in ClientPacket :
                c2s' = Append(c2s, p) /\ (p.type = "DATA" => Wants(p) = cExpected),
           ~Mine(a)' => ~Mine(a) \/ Current(c2s, cExpected, Len(sDone)),
           sOff \in Nat
    PROVE  WindowInv(a)'
<1>1. /\ cExpected \in SeqNr /\ c2s \in Seq(ClientPacket)
      /\ Lag \in Int /\ Lag >= 0 /\ Ahead \in Int /\ SendWindow \in Nat
  BY WindowNumbers
<1>2. SendWindow - Ahead \in Int /\ SendWindow - Ahead >= 0
  BY <1>1 DEF WindowInv
<1>3. /\ \A r \in Int : r >= 0 /\ AcksWithin(c2s, cExpected, r) => AcksWithin(c2s', cExpected, r)
      /\ AcksInOrder(c2s, cExpected) => AcksInOrder(c2s', cExpected)
      /\ Current(c2s, cExpected, Len(sDone)) => Current(c2s', cExpected, Len(sDone))
  BY <1>1, AcksTail, AcksAppend
<1>4. AcksWithin(c2s', cExpected, SendWindow - Ahead) /\ AcksInOrder(c2s', cExpected)
  BY <1>2, <1>3 DEF WindowInv
<1>5. sDone # <<>> => Lag <= SendWindow - Ahead /\ AcksWithin(c2s', cExpected, Lag)
  BY <1>1, <1>3 DEF WindowInv
<1>6. Lag' = Lag /\ Ahead' = Ahead
  BY DEF Lag, Ahead
<1>7. ~Mine(a)' => Current(c2s', cExpected, Len(sDone))
  BY <1>3 DEF WindowInv
<1>8. sMode' = "stream" /\ sOff = 0 => Lag = 0
  BY DEF WindowInv
<1>9. sMode' # "idle" =>
        \A i \in 1 .. sOff : i > Got(a) - Lag => \E q \in sBuf : q.idx = i
  BY DEF WindowInv
<1> QED BY <1>4, <1>5, <1>6, <1>7, <1>8, <1>9 DEF WindowInv, AcksWithin, AcksInOrder, Current

\* The client takes a packet.
LEMMA WindowTaken ==
    ASSUME TypeInv, OrderInv, Usual, SmallWindow, NEW a \in Nat, NEW z \in Nat, NEW b \in Int,
           AnswerInv(a, z, b), AnswerInv(a, z, b)', WindowInv(a),
           s2c # <<>>, Takes(Head(s2c)), cExpected' = Next12(Head(s2c).seq),
           cRx' = Append(cRx, Head(s2c)), UNCHANGED <<c2s, cMsg, serverVars>>
    PROVE  WindowInv(a)'
<1> DEFINE r == SendWindow - Ahead
<1>1. /\ cExpected \in SeqNr /\ c2s \in Seq(ClientPacket) /\ sTx \in SeqNr
      /\ Lag \in Int /\ Lag >= 0 /\ Ahead \in Int /\ SendWindow \in Nat /\ SendWindow >= 1
      /\ Next12(sAcked) \in SeqNr /\ Ahead >= 0
  BY WindowNumbers
<1>2. Mine(a) /\ Len(cRx) + 1 <= sOff /\ Head(s2c).seq = cExpected
  BY NextIsTaken
<1>3. Mine(a)'
  BY <1>2 DEF Mine, Same
<1>4. cRx \in Seq(ServerPacket) /\ Head(s2c) \in ServerPacket /\ Len(cRx) \in Nat /\ sOff \in Nat
  BY Numbers, TailFacts
<1>5. Got(a) = Len(cRx) /\ Got(a)' = Got(a) + 1
  <2>1. Len(cRx') = Len(cRx) + 1
    BY <1>4, AppendFacts
  <2> QED BY <1>2, <1>3, <2>1 DEF Got
<1>6. Ahead = sOff - Got(a)
  BY AheadIs
<1>7. Ahead' = Ahead - 1
  <2>1. Got(a)' <= sOff /\ b + Got(a)' \in Int /\ b + sOff \in Int /\ sOff - Got(a)' = Ahead - 1
    BY <1>2, <1>4, <1>5, <1>6
  <2>2. cExpected' = Nr(b + Got(a)') /\ sTx' = Nr(b + sOff)
    BY DEF AnswerInv, ServerPart, ClientPart, serverVars, sendVars
  <2>3. (b + sOff) - (b + Got(a)') = Ahead - 1 /\ Ahead - 1 \in 0 .. SeqMod - 1
    <3>1. Ahead < SeqMod
      BY WindowNumbers
    <3> QED BY <1>1, <1>2, <1>4, <1>5, <1>6, <3>1
  <2> DEFINE x == b + sOff
             y == b + Got(a)'
  <2>4. x \in Int /\ y \in Int /\ x - y = Ahead - 1 /\ sTx' = Nr(x) /\ cExpected' = Nr(y)
    BY <2>1, <2>2, <2>3
  <2> HIDE DEF x, y
  <2>5. Diff12(Nr(x), Nr(y)) = Nr(x - y)
    BY <2>4, NrDiff
  <2>6. Nr(Ahead - 1) = Ahead - 1
    BY <2>3, NrSmall
  <2>7. Diff12(sTx', cExpected') = Ahead - 1
    BY <2>4, <2>5, <2>6
  <2> QED BY <2>7 DEF Ahead
<1>8. /\ r \in Int /\ r < SeqMod - 1 /\ r + 1 = SendWindow - (Ahead - 1)
  <2>1. Ahead >= 1
    BY <1>2, <1>4, <1>5, <1>6
  <2> QED BY <1>1, <2>1 DEF SmallWindow
<1>9. AcksWithin(c2s, cExpected, r) /\ AcksInOrder(c2s, cExpected) /\ Ahead <= SendWindow
  BY DEF WindowInv
<1>10. cExpected' = Next12(cExpected)
  BY <1>2
<1> HIDE DEF r
<1>11. /\ AcksWithin(c2s, Next12(cExpected), r + 1) /\ AcksInOrder(c2s, Next12(cExpected))
       /\ \A l \in Int : AcksWithin(c2s, cExpected, l)
            => AcksWithin(c2s, Next12(cExpected), l + 1)
  BY <1>1, <1>8, <1>9, AcksLag
<1>12. sDone # <<>> => Lag <= r /\ AcksWithin(c2s, cExpected, Lag)
  BY DEF WindowInv, r
<1>13. sDone # <<>> => Lag' = Lag + 1
  <2>1. SUFFICES ASSUME sDone # <<>> PROVE Lag' = Lag + 1
    OBVIOUS
  <2>2. Diff12(cExpected, Next12(sAcked)) < SeqMod - 1
    BY <1>1, <1>8, <1>12, <2>1 DEF Lag
  <2>3. Diff12(Next12(cExpected), Next12(sAcked)) = Diff12(cExpected, Next12(sAcked)) + 1
    BY <1>1, <2>2, LagGrows
  <2>4. sAcked' = sAcked
    BY DEF serverVars
  <2> QED BY <1>10, <2>3, <2>4 DEF Lag
<1>14. sOff # 0 /\ UNCHANGED <<sDone, sMode, sOff, sBuf>>
  BY <1>2, <1>4 DEF serverVars, sendVars
<1>15. sDone # <<>> => Lag' <= SendWindow - Ahead' /\ AcksWithin(c2s', cExpected', Lag')
  BY <1>1, <1>7, <1>8, <1>10, <1>11, <1>12, <1>13
<1>16. sMode # "idle" => sDone # <<>>
  BY DEF TypeInv, AnswerHasRequest
<1>17. sMode # "idle" =>
         \A i \in 1 .. sOff : i > Got(a)' - Lag' => \E q \in sBuf : q.idx = i
  <2>1. SUFFICES ASSUME sMode # "idle", NEW i \in 1 .. sOff, i > Got(a)' - Lag'
                 PROVE  \E q \in sBuf : q.idx = i
    OBVIOUS
  <2>2. Got(a)' - Lag' = Got(a) - Lag
    BY <1>1, <1>4, <1>5, <1>13, <1>16, <2>1
  <2> QED BY <2>1, <2>2 DEF WindowInv
<1>18. Ahead' <= SendWindow
  BY <1>1, <1>7, <1>9
<1>19. AcksWithin(c2s', cExpected', SendWindow - Ahead') /\ AcksInOrder(c2s', cExpected')
  BY <1>7, <1>8, <1>10, <1>11
<1>20. sMode = "window" => sOff > 0
  BY DEF WindowInv
<1> QED BY <1>3, <1>14, <1>15, <1>17, <1>18, <1>19, <1>20 DEF WindowInv

\* The next packet of an answer is sent when the window allows it.
LEMMA WindowSent ==
    ASSUME TypeInv, OrderInv, Usual, SmallWindow, NEW a \in Nat, NEW z \in Nat, NEW b \in Int,
           AnswerInv(a, z, b), AnswerInv(a, z, b)', WindowInv(a),
           SendPacket, UNCHANGED clientVars
    PROVE  WindowInv(a)'
<1>1. /\ cExpected \in SeqNr /\ c2s \in Seq(ClientPacket) /\ sTx \in SeqNr /\ sAcked \in SeqNr
      /\ Lag \in Int /\ Lag >= 0 /\ Ahead \in Int /\ SendWindow \in Nat /\ SendWindow >= 1
      /\ Next12(sAcked) \in SeqNr /\ Ahead >= 0
  BY WindowNumbers
<1>2. /\ UNCHANGED <<cExpected, cMsg, cRx, c2s, sAcked, sDone>>
      /\ sOff' = sOff + 1 /\ sMode = "stream" /\ sMode' \in {"stream", "final"}
  BY DEF SendPacket, clientVars, sockVars, callVars
<1>3. sOff \in Nat /\ Ahead = sOff - Got(a) /\ Got(a) <= sOff /\ Got(a) \in Nat
  BY AheadIs
<1>4. Mine(a)
  BY <1>2, <1>3 DEF AnswerInv, ServerPart, ClientPart
<1>5. Mine(a)' /\ Got(a)' = Got(a)
  BY <1>2, <1>4 DEF Mine, Same, Got
<1>6. sDone # <<>>
  BY <1>2 DEF TypeInv, AnswerHasRequest
<1>7. /\ Ahead <= SendWindow /\ Lag <= SendWindow - Ahead
      /\ AcksWithin(c2s, cExpected, Lag) /\ AcksInOrder(c2s, cExpected)
      /\ sOff = 0 => Lag = 0
  BY <1>2, <1>6 DEF WindowInv
<1>8. SendWindow < SeqMod
  BY <1>1 DEF SmallWindow
<1>9. Lag + Ahead < SendWindow
  <2>1. CASE sOff = 0
    BY <1>1, <1>3, <1>7, <2>1
  <2>2. CASE InFlight < SendWindow
    <3>1. Diff12(sTx, Next12(sAcked)) = Ahead + Lag
      <4>1. Diff12(sTx, cExpected) + Diff12(cExpected, Next12(sAcked)) < SeqMod
        BY <1>1, <1>7, <1>8 DEF Ahead, Lag
      <4> QED BY <1>1, <4>1, DiffSum DEF Ahead, Lag
    <3>2. InFlight = Diff12(sTx, Next12(sAcked))
      <4>1. sTx \in Int /\ sAcked \in Int /\ Nr(sTx) = sTx /\ Nr(sAcked) = sAcked
            /\ sAcked + 1 \in Int /\ sTx - sAcked \in Int
            /\ sTx - sAcked - 1 = sTx - (sAcked + 1)
        BY <1>1, SeqNrIsNr
      <4>2. Diff12(Nr(sTx), Nr(sAcked)) = Nr(sTx - sAcked)
        BY <4>1, NrDiff
      <4>3. Prev12(Nr(sTx - sAcked)) = Nr(sTx - sAcked - 1)
        BY <4>1, NrNext
      <4>4. Next12(Nr(sAcked)) = Nr(sAcked + 1)
        BY <4>1, NrNext
      <4>5. Diff12(Nr(sTx), Nr(sAcked + 1)) = Nr(sTx - (sAcked + 1))
        BY <4>1, NrDiff
      <4> QED BY <4>1, <4>2, <4>3, <4>4, <4>5 DEF InFlight
    <3> QED BY <1>1, <2>2, <3>1, <3>2
  <2> QED BY <2>1, <2>2 DEF SendPacket
<1>10. Ahead' = Ahead + 1
  <2> DEFINE x == b + (sOff + 1)
             y == b + Got(a)
  <2>1. x \in Int /\ y \in Int /\ x - y = Ahead + 1 /\ Ahead + 1 \in 0 .. SeqMod - 1
    BY <1>1, <1>3, <1>8, <1>9, SMTT(30)
  <2>2. sTx' = Nr(x) /\ cExpected' = Nr(y)
    BY <1>2, <1>5 DEF AnswerInv, ServerPart, ClientPart
  <2> HIDE DEF x, y
  <2>3. Diff12(Nr(x), Nr(y)) = Nr(x - y)
    BY <2>1, NrDiff
  <2>4. Nr(Ahead + 1) = Ahead + 1
    BY <2>1, NrSmall
  <2>5. Diff12(sTx', cExpected') = Ahead + 1
    BY <2>1, <2>2, <2>3, <2>4
  <2> QED BY <2>5 DEF Ahead
<1>11. Lag' = Lag
  BY <1>2 DEF Lag
<1>12. AcksWithin(c2s, cExpected, SendWindow - (Ahead + 1))
  <2>1. \A i \in 1 .. Len(c2s) : LagOf(cExpected, c2s[i]) \in Int
    <3> TAKE i \in 1 .. Len(c2s)
    <3>1. c2s[i] \in ClientPacket
      BY <1>1, ElementOfSeq
    <3>2. LagOf(cExpected, c2s[i]) \in SeqNr
      BY <1>1, <3>1, WantsNr
    <3> QED BY <3>2 DEF SeqNr
  <2>2. Lag <= SendWindow - (Ahead + 1)
    BY <1>1, <1>9
  <2> QED BY <1>1, <1>7, <2>1, <2>2 DEF AcksWithin
<1>13. \A i \in 1 .. sOff + 1 : i > Got(a) - Lag => \E q \in sBuf' : q.idx = i
  <2>1. \A i \in 1 .. sOff : i > Got(a) - Lag => \E q \in sBuf : q.idx = i
    BY <1>2 DEF WindowInv
  <2>2. ReplyPacket(sOff + 1).idx = sOff + 1 /\ sBuf' = sBuf \cup {ReplyPacket(sOff + 1)}
    BY DEF SendPacket, ReplyPacket
  <2>3. \A i \in 1 .. sOff + 1 : i \in 1 .. sOff \/ i = sOff + 1
    BY <1>3
  <2> QED BY <2>1, <2>2, <2>3
<1>14. Ahead + 1 <= SendWindow /\ Lag <= SendWindow - (Ahead + 1) /\ sOff + 1 # 0
  BY <1>1, <1>3, <1>9, SMTT(30)
<1> QED BY <1>2, <1>5, <1>7, <1>10, <1>11, <1>12, <1>13, <1>14 DEF WindowInv

\* What tx_buffer keeps after an acknowledgment.
LEMMA StillThere ==
    ASSUME TypeInv, OrderInv, Usual, SmallWindow, NEW a \in Nat, NEW z \in Nat, NEW b \in Int,
           AnswerInv(a, z, b), NEW x \in SeqNr, NEW i \in 1 .. sOff, NEW q \in sBuf, q.idx = i,
           Diff12(cExpected, x) <= SendWindow - Ahead,
           i > Got(a) - Diff12(cExpected, x)
    PROVE  AtOrAfter(q.seq, x)
<1> DEFINE l == Diff12(cExpected, x)
           g == Got(a)
           y == b + g - l
           w == b + i - 1
<1>1. /\ cExpected \in SeqNr /\ Ahead \in Int /\ SendWindow \in Nat
      /\ l \in SeqNr /\ l \in Int /\ x \in Int /\ Nr(x) = x
  BY WindowNumbers, SeqArithmetic, SeqNrIsNr
<1>2. g \in Nat /\ sOff \in Nat /\ Ahead = sOff - g /\ cExpected = Nr(b + g) /\ i \in Nat
  BY AheadIs
<1>3. q.seq = Nr(w)
  BY DEF AnswerInv, ServerPart, IsPacket, Place
<1>4. Nr(y) = x
  <2> DEFINE c == b + g
  <2>0. c \in Int
    BY <1>2
  <2>1. c - x \in Int /\ c - (c - x) = x
    <3> HIDE DEF c
    <3> QED BY <1>1, <2>0
  <2>2. Diff12(Nr(c), Nr(x)) = Nr(c - x)
    <3> HIDE DEF c
    <3> QED BY <1>1, <2>0, NrDiff
  <2>3. l = Nr(c - x)
    BY <1>1, <1>2, <2>2
  <2>4. Diff12(Nr(c), Nr(c - x)) = Nr(c - (c - x))
    <3> HIDE DEF c
    <3>1. \A k \in Int : Diff12(Nr(c), Nr(k)) = Nr(c - k)
      BY <2>0, NrDiff
    <3> QED BY <2>1, <3>1
  <2>5. Diff12(Nr(c), Nr(l)) = Nr(c - l)
    <3> HIDE DEF c, l
    <3> QED BY <1>1, <2>0, NrDiff
  <2>6. Nr(l) = l
    BY <1>1, SeqNrIsNr
  <2>7. Nr(c - l) = Nr(x)
    <3> HIDE DEF c, l
    <3> QED BY <2>1, <2>3, <2>4, <2>5, <2>6
  <2>8. y = c - l
    <3> HIDE DEF l, g
    <3> QED BY <1>1, <1>2
  <2> HIDE DEF c, l, y
  <2> QED BY <1>1, <2>7, <2>8
<1>5. /\ w \in Int /\ y \in Int /\ w - y = i - 1 - g + l
      /\ w - y >= 0 /\ w - y <= SendWindow - 1
  <2> HIDE DEF l, g
  <2>1. l <= SendWindow - Ahead /\ i > g - l /\ i <= sOff
    BY DEF l, g
  <2> QED BY <1>1, <1>2, <2>1
<1> HIDE DEF w, y, l, g
<1>6. w - y \in 0 .. SeqMod - 1
  <2>1. SendWindow - 1 < SeqMod
    BY <1>1 DEF SmallWindow
  <2> QED BY <1>1, <1>5, <2>1
<1>7. Diff12(Nr(w), Nr(y)) = w - y
  <2>1. Diff12(Nr(w), Nr(y)) = Nr(w - y)
    BY <1>5, NrDiff
  <2> QED BY <1>6, <2>1, NrSmall
<1>8. 2 * (w - y) < SeqMod
  BY <1>1, <1>5, <1>6 DEF SmallWindow
<1> QED BY <1>3, <1>4, <1>7, <1>8 DEF AtOrAfter

\* The server reads an acknowledgment.
LEMMA WindowAcked ==
    ASSUME TypeInv, TypeInv', OrderInv, Usual, SmallWindow,
           NEW a \in Nat, NEW z \in Nat, NEW b \in Int,
           AnswerInv(a, z, b), WindowInv(a), c2s # <<>>, c2s' = Tail(c2s), Head(c2s).type = "DATA",
           Next12(sAcked') = Wants(Head(c2s)),
           UNCHANGED <<cExpected, cMsg, cRx, sTx, sOff>>, Len(sDone') >= Len(sDone),
           sMode' # "idle" => /\ sMode \in {"window", "final"}
                              /\ sMode' \in {"window", "stream"} => sMode = "window"
                              /\ sBuf' = sBuf \/ sBuf' = Unacked(sAcked'),
           Mine(a)' = Mine(a), Got(a)' = Got(a), Len(sDone') \in Int
    PROVE  WindowInv(a)'
<1> DEFINE p == Head(c2s)
           l == LagOf(cExpected, p)
<1>1. /\ cExpected \in SeqNr /\ c2s \in Seq(ClientPacket) /\ sTx \in SeqNr
      /\ Lag \in Int /\ Ahead \in Int /\ SendWindow \in Nat
  BY WindowNumbers
<1>2. /\ p = c2s[1] /\ 1 \in 1 .. Len(c2s) /\ p \in ClientPacket
  BY <1>1, TailFacts
<1>3. Wants(p) \in SeqNr /\ l \in SeqNr /\ l \in Int
  <2>1. Wants(p) \in SeqNr /\ l \in SeqNr
    BY <1>1, <1>2, WantsNr
  <2> HIDE DEF l
  <2> QED BY <2>1 DEF SeqNr
<1>4. Lag' = l /\ Ahead' = Ahead
  BY DEF Lag, Ahead, LagOf
<1>5. /\ Ahead <= SendWindow /\ l <= SendWindow - Ahead
      /\ AcksWithin(c2s, cExpected, SendWindow - Ahead) /\ AcksInOrder(c2s, cExpected)
  BY <1>2 DEF WindowInv, AcksWithin
<1>6. sDone # <<>> => l <= Lag
  BY <1>2 DEF WindowInv, AcksWithin
<1>7. /\ AcksWithin(c2s', cExpected, SendWindow - Ahead) /\ AcksInOrder(c2s', cExpected)
      /\ AcksWithin(c2s', cExpected, l)
  BY <1>1, <1>5, AcksTail
<1>8. ~Mine(a) => Current(c2s', cExpected, Len(sDone'))
  <2>1. SUFFICES ASSUME ~Mine(a) PROVE Current(c2s', cExpected, Len(sDone'))
    OBVIOUS
  <2>2. Current(c2s, cExpected, Len(sDone))
    BY <2>1 DEF WindowInv
  <2>3. Current(Tail(c2s), cExpected, Len(sDone))
    BY <1>1, <2>2, AcksTail
  <2>4. Len(sDone) \in Nat /\ \A i \in 1 .. Len(Tail(c2s)) : Tail(c2s)[i].msg \in Int
    <3>1. Tail(c2s) \in Seq(ClientPacket) /\ Len(Program) \in Nat /\ Len(sDone) \in Nat
      BY <1>1, TailFacts, Numbers
    <3>2. \A i \in 1 .. Len(Tail(c2s)) : Tail(c2s)[i] \in ClientPacket
      BY <3>1, ElementOfSeq
    <3> QED BY <3>1, <3>2, SMTT(30) DEF ClientPacket
  <2> SUFFICES ASSUME NEW i \in 1 .. Len(Tail(c2s)), Tail(c2s)[i].type = "DATA",
                      Tail(c2s)[i].msg > Len(sDone'), Program[Tail(c2s)[i].msg].reply > 0
               PROVE  LagOf(cExpected, Tail(c2s)[i]) = 0
    BY DEF Current
  <2>5. Tail(c2s)[i].msg > Len(sDone)
    <3>1. \A m, n, k \in Int : m > n /\ n >= k => m > k
      OBVIOUS
    <3>2. Tail(c2s)[i].msg \in Int /\ Len(sDone) \in Int
      BY <2>4
    <3> QED BY <3>1, <3>2
  <2> QED BY <2>3, <2>5 DEF Current
<1>9. ASSUME sMode' # "idle", NEW i \in 1 .. sOff, i > Got(a) - l
      PROVE  \E q \in sBuf' : q.idx = i
  <2>1. sDone # <<>> /\ sMode # "idle"
    BY <1>9 DEF TypeInv, AnswerHasRequest
  <2>2. Got(a) \in Nat /\ i \in Int
    BY AheadIs
  <2>3. i > Got(a) - Lag
    BY <1>1, <1>3, <1>6, <1>9, <2>1, <2>2
  <2>4. PICK q \in sBuf : q.idx = i
    BY <2>1, <2>3 DEF WindowInv
  <2>5. CASE sBuf' = sBuf
    BY <2>4, <2>5
  <2>6. CASE sBuf' = Unacked(sAcked')
    <3>1. AtOrAfter(q.seq, Wants(p))
      BY <1>3, <1>5, <1>9, <2>4, StillThere DEF LagOf
    <3>2. q \in sBuf'
      BY <2>6, <3>1 DEF Unacked
    <3> QED BY <2>4, <3>2
  <2> QED BY <1>9, <2>5, <2>6
<1> HIDE DEF l
<1>10. /\ sMode' = "stream" /\ sOff' = 0 => Lag' = 0
       /\ sMode' = "window" => sOff' > 0
  <2>1. sMode' \in {"window", "stream"} => sMode = "window"
    OBVIOUS
  <2>2. sMode = "window" => sOff > 0 /\ sOff \in Nat
    BY AheadIs DEF WindowInv
  <2> QED BY <2>1, <2>2
<1>11. sMode' # "idle" =>
         \A i \in 1 .. sOff' : i > Got(a)' - Lag' => \E q \in sBuf' : q.idx = i
  BY <1>4, <1>9
<1> QED BY <1>4, <1>5, <1>7, <1>8, <1>10, <1>11 DEF WindowInv

\* While the answer under way is the client's, no other is asked for.
LEMMA MineIsCurrent ==
    ASSUME TypeInv, OrderInv, Usual, NEW a \in Nat, NEW z \in Nat, NEW b \in Int,
           AnswerInv(a, z, b), WindowInv(a)
    PROVE  Current(c2s, cExpected, Len(sDone))
<1>1. SUFFICES ASSUME Mine(a), NEW i \in 1 .. Len(c2s),
                      c2s[i].msg > Len(sDone), Program[c2s[i].msg].reply > 0
               PROVE  FALSE
  BY DEF WindowInv, Current
<1> DEFINE k == c2s[i].msg
<1>2. /\ a <= Len(sDone) /\ Len(sDone) \in Nat /\ a <= Len(Program) /\ Len(Program) \in Nat
      /\ cMsg \in Nat
  BY AnswerSizes, Numbers DEF AnswerInv
<1>3. k \in 0 .. Len(Program) /\ k <= cMsg
  BY RequestsSent
<1>4. k > Len(sDone) /\ Program[k].reply > 0 /\ a # 0 /\ Same(a, cMsg)
  BY <1>1 DEF Mine
<1> HIDE DEF k
<1>5. k \in 1 .. Len(Program) /\ a \in 1 .. Len(Program) /\ a < k /\ k \in Nat /\ a <= cMsg
  BY <1>2, <1>3, <1>4
<1>6. Same(a, k) /\ Same(k, cMsg)
  BY <1>2, <1>3, <1>4, <1>5, SameWithin
<1>7. Program[a].reply > 0
  BY <1>4, <1>5, Sizes DEF AnswerInv, ServerPart
<1>8. a = k
  BY <1>2, <1>3, <1>4, <1>5, <1>6, <1>7, OnlyAnswer
<1> QED BY <1>5, <1>8

\* The same of the next state.
LEMMA AheadNext ==
    ASSUME Usual, NEW a \in Nat, NEW z \in Nat, NEW b \in Int
    PROVE  (TypeInv /\ OrderInv /\ AnswerInv(a, z, b)
              => Got(a) \in Nat /\ Got(a) <= sOff /\ cExpected = Nr(b + Got(a)))'
<1>1. TypeInv /\ OrderInv /\ AnswerInv(a, z, b)
        => Got(a) \in Nat /\ Got(a) <= sOff /\ cExpected = Nr(b + Got(a))
  BY AheadIs
<1> QED BY <1>1, PTL

\* What the client has does not change while it asks for the same packet.
LEMMA GotStays ==
    ASSUME TypeInv, TypeInv', OrderInv, OrderInv', Usual,
           NEW a \in Nat, NEW z \in Nat, NEW b \in Int,
           AnswerInv(a, z, b), AnswerInv(a, z, b)', UNCHANGED <<cExpected, sOff>>
    PROVE  Got(a)' = Got(a)
<1>1. Got(a) \in Nat /\ sOff \in Nat /\ Got(a) <= sOff /\ cExpected = Nr(b + Got(a))
  BY AheadIs
<1>2. Got(a)' \in Nat /\ Got(a)' <= sOff /\ cExpected' = Nr(b + Got(a)')
  BY AheadNext
<1>3. sOff < SeqMod
  <2>1. sOff <= Size(a) /\ Size(a) < SeqMod /\ Size(a) \in Nat
    BY AnswerSizes DEF AnswerInv
  <2> QED BY <1>1, <2>1
<1> DEFINE x == b + Got(a)
           y == b + Got(a)'
<1>4. /\ x \in Int /\ y \in Int /\ x - y < SeqMod /\ y - x < SeqMod
      /\ x = y => Got(a) = Got(a)'
  BY <1>1, <1>2, <1>3, SMTT(30)
<1>5. Nr(x) = Nr(y)
  BY <1>1, <1>2
<1> HIDE DEF x, y
<1> QED BY <1>4, <1>5, NrSame

LEMMA ClientAsks ==
    ASSUME TypeInv
    PROVE  /\ Discovery \in ClientPacket /\ Discovery.type # "DATA"
           /\ \A t \in BOOLEAN : AckPacket(t) \in ClientPacket /\ Wants(AckPacket(t)) = cExpected
           /\ \A s \in SeqNr, k \in 1 .. Len(Program) :
                DataPacket(s, k) \in ClientPacket /\ Wants(DataPacket(s, k)) = cExpected
<1>1. cExpected \in SeqNr /\ Next12(Prev12(cExpected)) = cExpected
  BY NextOfPrev DEF TypeInv, TypeOK, ClientTypeOK
<1>2. Discovery \in ClientPacket /\ Discovery.type # "DATA"
  BY ClientPackets DEF TypeInv, Discovery
<1>3. \A t \in BOOLEAN : AckPacket(t) \in ClientPacket
  BY ClientPackets DEF TypeInv
<1>4. \A s \in SeqNr, k \in 1 .. Len(Program) : DataPacket(s, k) \in ClientPacket
  BY ClientPackets DEF TypeInv
<1>5. \A t \in BOOLEAN : Wants(AckPacket(t)) = cExpected
  BY <1>1 DEF Wants, AckPacket
<1>6. \A s \in SeqNr, k \in 1 .. Len(Program) : Wants(DataPacket(s, k)) = cExpected
  BY <1>1 DEF Wants, DataPacket
<1> QED BY <1>2, <1>3, <1>4, <1>5, <1>6

\* What the caller's thread does to the wire.
LEMMA CallerSends ==
    ASSUME TypeInv, ClientThread
    PROVE  /\ cExpected' = cExpected /\ s2c' = s2c
           /\ \/ c2s' = c2s
              \/ \E p \in ClientPacket :
                   c2s' = Append(c2s, p) /\ (p.type = "DATA" => Wants(p) = cExpected)
<1>1. cExpected' = cExpected /\ s2c' = s2c
  BY DEF ClientThread, Discovered, DiscoverTimeout, SendCall, SendAcked,
         SendRetry, RecvFin, RecvReturn, RecvNack, RecvWindow, RecvTimeout, netVars, sockVars
<1>2. cMsg \in Nat /\ cMsg >= 1 /\ cTx \in SeqNr /\ Prev12(cTx) \in SeqNr /\ Len(Program) \in Nat
  BY LenProperties, SeqArithmetic DEF TypeInv, TypeOK, ClientTypeOK
<1>3. cPc \in {"call", "send"} => cMsg \in 1 .. Len(Program)
  BY <1>2 DEF TypeInv, CallInProgram
<1>4. CASE Discovered \/ SendAcked \/ RecvReturn \/ RecvTimeout
  BY <1>1, <1>4 DEF Discovered, SendAcked, RecvReturn, RecvTimeout, netVars
<1>5. CASE DiscoverTimeout
  BY <1>1, <1>5, ClientAsks DEF DiscoverTimeout
<1>6. CASE SendCall
  BY <1>1, <1>2, <1>3, <1>6, ClientAsks DEF SendCall
<1>7. CASE SendRetry
  BY <1>1, <1>2, <1>3, <1>7, ClientAsks DEF SendRetry
<1>8. CASE RecvFin \/ RecvNack \/ RecvWindow
  BY <1>1, <1>8, ClientAsks DEF RecvFin, RecvNack, RecvWindow
<1> QED BY <1>1, <1>4, <1>5, <1>6, <1>7, <1>8 DEF ClientThread

\* The client and the network keep the window.
LEMMA WindowClient ==
    ASSUME TypeInv, TypeInv', OrderInv, OrderInv', Usual, SmallWindow,
           NEW a \in Nat, NEW z \in Nat, NEW b \in Int,
           AnswerInv(a, z, b), AnswerInv(a, z, b)', WindowInv(a), ClientStep \/ NetStep
    PROVE  WindowInv(a)'
<1>1. sOff \in Nat /\ Current(c2s, cExpected, Len(sDone))
  BY AheadIs, MineIsCurrent
<1>2. UNCHANGED <<sTx, sAcked, sDone, sOff, sBuf, sMode>>
  BY DEF ClientStep, NetStep, serverVars, sendVars
<1>3. sMode = "window" => sOff > 0
  BY DEF WindowInv
<1>4. CASE ClientStep /\ IstData /\ Takes(Head(s2c))
  <2>1. /\ s2c # <<>> /\ cExpected' = Next12(Head(s2c).seq)
        /\ cRx' = Append(cRx, Head(s2c)) /\ UNCHANGED <<c2s, cMsg, serverVars>>
    BY <1>4 DEF IstData, ClientStep, callVars
  <2> QED BY <1>4, <2>1, WindowTaken
<1>5. CASE ~(ClientStep /\ IstData /\ Takes(Head(s2c)))
  <2>1. /\ cExpected' = cExpected
        /\ \/ c2s' = c2s
           \/ c2s # <<>> /\ c2s' = Tail(c2s)
           \/ \E p \in ClientPacket :
                c2s' = Append(c2s, p) /\ (p.type = "DATA" => Wants(p) = cExpected)
    <3>1. CASE ClientStep /\ ClientThread
      BY <3>1, CallerSends
    <3>2. CASE ClientStep /\ (Ist \/ ClientAlarm)
      BY <1>5, <3>2 DEF Ist, IstInform, IstData, ClientAlarm, Alarm, sockVars
    <3>3. CASE NetStep
      BY <3>3 DEF NetStep, LoseToServer, LoseToClient, clientVars, sockVars
    <3> QED BY <3>1, <3>2, <3>3 DEF ClientStep
  <2>2. Got(a)' = Got(a)
    BY <1>2, <2>1, GotStays
  <2> QED BY <1>1, <1>2, <1>3, <2>1, <2>2, WindowStays
<1> QED BY <1>4, <1>5

LEMMA WindowStutter ==
    ASSUME TypeInv, TypeInv', OrderInv, OrderInv', Usual,
           NEW a \in Nat, NEW z \in Nat, NEW b \in Int,
           AnswerInv(a, z, b), AnswerInv(a, z, b)', WindowInv(a), UNCHANGED vars
    PROVE  WindowInv(a)'
<1>1. UNCHANGED <<cExpected, sTx, sAcked, sDone, sOff, sBuf, c2s, sMode>>
  BY DEF vars, netVars, clientVars, sockVars, serverVars, sendVars
<1>2. Got(a)' = Got(a)
  BY <1>1, GotStays
<1>3. sOff \in Nat /\ Current(c2s, cExpected, Len(sDone))
  BY AheadIs, MineIsCurrent
<1>4. sMode = "window" => sOff > 0
  BY DEF WindowInv
<1> QED BY <1>1, <1>2, <1>3, <1>4, WindowStays

\* The server does what changes neither the window nor tx_buffer.
LEMMA ServerStays ==
    ASSUME TypeInv, NEW a \in Nat, NEW z \in Nat, NEW b \in Int, OrderInv, Usual,
           AnswerInv(a, z, b), WindowInv(a), UNCHANGED clientVars,
           \/ HandleDiscovery \/ Retransmit \/ WindowFull \/ DropRequest \/ FinalNack
           \/ ServerAlarm
    PROVE  WindowInv(a)'
<1>1. UNCHANGED <<cExpected, cMsg, cRx>> /\ sOff \in Nat
  BY AheadIs DEF clientVars, callVars, sockVars
<1>2. sMode = "window" => sOff > 0
  BY DEF WindowInv
<1>3. /\ UNCHANGED <<sTx, sAcked, sDone, sOff, sBuf>>
      /\ c2s' = c2s \/ (c2s # <<>> /\ c2s' = Tail(c2s))
      /\ sMode' = "stream" => sMode = "stream" \/ sOff > 0
      /\ sMode' = "window" => sOff > 0
      /\ sMode' # "idle" => sMode # "idle"
  <2>1. CASE HandleDiscovery \/ DropRequest
    BY <1>2, <2>1 DEF HandleDiscovery, DropRequest, serverVars, sendVars
  <2>2. CASE Retransmit \/ WindowFull \/ FinalNack
    BY <1>1, <1>2, <2>2 DEF Retransmit, WindowFull, FinalNack, netVars
  <2>3. CASE WindowTimeout(Silent)
    BY <1>1, <1>2, <2>3 DEF WindowTimeout, WindowReturn
  <2>4. CASE FinalTimeout(Silent)
    BY <1>1, <1>2, <2>4 DEF FinalTimeout
  <2> QED BY <2>1, <2>2, <2>3, <2>4 DEF ServerAlarm
<1>4. Got(a)' = Got(a) /\ Mine(a)' = Mine(a)
  BY <1>1, <1>3 DEF Got, Mine, Same
<1> QED BY <1>1, <1>3, <1>4, WindowStays

\* The server reads an acknowledgment, with or without a request.
LEMMA ServerReads ==
    ASSUME TypeInv, TypeInv', OrderInv, Usual, SmallWindow,
           NEW a \in Nat, NEW z \in Nat, NEW b \in Int,
           AnswerInv(a, z, b), WindowInv(a), UNCHANGED clientVars,
           \/ HandleAck \/ HandleNack \/ HandleDuplicate \/ HandleGap
           \/ WindowAck \/ WindowNack \/ FinalAck
           \/ HandleRequest /\ Program[Head(c2s).msg].reply = 0
    PROVE  WindowInv(a)'
<1> DEFINE p == Head(c2s)
<1>1. UNCHANGED <<cExpected, cMsg, cRx>> /\ Len(sDone) \in Nat /\ sDone \in Seq(Request)
  BY LenProperties
     DEF clientVars, callVars, sockVars, TypeInv, TypeOK, ServerTypeOK
<1>2. c2s # <<>> /\ c2s' = Tail(c2s) /\ ClientKind(p) # "discovery" /\ sOff' = sOff
  <2>1. CASE HandleAck \/ HandleNack \/ HandleDuplicate \/ HandleGap
    BY <2>1 DEF HandleAck, HandleNack, HandleDuplicate, HandleGap, sendVars
  <2>2. CASE WindowAck \/ WindowNack \/ FinalAck
    BY <2>2 DEF WindowAck, WindowNack, FinalAck
  <2>3. CASE HandleRequest /\ Program[p.msg].reply = 0
    BY <2>3 DEF HandleRequest
  <2> QED BY <2>1, <2>2, <2>3
<1>3. p \in ClientPacket /\ p.ack \in SeqNr /\ p.type = "DATA"
  <2>1. p \in ClientPacket
    BY <1>2, Queues DEF TypeInv
  <2> QED BY <1>2, <2>1 DEF ClientPacket, ClientKind
<1>4. Next12(Prev12(p.ack)) = p.ack
  BY <1>3, NextOfPrev
<1>5. /\ Next12(sAcked') = Wants(p) /\ sTx' = sTx
      /\ sMode' # "idle" => /\ sMode \in {"window", "final"}
                            /\ sMode' \in {"window", "stream"} => sMode = "window"
                            /\ sBuf' = sBuf \/ sBuf' = Unacked(sAcked')
  <2>1. CASE HandleAck \/ HandleNack
    BY <1>4, <2>1 DEF HandleAck, HandleNack, Busy, sendVars, Wants, ClientKind
  <2>2. CASE HandleDuplicate \/ HandleGap
    BY <2>2 DEF HandleDuplicate, HandleGap, Busy, sendVars, Wants, ClientKind
  <2>3. CASE WindowAck
    BY <2>3 DEF WindowAck, WindowReturn, Wants, ClientKind
  <2>4. CASE WindowNack
    BY <1>4, <2>4 DEF WindowNack, Wants, ClientKind
  <2>5. CASE FinalAck
    BY <2>5 DEF FinalAck, Wants, ClientKind
  <2>6. CASE HandleRequest /\ Program[p.msg].reply = 0
    <3>1. ~IsReset(p)
      BY <2>6, RequestIsNext DEF Usual
    <3> QED BY <2>6, <3>1 DEF HandleRequest, Busy, Wants, ClientKind
  <2> QED BY <2>1, <2>2, <2>3, <2>4, <2>5, <2>6
<1>6. Len(sDone') \in Int /\ Len(sDone') >= Len(sDone)
  <2>1. CASE HandleRequest
    <3>1. Len(sDone') = Len(sDone) + 1
      BY <2>1, RequestIsNext DEF Usual
    <3> QED BY <1>1, <3>1
  <2>2. CASE ~HandleRequest
    <3>1. sDone' = sDone
      BY <2>2 DEF HandleAck, HandleNack, HandleDuplicate, HandleGap, WindowAck, WindowNack,
                  FinalAck
    <3> QED BY <1>1, <3>1
  <2> QED BY <2>1, <2>2
<1>7. Got(a)' = Got(a) /\ Mine(a)' = Mine(a)
  BY <1>1, <1>2 DEF Got, Mine, Same
<1> HIDE DEF p
<1>8. p = Head(c2s)
  BY DEF p
<1> QED BY <1>1, <1>2, <1>3, <1>5, <1>6, <1>7, <1>8, WindowAcked

\* A new answer begins with nothing unacknowledged.
LEMMA WindowNew ==
    ASSUME TypeInv, TypeInv', OrderInv, CallerInv, Usual,
           NEW a \in Nat, NEW z \in Nat, NEW b \in Int,
           AnswerInv(a, z, b), WindowInv(a), NewAnswer, NEW k \in Nat, k = Len(sDone) + 1
    PROVE  WindowInv(k)'
<1> DEFINE p == Head(c2s)
<1>1. HandleRequest /\ UNCHANGED clientVars /\ Program[p.msg].reply # 0
  BY DEF NewAnswer, ServerStep
<1>2. AnswerInv(k, a, b + Size(a))' /\ sOff = Size(a) /\ ~Mine(a)
  BY <1>1, RequestAnswered
<1>3. /\ c2s # <<>> /\ c2s' = Tail(c2s) /\ p.msg = k /\ ~IsReset(p) /\ k \in 1 .. Len(Program)
      /\ Len(sDone') = k
  BY <1>1, RequestIsNext DEF Usual
<1>4. /\ sTx' = sTx /\ cExpected' = cExpected /\ sAcked' = p.ack
      /\ sMode' = "stream" /\ sOff' = 0 /\ p.type = "DATA"
  <2>1. sTx' = sTx /\ sAcked' = p.ack /\ sMode' = "stream" /\ sOff' = 0
    BY <1>1, <1>3 DEF HandleRequest
  <2>2. p.type = "DATA"
    <3>1. ClientKind(p) = "request" /\ p \in ClientPacket
      BY <1>1, <1>3, Queues DEF HandleRequest, TypeInv
    <3> QED BY <3>1 DEF ClientPacket, ClientKind
  <2>3. cExpected' = cExpected
    BY <1>1 DEF clientVars, sockVars
  <2> QED BY <2>1, <2>2, <2>3
<1>5. /\ cExpected \in SeqNr /\ c2s \in Seq(ClientPacket) /\ SendWindow \in Nat
  BY WindowNumbers
<1>6. Ahead = 0 /\ Ahead' = 0
  <2>1. Ahead = sOff - Got(a) /\ sOff \in Nat
    BY AheadIs
  <2>2. Got(a) = sOff
    BY <1>2 DEF Got
  <2>3. Ahead' = Ahead
    BY <1>4 DEF Ahead
  <2> QED BY <2>1, <2>2, <2>3
<1>7. LagOf(cExpected, p) = 0 /\ 1 \in 1 .. Len(c2s) /\ p = c2s[1]
  <2>1. p = c2s[1] /\ 1 \in 1 .. Len(c2s)
    BY <1>3, <1>5, TailFacts
  <2>2. Program[k].reply > 0
    BY <1>1, <1>3, Sizes
  <2>3. Current(c2s, cExpected, Len(sDone))
    BY <1>2 DEF WindowInv
  <2>4. k > Len(sDone)
    <3>1. Len(sDone) \in Nat
      BY Numbers
    <3> QED BY <3>1
  <2> QED BY <1>3, <1>4, <2>1, <2>2, <2>3, <2>4 DEF Current
<1>8. Lag' = 0
  <2>1. Wants(p) = Next12(p.ack)
    BY <1>3 DEF Wants
  <2> QED BY <1>4, <1>7, <2>1 DEF Lag, LagOf
<1>9. /\ AcksWithin(c2s', cExpected, SendWindow) /\ AcksInOrder(c2s', cExpected)
      /\ AcksWithin(c2s', cExpected, 0)
  <2>1. AcksWithin(c2s, cExpected, SendWindow - 0) /\ AcksInOrder(c2s, cExpected)
    BY <1>6 DEF WindowInv
  <2>2. SendWindow - 0 = SendWindow
    BY <1>5
  <2>3. /\ AcksWithin(Tail(c2s), cExpected, SendWindow) /\ AcksInOrder(Tail(c2s), cExpected)
        /\ AcksWithin(Tail(c2s), cExpected, LagOf(cExpected, p))
    BY <1>3, <1>4, <1>5, <2>1, <2>2, AcksTail
  <2> QED BY <1>3, <1>7, <2>3
<1>10. Mine(k)'
  <2>1. ~Mine(k)' => sOff' = Size(k)
    BY <1>2 DEF AnswerInv, ClientPart
  <2>2. Size(k) # 0
    BY <1>1, <1>3, Sizes
  <2> QED BY <1>4, <2>1, <2>2
<1>11. 0 <= SendWindow /\ SendWindow - 0 = SendWindow /\ \A i \in 1 .. 0 : FALSE
  BY <1>5
<1> QED BY <1>4, <1>6, <1>8, <1>9, <1>10, <1>11 DEF WindowInv

LEMMA WindowInit == Init /\ TypeInv => AnswerWindow
<1> SUFFICES ASSUME Init, TypeInv PROVE AnswerWindow
  OBVIOUS
<1>1. /\ cPc = "discover" /\ cMsg = 1 /\ cEv = {} /\ cExpected = 0 /\ cRx = <<>>
      /\ c2s = <<Discovery>> /\ s2c = <<>> /\ sMode = "idle" /\ sTx = 0 /\ sBuf = {}
      /\ sPend = {} /\ sOff = 0 /\ sDone = <<>> /\ Len(sDone) = 0
  BY DEF Init, ClientInit, ServerInit, NetInit
<1>2. AnswerInv(0, 0, 0)
  <2>1. Size(0) = 0 /\ Nr(0 + 0) = 0
    BY Sizes, NrSmall
  <2>2. ServerPart(0, 0, 0)
    BY <1>1, <2>1 DEF ServerPart
  <2>3. OnWire(s2c, 0, 0, 0, sOff) /\ OnlyOf(s2c, 0)
    BY <1>1 DEF OnWire, OnlyOf
  <2>4. ClientPart(0, 0)
    BY <1>1, <2>1, <2>3 DEF ClientPart, Mine, Got, Same
  <2> QED BY <2>2, <2>3, <2>4 DEF AnswerInv
<1>3. Ahead = 0 /\ SendWindow \in Nat
  BY <1>1, DiffSelf, WindowNumbers DEF Ahead
<1>4. \A i \in 1 .. Len(c2s) : c2s[i].type # "DATA"
  <2>1. Discovery.type = "DISCOVERY"
    BY DEF Discovery
  <2> QED BY <1>1, <2>1
<1>5. WindowInv(0)
  BY <1>1, <1>3, <1>4 DEF WindowInv, AcksWithin, AcksInOrder, Current
<1> QED BY <1>2, <1>5 DEF AnswerWindow

\* Every step keeps AnswerWindow.
LEMMA WindowStep ==
    ASSUME TypeInv, TypeInv', OrderInv, OrderInv', CallerInv, Usual, SmallWindow,
           AnswerWindow, [Next]_vars
    PROVE  AnswerWindow'
<1>1. PICK a \in Nat, z \in Nat, b \in Int : AnswerInv(a, z, b) /\ WindowInv(a)
  BY DEF AnswerWindow
<1>2. CASE NewAnswer
  <2>1. PICK k \in Nat : k = Len(sDone) + 1
    BY Numbers
  <2>2. AnswerInv(k, a, b + Size(a))'
    BY <1>1, <1>2, <2>1, RequestAnswered DEF ServerStep, NewAnswer
  <2>3. b + Size(a) \in Int
    BY <1>1, AnswerSizes DEF AnswerInv
  <2>4. WindowInv(k)'
    BY <1>1, <1>2, <2>1, WindowNew
  <2> QED BY <1>1, <2>1, <2>2, <2>3, <2>4 DEF AnswerWindow
<1>3. CASE ~NewAnswer
  <2>1. AnswerInv(a, z, b)'
    BY <1>1, <1>3, AnswerStep
  <2>2. WindowInv(a)'
    <3>1. CASE ClientStep \/ NetStep
      BY <1>1, <2>1, <3>1, WindowClient
    <3>2. CASE ServerStep
      <4>1. UNCHANGED clientVars
        BY <3>2 DEF ServerStep
      <4>2. CASE SendPacket
        BY <1>1, <2>1, <4>1, <4>2, WindowSent
      <4>3. CASE HandleDiscovery \/ Retransmit \/ WindowFull \/ DropRequest \/ FinalNack
                 \/ ServerAlarm
        BY <1>1, <4>1, <4>3, ServerStays
      <4>4. CASE \/ HandleAck \/ HandleNack \/ HandleDuplicate \/ HandleGap
                 \/ WindowAck \/ WindowNack \/ FinalAck
                 \/ HandleRequest /\ Program[Head(c2s).msg].reply = 0
        BY <1>1, <4>1, <4>4, ServerReads
      <4> QED BY <1>3, <3>2, <4>2, <4>3, <4>4 DEF ServerStep, ServerThread, NewAnswer
    <3>3. CASE UNCHANGED vars
      BY <1>1, <2>1, <3>3, WindowStutter
    <3> QED BY <3>1, <3>2, <3>3 DEF Next
  <2> QED BY <1>1, <2>1, <2>2 DEF AnswerWindow
<1> QED BY <1>2, <1>3

\* With AnswerWindow, the window is kept and tx_buffer is complete.
LEMMA WindowHolds ==
    ASSUME TypeInv, OrderInv, Usual, AnswerWindow
    PROVE  WindowKept
<1>1. PICK a \in Nat, z \in Nat, b \in Int : AnswerInv(a, z, b) /\ WindowInv(a)
  BY DEF AnswerWindow
<1>2. /\ Got(a) \in Nat /\ sOff \in Nat /\ Ahead = sOff - Got(a)
      /\ cExpected = Nr(b + Got(a)) /\ Lag \in Int /\ Lag >= 0
  BY <1>1, AheadIs, WindowNumbers
<1>3. Ahead <= SendWindow
  BY <1>1 DEF WindowInv
<1>4. ASSUME sMode # "idle", NEW d \in 0 .. Ahead - 1
      PROVE  \E q \in sBuf : q.seq = (cExpected + d) % SeqMod
  <2> DEFINE i == Got(a) + 1 + d
             x == b + Got(a)
  <2>1. i \in 1 .. sOff /\ i > Got(a) - Lag /\ d \in Int /\ x \in Int
    BY <1>2, <1>4
  <2>2. PICK q \in sBuf : q.idx = i
    BY <1>1, <1>4, <2>1 DEF WindowInv
  <2>3. q.seq = Nr(b + q.idx - 1)
    BY <1>1 DEF AnswerInv, ServerPart, IsPacket, Place
  <2>4. b + i - 1 = x + d
    <3>1. \A g, e \in Int : b + (g + 1 + e) - 1 = b + g + e
      OBVIOUS
    <3>2. Got(a) \in Int
      BY <1>2
    <3> QED BY <2>1, <3>1, <3>2
  <2>5. (Nr(x) + d) % SeqMod = Nr(x + d)
    <3> HIDE DEF x
    <3> QED BY <2>1, NrSum
  <2> QED BY <1>2, <2>2, <2>3, <2>4, <2>5
<1> QED BY <1>3, <1>4 DEF WindowKept, Ahead

(* For the same sessions, and a window of at most half the numbers: the    *)
(* server is never more than SEND_WINDOW packets ahead of the client       *)
(* ("server sends at most SEND_WINDOW packets ahead", udprdma.c:29-30),    *)
(* and every packet the client lacks is still in tx_buffer, whatever old   *)
(* or late acknowledgment _handle_data, _wait_for_window_ack or            *)
(* _wait_for_ack prune it by.                                              *)
THEOREM WindowIsKept ==
    ASSUME Len(Program) < SeqMod, OneAnswer, AnswersFit, SmallWindow
    PROVE  Spec => []WindowKept
<1>0. Usual
  BY DEF Usual
<1> DEFINE Inv == TypeInv /\ OrderInv /\ ReplyInv /\ AnswerWindow
<1>1. Init => Inv
  BY InitTyped, InitOrdered, ReplyInit, WindowInit
<1>2. Inv /\ [Next]_vars => Inv'
  <2>1. TypeInv /\ OrderInv /\ [Next]_vars => TypeInv' /\ OrderInv'
    BY TypeStep, OrderStep
  <2>2. TypeInv /\ OrderInv /\ ReplyInv /\ [Next]_vars => ReplyInv'
    BY <1>0, <2>1, ReplyStep
  <2>3. TypeInv /\ OrderInv /\ ReplyInv /\ AnswerWindow /\ [Next]_vars => AnswerWindow'
    BY <1>0, <2>1, WindowStep DEF ReplyInv
  <2> QED BY <2>1, <2>2, <2>3
<1>3. Inv => WindowKept
  BY <1>0, WindowHolds
<1>4. QED BY <1>1, <1>2, <1>3, PTL DEF Spec
====

---- MODULE UdprdmaClient ----
(***************************************************************************)
(* The client end: one socket of neutrino/iop/udpfs/src/udprdma.c as the   *)
(* operations of udpfs_core.c use it.                                      *)
(*                                                                         *)
(* Two threads run: the caller, blocked in udprdma_discover, udprdma_send  *)
(* or udprdma_recv on the socket's event flag, and the SMAP receive thread *)
(* that calls _ist for every packet.  The alarm sets EF_TIMEOUT from an    *)
(* interrupt.  cEv is the event flag; cPc is where the caller waits.       *)
(***************************************************************************)
EXTENDS UdprdmaNet

VARIABLES
    cPc,        \* "discover", "call", "send", "recv", "recvd", "done", "failed"
    cState,     \* state of the socket
    cMsg,       \* message of Program the caller is at
    cTries,     \* retries, the loop counter of discover and of send
    cEv,        \* event flag bits
    cTx,        \* tx_seq_nr
    cAcked,     \* tx_seq_nr_acked
    cExpected,  \* rx_seq_nr_expected
    cBuffer,    \* rx_buffer # NULL
    cRx,        \* what was written to rx_buffer: the packets, in order
    cWin,       \* rx_window_count
    cNacked,    \* rx_nack_sent
    cOk,        \* messages whose udprdma_recv returned data (observed)
    cBoot       \* restarts of this client (observed)

sockVars == <<cTx, cAcked, cExpected, cBuffer, cRx, cWin, cNacked>>
callVars == <<cPc, cState, cMsg, cTries, cOk, cBoot>>
clientVars == <<sockVars, callVars, cEv>>

Events == {"INFO", "ACK", "FIN", "NACK", "WINDOW", "TIMEOUT"}

ClientTypeOK ==
    /\ cPc \in {"discover", "call", "send", "recv", "recvd", "done", "failed"}
    /\ cState \in {"DISCOVERING", "CONNECTED", "DISCONNECTED"}
    /\ cMsg \in 1 .. Len(Program) + 1
    /\ cTries \in 0 .. MaxRetries
    /\ cEv \subseteq Events
    /\ cTx \in SeqNr /\ cAcked \in SeqNr /\ cExpected \in SeqNr
    /\ cBuffer \in BOOLEAN /\ cNacked \in BOOLEAN
    /\ cRx \in Seq(ServerPacket)
    /\ cWin \in 0 .. RxAckWindow - 1
    /\ cOk \subseteq 1 .. Len(Program)
    /\ cBoot \in 0 .. MaxBoots

Discovery == [type |-> "DISCOVERY", seq |-> 0, ack |-> 0,
              isAck |-> FALSE, msg |-> 0, boot |-> cBoot]

\* _send_ack: an ACK names the last packet received, a NACK the one missing.
AckPacket(isAck) ==
    [type |-> "DATA", seq |-> cTx,
     ack |-> IF isAck THEN Prev12(cExpected) ELSE cExpected,
     isAck |-> isAck, msg |-> 0, boot |-> cBoot]

\* _send_data, _send_data_ll: every request carries an ACK of its own.
DataPacket(seq, k) ==
    [type |-> "DATA", seq |-> seq, ack |-> Prev12(cExpected),
     isAck |-> TRUE, msg |-> k, boot |-> cBoot]

\* udprdma_create, then the first DISCOVERY of udprdma_discover.
ClientInit ==
    /\ cPc = "discover" /\ cState = "DISCOVERING"
    /\ cMsg = 1 /\ cTries = 0 /\ cEv = {} /\ cOk = {} /\ cBoot = 0
    /\ cTx = 0 /\ cAcked = 0 /\ cExpected = 0
    /\ cBuffer = FALSE /\ cRx = <<>> /\ cWin = 0 /\ cNacked = FALSE
    /\ c2s = <<Discovery>>

\* An IOP reset loads the module again: memset, bind, discover.  Nothing the
\* old client was told survives, and the server is not told.
Reboot ==
    /\ cBoot < MaxBoots
    /\ cBoot' = cBoot + 1
    /\ cPc' = "discover" /\ cState' = "DISCOVERING"
    /\ cMsg' = 1 /\ cTries' = 0 /\ cEv' = {} /\ cOk' = {}
    /\ cTx' = 0 /\ cAcked' = 0 /\ cExpected' = 0
    /\ cBuffer' = FALSE /\ cRx' = <<>> /\ cWin' = 0 /\ cNacked' = FALSE
    /\ c2s' = Append(c2s, [Discovery EXCEPT !.boot = cBoot + 1])
    /\ UNCHANGED <<s2c, lost, spurious>>

\* ---------------------------------------------------------------- discover

Discovered ==
    /\ cPc = "discover" /\ "INFO" \in cEv
    /\ cEv' = {}
    /\ cState' = "CONNECTED"
    /\ cPc' = IF Program = <<>> THEN "done" ELSE "call"
    /\ UNCHANGED <<sockVars, cMsg, cTries, cOk, cBoot, netVars>>

DiscoverTimeout ==
    /\ cPc = "discover" /\ "INFO" \notin cEv /\ "TIMEOUT" \in cEv
    /\ cEv' = {}
    /\ IF cTries + 1 < MaxRetries
         THEN /\ cTries' = cTries + 1
              /\ c2s' = Append(c2s, Discovery)
              /\ UNCHANGED <<cPc, cState>>
         ELSE /\ cPc' = "failed" /\ cState' = "DISCONNECTED"
              /\ UNCHANGED <<cTries, c2s>>
    /\ UNCHANGED <<sockVars, cMsg, cOk, cBoot, s2c, lost, spurious>>

\* -------------------------------------------------------------------- send

\* An operation of udpfs_core.c arms the buffer before its first message
\* leaves; udprdma_send drops a stale EF_RX_ACK and sends.
SendCall ==
    /\ cPc = "call"
    /\ cEv' = cEv \ {"ACK"}
    /\ c2s' = Append(c2s, DataPacket(cTx, cMsg))
    /\ cTx' = Next12(cTx)
    /\ cTries' = 0
    /\ cPc' = "send"
    /\ IF StartsOperation(cMsg)
         THEN /\ cBuffer' = TRUE /\ cRx' = <<>>
              /\ cWin' = 0 /\ cNacked' = FALSE
         ELSE UNCHANGED <<cBuffer, cRx, cWin, cNacked>>
    /\ UNCHANGED <<cAcked, cExpected, cState, cMsg, cOk, cBoot,
                   s2c, lost, spurious>>

\* The int16_t difference lies in 0 .. 4095, as "& 0xFFF" leaves it.
AckCovers(sent) ==
    LET diff == Diff12(cAcked, sent)
    IN  diff >= 0 \/ diff < -(SeqMod \div 2)

SendAcked ==
    /\ cPc = "send" /\ "ACK" \in cEv
    /\ AckCovers(Prev12(cTx))
    /\ cEv' = cEv \ {"ACK", "TIMEOUT"}
    /\ IF Program[cMsg].recv
         THEN cPc' = "recv" /\ cMsg' = cMsg
         ELSE /\ cMsg' = cMsg + 1
              /\ cPc' = IF cMsg = Len(Program) THEN "done" ELSE "call"
    /\ UNCHANGED <<sockVars, cState, cTries, cOk, cBoot, netVars>>

\* Timeout, or an ACK that does not cover the packet: the same sequence
\* number again, MAX_RETRIES sends in all.
SendRetry ==
    /\ cPc = "send"
    /\ \/ "ACK" \in cEv /\ ~AckCovers(Prev12(cTx))
       \/ "ACK" \notin cEv /\ "TIMEOUT" \in cEv
    /\ cEv' = cEv \ {"ACK", "TIMEOUT"}
    /\ IF cTries + 1 < MaxRetries
         THEN /\ cTries' = cTries + 1
              /\ c2s' = Append(c2s, DataPacket(Prev12(cTx), cMsg))
              /\ UNCHANGED <<cPc, cState, cTx>>
         ELSE /\ cTx' = Prev12(cTx)
              /\ cPc' = "failed" /\ cState' = "DISCONNECTED"
              /\ UNCHANGED <<cTries, c2s>>
    /\ UNCHANGED <<cAcked, cExpected, cBuffer, cRx, cWin, cNacked,
                   cMsg, cOk, cBoot, s2c, lost, spurious>>

\* -------------------------------------------------------------------- recv

RecvEvents == {"FIN", "NACK", "WINDOW", "TIMEOUT"}

\* WaitEventFlag returns with WEF_CLEAR: every bit of the flag is cleared.
RecvFin ==
    /\ cPc = "recv" /\ "FIN" \in cEv
    /\ cEv' = {}
    /\ c2s' = Append(c2s, AckPacket(TRUE))
    /\ cPc' = "recvd"
    /\ UNCHANGED <<sockVars, cState, cMsg, cTries, cOk, cBoot,
                   s2c, lost, spurious>>

\* rx_buffer is released after the ACK left: until then _ist still uses it.
RecvReturn ==
    /\ cPc = "recvd"
    /\ cBuffer' = FALSE
    /\ cOk' = cOk \cup {cMsg}
    /\ cMsg' = cMsg + 1
    /\ cPc' = IF cMsg = Len(Program) THEN "done" ELSE "call"
    /\ UNCHANGED <<cTx, cAcked, cExpected, cRx, cWin, cNacked,
                   cState, cTries, cEv, cBoot, netVars>>

RecvNack ==
    /\ cPc = "recv" /\ "FIN" \notin cEv /\ "NACK" \in cEv
    /\ cEv' = {}
    /\ c2s' = Append(c2s, AckPacket(FALSE))
    /\ UNCHANGED <<sockVars, callVars, s2c, lost, spurious>>

RecvWindow ==
    /\ cPc = "recv" /\ {"FIN", "NACK"} \cap cEv = {} /\ "WINDOW" \in cEv
    /\ cEv' = {}
    /\ c2s' = Append(c2s, AckPacket(TRUE))
    /\ UNCHANGED <<sockVars, callVars, s2c, lost, spurious>>

RecvTimeout ==
    /\ cPc = "recv" /\ RecvEvents \cap cEv = {"TIMEOUT"}
    /\ cEv' = {}
    /\ cBuffer' = FALSE
    /\ cState' = "DISCONNECTED"
    /\ cPc' = "failed"
    /\ UNCHANGED <<cTx, cAcked, cExpected, cRx, cWin, cNacked,
                   cMsg, cTries, cOk, cBoot, netVars>>

ClientThread ==
    \/ Discovered \/ DiscoverTimeout
    \/ SendCall \/ SendAcked \/ SendRetry
    \/ RecvFin \/ RecvReturn \/ RecvNack \/ RecvWindow \/ RecvTimeout

\* ---------------------------------------------------------------- the alarm

Awaited ==
    CASE cPc = "discover" -> {"INFO", "TIMEOUT"}
      [] cPc = "send" -> {"ACK", "TIMEOUT"}
      [] cPc = "recv" -> RecvEvents
      [] OTHER -> {}

\* The caller is blocked: none of the bits it waits for is set.
ClientWaits == Awaited # {} /\ Awaited \cap cEv = {}

Alarm(due) ==
    /\ ClientWaits
    /\ AlarmFires(due)
    /\ cEv' = cEv \cup {"TIMEOUT"}
    /\ UNCHANGED <<sockVars, callVars, c2s, s2c, lost>>

\* --------------------------------------------------------- _ist, per packet

\* INFORM is ignored once connected.
IstInform ==
    /\ s2c # <<>> /\ Head(s2c).type = "INFORM"
    /\ s2c' = Tail(s2c)
    /\ cEv' = IF cState = "CONNECTED" THEN cEv ELSE cEv \cup {"INFO"}
    /\ UNCHANGED <<sockVars, callVars, c2s, lost, spurious>>

\* What becomes of a payload: taken, or out of order.
TakesAny(p) == p.idx # 0 /\ cBuffer
Takes(p) == p.idx # 0 /\ cBuffer /\ p.seq = cExpected
Gap(p) == p.idx # 0 /\ cBuffer /\ p.seq # cExpected
WindowEndsLate(p) == Takes(p) /\ ~p.fin /\ cWin >= RxAckWindow
WindowEnds(p) == Takes(p) /\ ~p.fin /\ cWin + 1 >= RxAckWindow

RaisesFinUnordered(p) ==
    (IF p.isAck THEN {"ACK"} ELSE {})
    \cup (IF cBuffer /\ p.fin THEN {"FIN"} ELSE {})
    \cup (IF WindowEnds(p) THEN {"WINDOW"} ELSE {})
    \cup (IF Gap(p) /\ ~cNacked THEN {"NACK"} ELSE {})

\* The event bits _ist sets for a DATA packet; one NACK per number missing.
Raises(p) ==
    (IF p.isAck THEN {"ACK"} ELSE {})
    \cup (IF Takes(p) /\ p.fin THEN {"FIN"} ELSE {})
    \cup (IF WindowEnds(p) THEN {"WINDOW"} ELSE {})
    \cup (IF Gap(p) /\ ~cNacked THEN {"NACK"} ELSE {})

IstData ==
    /\ s2c # <<>> /\ Head(s2c).type = "DATA"
    /\ LET p == Head(s2c) IN
         /\ cEv' = cEv \cup Raises(p)
         /\ cAcked' = IF p.isAck THEN p.ack ELSE cAcked
         /\ cRx' = IF Takes(p) THEN Append(cRx, p) ELSE cRx
         /\ cExpected' = IF Takes(p) THEN Next12(p.seq) ELSE cExpected
         /\ cNacked' = (~Takes(p) /\ (Gap(p) \/ cNacked))
         /\ cWin' = IF ~Takes(p) \/ p.fin THEN cWin
                    ELSE IF WindowEnds(p) THEN 0 ELSE cWin + 1
    /\ s2c' = Tail(s2c)
    /\ UNCHANGED <<cTx, cBuffer, callVars, c2s, lost, spurious>>

Ist == IstInform \/ IstData
====

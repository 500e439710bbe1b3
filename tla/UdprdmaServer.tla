---- MODULE UdprdmaServer ----
(***************************************************************************)
(* The server end: the transport of neutrino/pc/udpfs_server.py.           *)
(*                                                                         *)
(* One thread.  In mode "idle" it sits in select() of run(); a request is  *)
(* handled to its end before the next packet is looked at, and while the   *)
(* handler waits for ACKs ("window": _wait_for_window_ack, "final":        *)
(* _wait_for_final_ack) it reads the data socket itself and drops whatever *)
(* carries a payload.  sPend is the rest of a running _retransmit_from.    *)
(***************************************************************************)
EXTENDS UdprdmaNet

VARIABLES
    sMode,      \* "idle", "stream", "window" or "final"
    sTx,        \* tx_seq_nr
    sAcked,     \* tx_seq_nr_acked
    sExpected,  \* rx_seq_nr_expected
    sBuf,       \* tx_buffer; a packet's place in it is its idx
    sPend,      \* packets a retransmission has still to send
    sOff,       \* packets of the answer sent so far
    sOld,       \* old_acked
    sRetries,   \* window_retries, or attempt of _wait_for_final_ack
    sDone       \* requests dispatched, in order (observed)

sendVars == <<sMode, sPend, sOff, sOld, sRetries>>
serverVars == <<sTx, sAcked, sExpected, sBuf, sDone, sendVars>>

Request == [msg : 1 .. Len(Program), boot : Nat]

ServerTypeOK ==
    /\ sMode \in {"idle", "stream", "window", "final"}
    /\ sTx \in SeqNr /\ sAcked \in SeqNr /\ sExpected \in SeqNr
    /\ sOld \in SeqNr
    /\ sBuf \subseteq ServerPacket /\ sPend \subseteq ServerPacket
    /\ sOff \in Nat
    /\ sRetries \in 0 .. MaxRetries
    /\ sDone \in Seq(Request)

ServerInit ==
    /\ sMode = "idle" /\ sTx = 0 /\ sAcked = 0 /\ sExpected = 0
    /\ sBuf = {} /\ sPend = {} /\ sOff = 0 /\ sOld = 0
    /\ sRetries = 0 /\ sDone = <<>>

Inform == [type |-> "INFORM", seq |-> 1, ack |-> 0, isAck |-> FALSE,
           fin |-> FALSE, msg |-> 0, idx |-> 0, boot |-> 0]

AckReply(expected, isAck) ==
    [type |-> "DATA", seq |-> sTx,
     ack |-> IF isAck THEN Prev12(expected) ELSE expected, isAck |-> isAck,
     fin |-> FALSE, msg |-> 0, idx |-> 0, boot |-> 0]

\* The handler that runs is that of the last request dispatched.
Answered == sDone[Len(sDone)]

ReplyPacket(i) ==
    [type |-> "DATA", seq |-> sTx, ack |-> Prev12(sExpected), isAck |-> TRUE,
     fin |-> i = Program[Answered.msg].reply,
     msg |-> Answered.msg, idx |-> i, boot |-> Answered.boot]

\* tx_buffer after an ACK of sequence number ack.
UnackedOneLess(ack) == {q \in sBuf : AtOrAfter(q.seq, Next12(Next12(ack)))}
Unacked(ack) == {q \in sBuf : AtOrAfter(q.seq, Next12(ack))}

\* The packets _retransmit_from(seq) sends.
From(seq) == {q \in sBuf : AtOrAfter(q.seq, seq)}

\* _retransmit_from(tx_buffer[0][0]), if there is anything in tx_buffer.
FirstIn(buf) == CHOOSE q \in buf : \A r \in buf : q.idx <= r.idx
AllOf(buf) == {q \in buf : AtOrAfter(q.seq, FirstIn(buf).seq)}

\* tx_seq_nr - tx_seq_nr_acked - 1.
InFlight == Prev12(Diff12(sTx, sAcked))

Busy == sMode # "idle" \/ sPend # {}

\* ------------------------------------------------------------ _handle_data

\* _handle_discovery: the answer; no sequence number changes.
HandleDiscovery ==
    /\ ~Busy /\ c2s # <<>> /\ Head(c2s).type = "DISCOVERY"
    /\ c2s' = Tail(c2s)
    /\ s2c' = Append(s2c, Inform)
    /\ UNCHANGED <<serverVars, lost, spurious>>

HandleAck ==
    /\ ~Busy /\ c2s # <<>> /\ ClientKind(Head(c2s)) = "clientAck"
    /\ Head(c2s).isAck
    /\ sAcked' = Head(c2s).ack
    /\ sBuf' = Unacked(Head(c2s).ack)
    /\ c2s' = Tail(c2s)
    /\ UNCHANGED <<sTx, sExpected, sDone, sendVars, s2c, lost, spurious>>

HandleNack ==
    /\ ~Busy /\ c2s # <<>> /\ ClientKind(Head(c2s)) = "clientAck"
    /\ ~Head(c2s).isAck
    /\ sAcked' = Prev12(Head(c2s).ack)
    /\ sPend' = From(Head(c2s).ack)
    /\ c2s' = Tail(c2s)
    /\ UNCHANGED <<sTx, sExpected, sBuf, sDone, sMode, sOff, sOld,
                   sRetries, s2c, lost, spurious>>

\* Where a request stands, tested in this order: expected, the last one once
\* more, or number 0, which is taken for a restarted peer.
IsExpected(p) == p.seq = sExpected
IsDuplicate(p) == ~IsExpected(p) /\ p.seq = Prev12(sExpected)
IsResetUnordered(p) == ~IsExpected(p) /\ p.seq = 0
IsResetNever(p) == FALSE
IsReset(p) == ~IsExpected(p) /\ ~IsDuplicate(p) /\ p.seq = 0

\* The last request once more: ACK it again and resend what is not acked.
HandleDuplicate ==
    /\ ~Busy /\ c2s # <<>> /\ ClientKind(Head(c2s)) = "request"
    /\ LET p == Head(c2s) IN
         /\ IsDuplicate(p)
         /\ sAcked' = p.ack
         /\ sBuf' = Unacked(p.ack)
         /\ sPend' = AllOf(Unacked(p.ack))
    /\ s2c' = Append(s2c, AckReply(sExpected, TRUE))
    /\ c2s' = Tail(c2s)
    /\ UNCHANGED <<sTx, sExpected, sDone, sMode, sOff, sOld, sRetries,
                   lost, spurious>>

\* Any other number is answered with a NACK.
HandleGap ==
    /\ ~Busy /\ c2s # <<>> /\ ClientKind(Head(c2s)) = "request"
    /\ LET p == Head(c2s) IN
         /\ ~IsExpected(p) /\ ~IsDuplicate(p) /\ ~IsReset(p)
         /\ sAcked' = p.ack
         /\ sBuf' = Unacked(p.ack)
    /\ s2c' = Append(s2c, AckReply(sExpected, FALSE))
    /\ c2s' = Tail(c2s)
    /\ UNCHANGED <<sTx, sExpected, sDone, sendVars, lost, spurious>>

\* The request expected, or the first of a restarted peer: acknowledged
\* before it is handled.  The handler of a chunk that does not end its write
\* acknowledges it a second time; any other starts an answer with an empty
\* tx_buffer.
HandleRequest ==
    /\ ~Busy /\ c2s # <<>> /\ ClientKind(Head(c2s)) = "request"
    /\ LET p == Head(c2s)
           reset == IsReset(p)
           base == IF reset THEN 0 ELSE sExpected
           ack == [AckReply(Next12(base), TRUE)
                     EXCEPT !.seq = IF reset THEN 0 ELSE sTx]
       IN /\ IsExpected(p) \/ reset
          /\ sExpected' = Next12(base)
          /\ sTx' = IF reset THEN 0 ELSE sTx
          /\ sAcked' = IF reset THEN 0 ELSE p.ack
          /\ sDone' = Append(sDone, [msg |-> p.msg, boot |-> p.boot])
          /\ IF Program[p.msg].reply = 0
               THEN /\ s2c' = s2c \o <<ack, ack>>
                    /\ sBuf' = IF reset THEN {} ELSE Unacked(p.ack)
                    /\ UNCHANGED <<sMode, sOff, sRetries>>
               ELSE /\ s2c' = Append(s2c, ack)
                    /\ sBuf' = {}
                    /\ sMode' = "stream" /\ sOff' = 0 /\ sRetries' = 0
    /\ c2s' = Tail(c2s)
    /\ UNCHANGED <<sPend, sOld, lost, spurious>>

\* --------------------------------------------------- sending the answer

\* One sendto of _retransmit_from, in the order of tx_buffer.
Retransmit ==
    /\ sPend # {}
    /\ \E q \in sPend :
         /\ \A r \in sPend : q.idx <= r.idx
         /\ s2c' = Append(s2c, q)
         /\ sPend' = sPend \ {q}
    /\ UNCHANGED <<sTx, sAcked, sExpected, sBuf, sDone, sMode, sOff,
                   sOld, sRetries, c2s, lost, spurious>>

\* _send_data_packet.  The first packet is sent without a look at the window.
SendPacket ==
    /\ sMode = "stream" /\ sPend = {}
    /\ sOff = 0 \/ InFlight < SendWindow
    /\ LET p == ReplyPacket(sOff + 1) IN
         /\ s2c' = Append(s2c, p)
         /\ sBuf' = sBuf \cup {p}
         /\ sMode' = IF p.fin THEN "final" ELSE "stream"
    /\ sTx' = Next12(sTx)
    /\ sOff' = sOff + 1
    /\ sRetries' = 0
    /\ UNCHANGED <<sAcked, sExpected, sDone, sPend, sOld,
                   c2s, lost, spurious>>

WindowFull ==
    /\ sMode = "stream" /\ sPend = {}
    /\ sOff > 0 /\ InFlight >= SendWindow
    /\ sOld' = sAcked
    /\ sMode' = "window"
    /\ UNCHANGED <<sTx, sAcked, sExpected, sBuf, sDone, sPend, sOff,
                   sRetries, netVars>>

\* A packet with a payload is read from the socket and dropped.
DropRequest ==
    /\ sMode \in {"window", "final"} /\ sPend = {}
    /\ c2s # <<>> /\ ClientKind(Head(c2s)) = "request"
    /\ c2s' = Tail(c2s)
    /\ UNCHANGED <<serverVars, s2c, lost, spurious>>

\* Back in the loop after _wait_for_window_ack: MAX_WINDOW_RETRIES returns
\* without progress abort the transfer.
WindowReturn(acked) ==
    IF acked # sOld
      THEN sRetries' = 0 /\ sMode' = "stream"
      ELSE IF sRetries + 1 < MaxRetries
             THEN sRetries' = sRetries + 1 /\ sMode' = "stream"
             ELSE sRetries' = 0 /\ sMode' = "idle"

WindowAck ==
    /\ sMode = "window" /\ sPend = {}
    /\ c2s # <<>> /\ ClientKind(Head(c2s)) = "clientAck" /\ Head(c2s).isAck
    /\ sAcked' = Head(c2s).ack
    /\ sBuf' = Unacked(Head(c2s).ack)
    /\ WindowReturn(Head(c2s).ack)
    /\ c2s' = Tail(c2s)
    /\ UNCHANGED <<sTx, sExpected, sDone, sPend, sOff, sOld,
                   s2c, lost, spurious>>

WindowNack ==
    /\ sMode = "window" /\ sPend = {}
    /\ c2s # <<>> /\ ClientKind(Head(c2s)) = "clientAck" /\ ~Head(c2s).isAck
    /\ sAcked' = Prev12(Head(c2s).ack)
    /\ sPend' = From(Head(c2s).ack)
    /\ c2s' = Tail(c2s)
    /\ UNCHANGED <<sTx, sExpected, sBuf, sDone, sMode, sOff, sOld,
                   sRetries, s2c, lost, spurious>>

WindowTimeout(due) ==
    /\ sMode = "window" /\ sPend = {}
    /\ AlarmFires(due)
    /\ sPend' = AllOf(sBuf)
    /\ WindowReturn(sAcked)
    /\ UNCHANGED <<sTx, sAcked, sExpected, sBuf, sDone, sOff, sOld,
                   c2s, s2c, lost>>

\* _wait_for_ack: only an ACK of the FIN packet ends the wait.
FinalAck ==
    /\ sMode = "final" /\ sPend = {}
    /\ c2s # <<>> /\ ClientKind(Head(c2s)) = "clientAck" /\ Head(c2s).isAck
    /\ LET ack == Head(c2s).ack IN
         /\ sAcked' = ack
         /\ IF ack = Prev12(sTx)
              THEN sBuf' = {} /\ sMode' = "idle"
              ELSE sBuf' = Unacked(ack) /\ UNCHANGED sMode
    /\ c2s' = Tail(c2s)
    /\ UNCHANGED <<sTx, sExpected, sDone, sPend, sOff, sOld, sRetries,
                   s2c, lost, spurious>>

FinalNack ==
    /\ sMode = "final" /\ sPend = {}
    /\ c2s # <<>> /\ ClientKind(Head(c2s)) = "clientAck" /\ ~Head(c2s).isAck
    /\ sPend' = From(Head(c2s).ack)
    /\ c2s' = Tail(c2s)
    /\ UNCHANGED <<sTx, sAcked, sExpected, sBuf, sDone, sMode, sOff,
                   sOld, sRetries, s2c, lost, spurious>>

FinalTimeoutForever(due) ==
    /\ sMode = "final" /\ sPend = {}
    /\ AlarmFires(due)
    /\ sPend' = AllOf(sBuf)
    /\ sMode' = IF sBuf = {} THEN "idle" ELSE "final"
    /\ UNCHANGED <<sTx, sAcked, sExpected, sBuf, sDone, sOff, sOld, sRetries,
                   c2s, s2c, lost>>

\* MAX_WINDOW_RETRIES + 1 waits; each that fails resends what is not acked.
FinalTimeout(due) ==
    /\ sMode = "final" /\ sPend = {}
    /\ AlarmFires(due)
    /\ IF sBuf = {}
         THEN sMode' = "idle" /\ UNCHANGED <<sPend, sRetries>>
         ELSE /\ sPend' = AllOf(sBuf)
              /\ IF sRetries < MaxRetries
                   THEN sRetries' = sRetries + 1 /\ UNCHANGED sMode
                   ELSE sMode' = "idle" /\ UNCHANGED sRetries
    /\ UNCHANGED <<sTx, sAcked, sExpected, sBuf, sDone, sOff, sOld,
                   c2s, s2c, lost>>

ServerThread ==
    \/ HandleDiscovery \/ HandleAck \/ HandleNack
    \/ HandleDuplicate \/ HandleGap \/ HandleRequest
    \/ Retransmit \/ SendPacket \/ WindowFull \/ DropRequest
    \/ WindowAck \/ WindowNack \/ FinalAck \/ FinalNack
====

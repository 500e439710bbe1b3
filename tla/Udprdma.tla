---- MODULE Udprdma ----
(***************************************************************************)
(* The client and the server of a UDPRDMA session over a network that may  *)
(* lose packets and delay them, but not reorder them (one switched LAN).   *)
(***************************************************************************)
EXTENDS UdprdmaClient, UdprdmaServer

vars == <<clientVars, serverVars, netVars>>

\* The timers are far apart (a client waits 0.5 s for an ACK and 5 s for
\* data, the server 0.1 s, and packets cross the LAN in less): a server alarm
\* is due when no packet is in flight and the client is blocked or through,
\* a client alarm when the server has given up waiting as well.
Silent ==
    /\ c2s = <<>> /\ s2c = <<>> /\ sPend = {} /\ sMode # "stream"
    /\ ClientWaits \/ cPc \in {"done", "failed"}

ClientAlarm == Alarm(Silent /\ sMode = "idle")

ServerAlarm == WindowTimeout(Silent) \/ FinalTimeout(Silent)

\* An IOP reset takes seconds: what was in flight has arrived or is gone.
Restart == c2s = <<>> /\ s2c = <<>> /\ ~Busy /\ Reboot /\ UNCHANGED serverVars

Init == NetInit /\ ClientInit /\ ServerInit

ClientStep ==
    (ClientThread \/ Ist \/ ClientAlarm) /\ UNCHANGED serverVars
ServerStep ==
    (ServerThread \/ ServerAlarm) /\ UNCHANGED clientVars
NetStep ==
    (LoseToServer \/ LoseToClient) /\ UNCHANGED <<clientVars, serverVars>>

Next == ClientStep \/ ServerStep \/ NetStep

\* One session, from the start of both programs.
Spec == Init /\ [][Next]_vars

\* Every thread runs, every packet that is not lost arrives and every alarm
\* goes off in the end.
Fairness ==
    /\ WF_vars(ClientThread /\ UNCHANGED serverVars)
    /\ WF_vars(Ist /\ UNCHANGED serverVars)
    /\ WF_vars(ClientAlarm /\ UNCHANGED serverVars)
    /\ WF_vars(ServerThread /\ UNCHANGED clientVars)
    /\ WF_vars(ServerAlarm /\ UNCHANGED clientVars)

FairSpec == Spec /\ Fairness

\* Sessions one after the other against the same server.
RestartSpec == Init /\ [][Next \/ Restart]_vars

\* A session is only followed by another when it ended well.
CleanRestartSpec ==
    /\ Init /\ [][Next \/ (cPc = "done" /\ Restart)]_vars
    /\ Fairness

----------------------------------------------------------------------------

\* Every variable holds a value of its type.
TypeOK == NetTypeOK /\ ClientTypeOK /\ ServerTypeOK

\* Requests are dispatched in the order they were sent, none twice and none
\* left out, whatever is retransmitted (_handle_data, udprdma_send).
InOrderOnce ==
    \A i \in 1 .. Len(sDone) : sDone[i] = [msg |-> i, boot |-> 0]

\* The same over sessions: each is a run of messages from the first on, and
\* no message of a session comes after one of a later session.
SessionsInOrder ==
    \A i \in 1 .. Len(sDone) :
      LET first == i = 1 \/ sDone[i].boot # sDone[i - 1].boot
      IN  /\ sDone[i].msg = IF first THEN 1 ELSE sDone[i - 1].msg + 1
          /\ i > 1 => sDone[i].boot >= sDone[i - 1].boot

\* The receive buffer holds a prefix of the answer to a message of the
\* operation the caller is in, without gap, repeat or packet of an earlier
\* answer (_ist), and when udprdma_recv succeeds the answer is there to its
\* last packet.
ReplyIntact ==
    /\ cBuffer =>
         \A i \in 1 .. Len(cRx) :
            /\ cRx[i].idx = i
            /\ cRx[i].msg \in FirstOf(cMsg) .. cMsg
            /\ cRx[i].boot = cBoot
    /\ cPc = "recvd" => /\ cRx # <<>>
                        /\ Len(cRx) = Program[cRx[1].msg].reply

\* While an answer is being sent the server is never more than SEND_WINDOW
\* packets ahead of what the client received ("server sends at most
\* SEND_WINDOW packets ahead", udprdma.c:29-30), and each packet the client
\* lacks can still be retransmitted from tx_buffer: the pruning in
\* _handle_data, _wait_for_window_ack and _wait_for_ack drops none of them.
WindowKept ==
    sMode # "idle" =>
      /\ Diff12(sTx, cExpected) <= SendWindow
      /\ cPc \notin {"done", "failed"} =>
           \A d \in 0 .. Diff12(sTx, cExpected) - 1 :
             \E q \in sBuf : q.seq = (cExpected + d) % SeqMod

Reliable == INSTANCE UdprdmaReliable WITH
    executed <- [i \in 1 .. Len(sDone) |-> sDone[i].msg],
    answered <- cOk,
    broken <- cState = "DISCONNECTED"

\* The session implements what UdprdmaReliable promises.
ImplementsReliable == Reliable!Spec

\* A session completes, the one that follows a complete session as well, when
\* nothing but packets of answers is lost and no alarm comes early: they are
\* sent again, and the server recognises the restarted client by its sequence
\* number 0.
CompletesAgain ==
    cPc = "discover" ~> (cPc = "done" \/ ~lost.answers \/ spurious > 0)

\* The caller gets to the end of its program or is told that the connection
\* broke, and the server returns to select(): nobody waits for ever.
Terminates == <>[](cPc \in {"done", "failed"} /\ ~Busy)

\* "Blocks until acknowledged or max retries exceeded" (udprdma.h:70): when
\* udprdma_send reports success the server has the message.
SentMeansReceived ==
    cPc \in {"recv", "recvd"} => \E i \in 1 .. Len(sDone) :
                                    sDone[i] = [msg |-> cMsg, boot |-> cBoot]

\* "Retry up to MAX_RETRIES times before giving up" (UDPRDMA.md:160): fewer
\* losses than retries do not break the connection.
NeverBroken == cPc # "failed"
====

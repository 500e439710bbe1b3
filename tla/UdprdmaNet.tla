---- MODULE UdprdmaNet ----
(***************************************************************************)
(* What the two ends of a UDPRDMA connection share: the wire, the packets, *)
(* the 12-bit sequence arithmetic and the traffic of one session.          *)
(*                                                                         *)
(* The PS2 client (neutrino/iop/udpfs) sends Program, a fixed sequence of  *)
(* messages, to the server (neutrino/pc/udpfs_server.py).  A message says  *)
(* how many packets the server answers it with (reply) and whether the     *)
(* client waits for that answer in udprdma_recv before its next message    *)
(* (recv).  An OPEN, READ or BREAD is [reply |-> n, recv |-> TRUE]; a      *)
(* chunk of a write that is not the last is [reply |-> 0, recv |-> FALSE]. *)
(***************************************************************************)
EXTENDS Integers, Sequences, FiniteSets

CONSTANTS
    SeqMod,       \* number of sequence numbers: 4096 in the code
    SendWindow,   \* SEND_WINDOW of the server: 8
    RxAckWindow,  \* UDPRDMA_RX_ACK_WINDOW of the client: 6
    MaxRetries,   \* UDPRDMA_MAX_RETRIES and MAX_WINDOW_RETRIES: 4
    Program,      \* the messages the client sends
    LossKinds,    \* the kinds of packet the network may lose
    MaxLoss,      \* bound: packets lost in a behaviour
    MaxSpurious,  \* bound: alarms that fire while something is still moving
    MaxBoots      \* bound: restarts of the client (IOP resets)

Message == [reply : Nat, recv : BOOLEAN]

ASSUME SeqModAssumption == SeqMod \in Nat \ {0, 1}
ASSUME WindowAssumption ==
    /\ SendWindow \in Nat \ {0} /\ RxAckWindow \in Nat \ {0}
    /\ MaxRetries \in Nat \ {0}
ASSUME ProgramAssumption == Program \in Seq(Message)
ASSUME BoundAssumption ==
    MaxLoss \in Nat /\ MaxSpurious \in Nat /\ MaxBoots \in Nat

VARIABLES
    c2s,       \* packets in flight from the client to the server, in order
    s2c,       \* packets in flight from the server to the client, in order
    lost,      \* packets lost so far, and whether all were of an answer
    spurious   \* alarms fired early so far

netVars == <<c2s, s2c, lost, spurious>>

SeqNr == 0 .. SeqMod - 1

\* "(x + 1) & 0xFFF", "(x - 1) & 0xFFF" and "(x - y) & 0xFFF".
Next12(x) == (x + 1) % SeqMod
Prev12(x) == (x - 1) % SeqMod
Diff12(x, y) == (x - y) % SeqMod

\* The server's "< 2048": x is at or after y, by at most half the numbers.
AtOrAfter(x, y) == 2 * Diff12(x, y) < SeqMod

\* The messages of one write share one receive buffer: message k starts a
\* new operation when the message before it was received.
StartsOperation(k) == k = 1 \/ Program[k - 1].recv
FirstOf(k) == CHOOSE j \in 1 .. k :
                 /\ StartsOperation(j)
                 /\ \A i \in (j + 1) .. k : ~StartsOperation(i)

(* Client to server.  msg = 0 is a packet without payload. *)
ClientPacket == [type : {"DISCOVERY", "DATA"}, seq : SeqNr, ack : SeqNr,
                 isAck : BOOLEAN, msg : 0 .. Len(Program), boot : Nat]

(* Server to client.  idx = 0 is a packet without payload. *)
ServerPacket == [type : {"INFORM", "DATA"}, seq : SeqNr, ack : SeqNr,
                 isAck : BOOLEAN, fin : BOOLEAN,
                 msg : 0 .. Len(Program), idx : Nat, boot : Nat]

ClientKind(p) == IF p.type = "DISCOVERY" THEN "discovery"
                 ELSE IF p.msg # 0 THEN "request" ELSE "clientAck"
ServerKind(p) == IF p.type = "INFORM" THEN "discovery"
                 ELSE IF p.idx # 0 THEN "reply" ELSE "serverAck"

NetTypeOK ==
    /\ c2s \in Seq(ClientPacket)
    /\ s2c \in Seq(ServerPacket)
    /\ lost \in [n : 0 .. MaxLoss, answers : BOOLEAN]
    /\ spurious \in 0 .. MaxSpurious

NetInit == s2c = <<>> /\ lost = [n |-> 0, answers |-> TRUE] /\ spurious = 0

\* A packet is dropped at the head of its queue, just before it would have
\* been received: a full SMAP ring, a full socket buffer, a bad frame.
LoseToServer ==
    /\ c2s # <<>> /\ lost.n < MaxLoss
    /\ ClientKind(Head(c2s)) \in LossKinds
    /\ c2s' = Tail(c2s)
    /\ lost' = [n |-> lost.n + 1, answers |-> FALSE]
    /\ UNCHANGED <<s2c, spurious>>

LoseToClient ==
    /\ s2c # <<>> /\ lost.n < MaxLoss
    /\ ServerKind(Head(s2c)) \in LossKinds
    /\ s2c' = Tail(s2c)
    /\ lost' = [n |-> lost.n + 1, answers |-> lost.answers /\ Head(s2c).idx # 0]
    /\ UNCHANGED <<c2s, spurious>>

\* An alarm that nothing forestalls (due) fires for free; one that overtakes
\* a packet or a busy peer spends the budget of early alarms.
AlarmFires(due) ==
    \/ due /\ UNCHANGED spurious
    \/ ~due /\ spurious < MaxSpurious /\ spurious' = spurious + 1
====

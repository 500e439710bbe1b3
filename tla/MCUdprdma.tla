---- MODULE MCUdprdma ----
(* Instances of Udprdma for TLC. *)
EXTENDS Udprdma

Req(n) == [reply |-> n, recv |-> TRUE]
Chunk == [reply |-> 0, recv |-> FALSE]

\* A read, then a write of three chunks.
MixedProgram == <<Req(1), Req(5), Chunk, Chunk, Req(1)>>
\* The same write refused: WRITE_DONE answers the first chunk.
RefusedProgram ==
    <<[reply |-> 1, recv |-> FALSE], [reply |-> 0, recv |-> TRUE], Req(1)>>
\* More messages, and more packets of answer, than sequence numbers: writes
\* of two chunks before and after the wrap, an answer longer than the
\* window, and short answers.
WrapProgram ==
    [i \in 1 .. 10 |-> IF i \in {2, 9} THEN Chunk
                      ELSE IF i = 5 THEN Req(4) ELSE Req(1)]
\* Over four sequence numbers: a write of chunks whose last has number 0.
LongWrite == <<Req(1), Req(1), Chunk, Chunk, Chunk, Req(1)>>
\* A block device is written before anything is read.
WriteFirst == <<Chunk, Req(1), Req(4)>>
AllKinds == {"discovery", "request", "clientAck", "reply", "serverAck"}
NoKinds == {}
====

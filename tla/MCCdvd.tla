---- MODULE MCCdvd ----
(* Instances of CdvdStream for TLC. *)
EXTENDS CdvdStream

StreamCalls == {"StInit", "StStart", "StRead", "StStop", "StPause", "StResume"}
PlayCalls == StreamCalls \union {"CdRead", "CdSync", "CdSeek", "CdStandby"}
TwoStarts == {3, 20}

Blocks(n) == [n |-> n, block |-> TRUE, ee |-> FALSE]
Polls(n, ee) == [n |-> n, block |-> FALSE, ee |-> ee]

Mixed == {Blocks(2), Polls(1, FALSE), Polls(3, TRUE)}
====

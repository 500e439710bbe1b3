---- MODULE UdprdmaReliable ----
(***************************************************************************)
(* What UDPRDMA promises the operations of udpfs_core.c: the server        *)
(* executes the messages of a session in the order they were sent, each at *)
(* most once; an operation that reports data was executed and answered;    *)
(* a connection that broke stays broken.                                   *)
(***************************************************************************)
EXTENDS Integers, Sequences

CONSTANT Program

VARIABLES executed, answered, broken

vars == <<executed, answered, broken>>

\* Message j opens the operation message k ends.
SameOperation(j, k) == j <= k /\ \A i \in j .. k - 1 : ~Program[i].recv

Init == executed = <<>> /\ answered = {} /\ broken = FALSE

Execute ==
    /\ Len(executed) < Len(Program)
    /\ executed' = Append(executed, Len(executed) + 1)
    /\ UNCHANGED <<answered, broken>>

\* The data of an operation are those of a message of its own, executed.
Answer(k) ==
    /\ ~broken
    /\ k \notin answered /\ Program[k].recv
    /\ \A j \in 1 .. k - 1 : Program[j].recv => j \in answered
    /\ \E j \in 1 .. k : /\ SameOperation(j, k)
                         /\ j <= Len(executed) /\ Program[j].reply > 0
    /\ answered' = answered \cup {k}
    /\ UNCHANGED <<executed, broken>>

Break == ~broken /\ broken' = TRUE /\ UNCHANGED <<executed, answered>>

Next == Execute \/ Break \/ \E k \in 1 .. Len(Program) : Answer(k)

Spec == Init /\ [][Next]_vars
====

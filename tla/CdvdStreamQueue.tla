------------------------- MODULE CdvdStreamQueue -------------------------
(***************************************************************************)
(* What streaming promises the game (sceCdSt...): a bounded queue of       *)
(* sectors.  It is filled a bank at a time with the sectors of the disc    *)
(* that follow each other from where the stream was started, and emptied   *)
(* from the front; no sector is lost, repeated or overwritten while it     *)
(* waits.                                                                  *)
(***************************************************************************)
EXTENDS Integers, Sequences

CONSTANTS
    Bank,      \* sectors read at once
    Capacity,  \* sectors the queue holds
    Sectors    \* where a stream may start

QueueAssumption ==
    Bank \in Nat \ {0} /\ Capacity \in Nat /\ Sectors \subseteq Nat

VARIABLES
    on,     \* a stream is open
    next,   \* the sector that will be read next
    queue,  \* the sectors read and not delivered
    from,   \* where the stream was started
    out     \* the sectors delivered since

vars == <<on, next, queue, from, out>>

Run(first, n) == [i \in 1 .. n |-> first + i - 1]

Init == on = FALSE /\ next = 0 /\ queue = <<>> /\ from = 0 /\ out = <<>>

Start(l) ==
    /\ on' = TRUE /\ next' = l /\ queue' = <<>>
    /\ from' = l /\ out' = <<>>

Stop ==
    /\ on /\ on' = FALSE /\ next' = 0 /\ queue' = <<>>
    /\ UNCHANGED <<from, out>>

Fill ==
    /\ on /\ Len(queue) + Bank <= Capacity
    /\ queue' = queue \o Run(next, Bank)
    /\ next' = next + Bank
    /\ UNCHANGED <<on, from, out>>

Take(n) ==
    /\ on
    /\ out' = out \o SubSeq(queue, 1, n)
    /\ queue' = SubSeq(queue, n + 1, Len(queue))
    /\ UNCHANGED <<on, next, from>>

Next ==
    \/ \E l \in Sectors : Start(l)
    \/ Stop \/ Fill
    \/ \E n \in 1 .. Len(queue) : Take(n)

Spec == Init /\ [][Next]_vars

\* The sectors delivered, then those that wait, are the sectors of the disc
\* from where the stream was started, none missing and none twice.
InDiscOrder ==
    on => /\ out \o queue = Run(from, Len(out) + Len(queue))
          /\ next = from + (Len(out) + Len(queue))
==========================================================================

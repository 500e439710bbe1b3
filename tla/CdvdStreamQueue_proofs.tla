---- MODULE CdvdStreamQueue_proofs ----
(***************************************************************************)
(* The abstract queue delivers the sectors of the disc in order, whatever  *)
(* the size of the banks and of the buffer.                                *)
(***************************************************************************)
EXTENDS CdvdStreamQueue, SequenceTheorems, TLAPS

TypeInv ==
    /\ on \in BOOLEAN /\ next \in Nat /\ from \in Nat
    /\ queue \in Seq(Nat) /\ out \in Seq(Nat)

QueueInv == TypeInv /\ InDiscOrder

\* A run of the disc is a sequence of sectors.
LEMMA RunType ==
    ASSUME NEW f \in Nat, NEW n \in Nat
    PROVE  /\ Run(f, n) \in Seq(Nat)
           /\ Len(Run(f, n)) = n
           /\ \A i \in 1 .. n : Run(f, n)[i] = f + i - 1
<1>1. \A i \in 1 .. n : f + i - 1 \in Nat
  OBVIOUS
<1>2. Run(f, n) \in [1 .. n -> Nat]
  BY <1>1 DEF Run
<1>3. Run(f, n) \in Seq(Nat)
  BY <1>2
<1>4. Len(Run(f, n)) = n
  BY <1>2, <1>3, LenProperties
<1> QED BY <1>3, <1>4 DEF Run

\* Two runs that follow each other make one.
LEMMA RunsJoin ==
    ASSUME NEW f \in Nat, NEW n \in Nat, NEW m \in Nat
    PROVE  Run(f, n) \o Run(f + n, m) = Run(f, n + m)
<1> DEFINE a == Run(f, n)
           b == Run(f + n, m)
           r == Run(f, n + m)
<1>1. /\ a \in Seq(Nat) /\ Len(a) = n
      /\ \A i \in 1 .. n : a[i] = f + i - 1
  BY RunType
<1>2. /\ b \in Seq(Nat) /\ Len(b) = m
      /\ \A i \in 1 .. m : b[i] = (f + n) + i - 1
  <2>1. f + n \in Nat
    OBVIOUS
  <2> QED BY <2>1, RunType
<1>3. /\ r \in Seq(Nat) /\ Len(r) = n + m
      /\ \A i \in 1 .. n + m : r[i] = f + i - 1
  BY RunType
<1> HIDE DEF a, b, r
<1>4. /\ a \o b \in Seq(Nat) /\ Len(a \o b) = n + m
      /\ \A i \in 1 .. n + m :
           (a \o b)[i] = IF i <= n THEN a[i] ELSE b[i - n]
  BY <1>1, <1>2, ConcatProperties
<1>5. ASSUME NEW i \in 1 .. n + m PROVE (a \o b)[i] = r[i]
  <2>1. CASE i <= n
    BY <2>1, <1>1, <1>3, <1>4
  <2>2. CASE i > n
    <3>1. i - n \in 1 .. m
      BY <2>2
    <3>2. b[i - n] = (f + n) + (i - n) - 1
      BY <3>1, <1>2
    <3>3. (f + n) + (i - n) - 1 = f + i - 1
      OBVIOUS
    <3>4. (a \o b)[i] = b[i - n]
      BY <2>2, <1>4
    <3> QED BY <3>2, <3>3, <3>4, <1>3
  <2>3. i <= n \/ i > n
    OBVIOUS
  <2> QED BY <2>1, <2>2, <2>3, Zenon
<1>6. a \o b = r
  BY <1>3, <1>4, <1>5, SeqEqual
<1> QED BY <1>6 DEF a, b, r

\* Concatenation of sequences of sectors is associative.
LEMMA Associative ==
    ASSUME NEW a \in Seq(Nat), NEW b \in Seq(Nat), NEW c \in Seq(Nat)
    PROVE  (a \o b) \o c = a \o (b \o c)
BY ConcatAssociative

\* Taking sectors from the front of the queue keeps what was delivered and
\* what waits as a whole.
LEMMA TakeKeepsWhole ==
    ASSUME NEW o \in Seq(Nat), NEW q \in Seq(Nat), NEW n \in 1 .. Len(q)
    PROVE  LET hd == SubSeq(q, 1, n)
               tl == SubSeq(q, n + 1, Len(q))
           IN  /\ o \o hd \in Seq(Nat) /\ tl \in Seq(Nat)
               /\ Len(o \o hd) = Len(o) + n /\ Len(tl) = Len(q) - n
               /\ (o \o hd) \o tl = o \o q
<1> PICK hd, tl : hd = SubSeq(q, 1, n) /\ tl = SubSeq(q, n + 1, Len(q))
  OBVIOUS
<1>1. Len(q) \in Nat /\ \A i \in 1 .. Len(q) : q[i] \in Nat
  BY LenProperties, ElementOfSeq
<1>2. hd \in Seq(Nat) /\ Len(hd) = n
  BY <1>1, SubSeqProperties
<1>3. tl \in Seq(Nat) /\ Len(tl) = Len(q) - n
  BY <1>1, SubSeqProperties
<1>4. hd \o tl = q
  BY <1>1, ConcatAdjacentSubSeq, SubSeqFull
<1>5. o \o hd \in Seq(Nat) /\ Len(o \o hd) = Len(o) + n
  BY <1>2, ConcatProperties
<1>6. (o \o hd) \o tl = o \o (hd \o tl)
  BY <1>2, <1>3, Associative
<1> QED BY <1>2, <1>3, <1>4, <1>5, <1>6

\* What the streaming library promises: the game gets the sectors of the disc
\* from where it started the stream, in order (sceCdStStart, sceCdStRead).
THEOREM QueueInOrder ==
    ASSUME QueueAssumption PROVE Spec => []InDiscOrder
<1>1. Init => QueueInv
  <2> SUFFICES ASSUME Init PROVE QueueInv
    OBVIOUS
  <2>1. TypeInv
    BY EmptySeq DEF Init, TypeInv
  <2>2. InDiscOrder
    BY DEF Init, InDiscOrder
  <2> QED BY <2>1, <2>2 DEF QueueInv
<1>2. QueueInv /\ [Next]_vars => QueueInv'
  <2> SUFFICES ASSUME QueueInv, [Next]_vars PROVE QueueInv'
    OBVIOUS
  <2>1. ASSUME NEW l \in Sectors, Start(l) PROVE QueueInv'
    <3>1. l \in Nat
      BY DEF QueueAssumption
    <3>2. Run(l, 0) = <<>>
      <4>1. Run(l, 0) \in Seq(Nat) /\ Len(Run(l, 0)) = 0
        BY <3>1, RunType
      <4> QED BY <4>1, EmptySeq
    <3>3. <<>> \o <<>> = <<>> /\ Len(<<>>) = 0 /\ <<>> \in Seq(Nat)
      BY EmptySeq, ConcatEmptySeq
    <3> QED BY <2>1, <3>1, <3>2, <3>3 DEF Start, QueueInv, TypeInv, InDiscOrder
  <2>2. CASE Stop
    BY <2>2, EmptySeq DEF Stop, QueueInv, TypeInv, InDiscOrder
  <2>3. CASE Fill
    <3> DEFINE bank == Run(next, Bank)
               n == Len(out) + Len(queue)
    <3>1. /\ from \in Nat /\ next \in Nat /\ Bank \in Nat
          /\ out \in Seq(Nat) /\ queue \in Seq(Nat) /\ n \in Nat
          /\ on /\ out \o queue = Run(from, n) /\ next = from + n
      <4>1. /\ from \in Nat /\ next \in Nat
            /\ out \in Seq(Nat) /\ queue \in Seq(Nat)
        BY DEF QueueInv, TypeInv
      <4>2. Len(out) \in Nat /\ Len(queue) \in Nat
        BY <4>1, LenProperties
      <4>3. Bank \in Nat /\ n \in Nat
        BY <4>2 DEF QueueAssumption
      <4>4. on
        BY <2>3 DEF Fill
      <4>5. /\ out \o queue = Run(from, Len(out) + Len(queue))
            /\ next = from + (Len(out) + Len(queue))
        BY <4>4 DEF QueueInv, InDiscOrder
      <4>6. next = from + n
        BY <4>1, <4>2, <4>5
      <4> QED BY <4>1, <4>3, <4>4, <4>5, <4>6
    <3>2. bank \in Seq(Nat) /\ Len(bank) = Bank
      BY <3>1, RunType
    <3>3. queue' = queue \o bank
      BY <2>3 DEF Fill
    <3> HIDE DEF bank
    <3>4. queue' \in Seq(Nat) /\ Len(queue') = Len(queue) + Bank
      BY <3>1, <3>2, <3>3, ConcatProperties
    <3>5. out' \o queue' = (out \o queue) \o bank
      <4>1. (out \o queue) \o bank = out \o (queue \o bank)
        BY <3>1, <3>2, Associative
      <4>2. out' = out
        BY <2>3 DEF Fill
      <4> QED BY <4>1, <4>2, <3>3, Zenon
    <3>6. out' \o queue' = Run(from, n + Bank)
      <4>1. Run(from, n) \o Run(from + n, Bank) = Run(from, n + Bank)
        BY <3>1, RunsJoin, Zenon
      <4> QED BY <4>1, <3>1, <3>5, Zenon DEF bank
    <3>7. Len(out) \in Nat /\ Len(queue) \in Nat
      BY <3>1, LenProperties
    <3>8. Len(out') + Len(queue') = n + Bank
      <4>1. Len(out') = Len(out)
        BY <2>3 DEF Fill
      <4> QED BY <4>1, <3>1, <3>4, <3>7
    <3>9. next' = from' + (n + Bank) /\ from' = from /\ on' /\ out' = out
          /\ next' \in Nat
      BY <2>3, <3>1, <3>7 DEF Fill, QueueInv, TypeInv
    <3>10. TypeInv'
      BY <3>1, <3>4, <3>9, <2>3 DEF TypeInv, QueueInv, Fill
    <3>11. InDiscOrder'
      BY <3>6, <3>8, <3>9 DEF InDiscOrder
    <3> QED BY <3>10, <3>11 DEF QueueInv
  <2>4. ASSUME NEW n \in 1 .. Len(queue), Take(n) PROVE QueueInv'
    <3>1. out \in Seq(Nat) /\ queue \in Seq(Nat)
      BY DEF QueueInv, TypeInv
    <3>2. /\ out' \in Seq(Nat) /\ queue' \in Seq(Nat)
          /\ Len(out') = Len(out) + n /\ Len(queue') = Len(queue) - n
          /\ out' \o queue' = out \o queue
      BY <2>4, <3>1, TakeKeepsWhole DEF Take
    <3>3. Len(out') + Len(queue') = Len(out) + Len(queue)
      BY <3>1, <3>2
    <3>4. TypeInv'
      BY <2>4, <3>2 DEF Take, QueueInv, TypeInv
    <3>5. InDiscOrder'
      <4>1. on /\ on' /\ from' = from /\ next' = next
        BY <2>4 DEF Take
      <4>2. /\ out \o queue = Run(from, Len(out) + Len(queue))
            /\ next = from + (Len(out) + Len(queue))
        BY <4>1 DEF QueueInv, InDiscOrder
      <4>3. from \in Nat /\ Len(out) \in Nat /\ Len(queue) \in Nat
            /\ Len(out') \in Nat /\ Len(queue') \in Nat
        BY <3>1, <3>2, LenProperties DEF QueueInv, TypeInv
      <4>4. next' = from' + (Len(out') + Len(queue'))
        BY <4>1, <4>2, <3>3, Zenon
      <4> QED BY <4>1, <4>2, <4>4, <3>2, <3>3 DEF InDiscOrder
    <3> QED BY <3>4, <3>5 DEF QueueInv
  <2>5. CASE UNCHANGED vars
    BY <2>5 DEF vars, QueueInv, TypeInv, InDiscOrder
  <2> QED BY <2>1, <2>2, <2>3, <2>4, <2>5 DEF Next
<1>3. QueueInv => InDiscOrder
  BY DEF QueueInv
<1> QED BY <1>1, <1>2, <1>3, PTL DEF Spec
====

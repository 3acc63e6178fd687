---------------------------- MODULE BoundedFifo ----------------------------
(***************************************************************************)
(* What a session queue promises: bytes come out once each, in the order   *)
(* they went in, and there are never more than Limit of them.              *)
(***************************************************************************)
EXTENDS Naturals, Sequences

CONSTANTS Bytes, Limit

VARIABLE fifo

Init == fifo = <<>>

Put == /\ fifo' \in Seq(Bytes) /\ Len(fifo') \in Len(fifo)..Limit
       /\ \A i \in 1..Len(fifo) : fifo'[i] = fifo[i]

Take == \E n \in 1..Len(fifo) : fifo' = SubSeq(fifo, n + 1, Len(fifo))

Empty == fifo' = <<>>

Next == Put \/ Take \/ Empty

Spec == Init /\ [][Next]_fifo
=============================================================================

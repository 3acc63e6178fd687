----------------------------- MODULE ByteStream -----------------------------
(***************************************************************************)
(* What the send side of a session promises its user, with no threads and  *)
(* no flags: bytes are accepted in order, delivered to the peer in order   *)
(* and never twice, their room is freed only after they were delivered,    *)
(* and the stream is cut at most once, after which nothing is delivered.   *)
(***************************************************************************)
EXTENDS Integers

CONSTANT Capacity    \* bytes that may be accepted and not yet freed

VARIABLES accepted, delivered, freed, open
vars == <<accepted, delivered, freed, open>>

Init == accepted = 0 /\ delivered = 0 /\ freed = 0 /\ open = TRUE

\* RequestSendMsg; it does not look at the socket, so it also works after Cut.
Accept(n) ==
  /\ accepted + n - freed <= Capacity
  /\ accepted' = accepted + n
  /\ UNCHANGED <<delivered, freed, open>>

\* A transfer finishes; the next one starts only after Free.
Deliver(n) ==
  /\ open /\ freed = delivered
  /\ delivered + n <= accepted
  /\ delivered' = delivered + n
  /\ UNCHANGED <<accepted, freed, open>>

Free ==
  /\ freed < delivered
  /\ freed' = delivered
  /\ UNCHANGED <<accepted, delivered, open>>

Cut ==
  /\ open /\ open' = FALSE
  /\ UNCHANGED <<accepted, delivered, freed>>

Next == (\E n \in 1..Capacity : Accept(n) \/ Deliver(n)) \/ Free \/ Cut

Spec == Init /\ [][Next]_vars
=============================================================================

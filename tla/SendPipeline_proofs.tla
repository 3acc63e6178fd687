------------------------ MODULE SendPipeline_proofs ------------------------
(***************************************************************************)
(* Proofs about SendPipeline, for any number of threads, any capacity and  *)
(* any number of bytes.                                                    *)
(***************************************************************************)
EXTENDS SendPipeline, SequenceTheorems, TLAPS

-----------------------------------------------------------------------------
(* The inductive invariant, in four parts.                                  *)

Owning    == {"snapshot", "giveup", "submit", "sendfailed",
              "processsend", "consume", "more", "release"}
Consuming == {"processsend", "consume"}
Tearing   == {"close", "quiet", "notify"}
Carrying  == {"postsend", "claim", "snapshot", "submit", "sendfailed",
              "processsend", "consume", "more", "release", "recheck", "drop"}

\* The teardown runs at most once, in the order Drop, close, clear, notify.
TeardownInv ==
  /\ closed => ~valid /\ kernel = <<>>
  /\ valid => notified = 0
  /\ notified <= 1
  /\ notified = 1 => closed
  /\ \A t \in Threads : pc[t] \in Tearing =>
       /\ ~valid /\ notified = 0
       /\ closed <=> pc[t] # "close"
       /\ \A u \in Threads : pc[u] \in Tearing => u = t

\* A transfer is in one place at a time.
TransferInv ==
  /\ Len(kernel) + Len(port) <= 1
  /\ \A t \in Threads : pc[t] \in Consuming =>
       /\ kernel = <<>> /\ port = <<>>
       /\ delivered = head + xfer[t].n /\ xfer[t].n <= Queued
       /\ \A u \in Threads : pc[u] \in Consuming => u = t
  /\ kernel # <<>> => /\ Head(kernel).from = head /\ head = delivered
                      /\ Head(kernel).n \in 1..Queued
  /\ port # <<>> /\ Head(port).ok => /\ delivered = head + Head(port).n
                                     /\ Head(port).n <= Queued

\* Until the socket is closed, _sending is a lock: whoever may submit, has a
\* transfer out, or is handling its completion, holds it alone.
OwnerInv ==
  ~closed =>
    /\ kernel # <<>> \/ port # <<>> => sending
    /\ ~sending => head = delivered
    /\ \A t \in Threads : pc[t] \in Owning =>
         /\ sending /\ kernel = <<>> /\ port = <<>>
         /\ pc[t] \notin Consuming => head = delivered
         /\ pc[t] = "submit" => xfer[t].from = head /\ xfer[t].n \in 1..Queued
         /\ \A u \in Threads : pc[u] \in Owning => u = t

\* While the session lives, a held _sending has a holder, and queued bytes have
\* somebody who will look at them again.
CarrierInv ==
  valid =>
    /\ sending => \/ kernel # <<>> \/ port # <<>>
                  \/ \E t \in Threads : pc[t] \in Owning \cup {"drop"}
    /\ ~missed /\ Queued > 0 => \/ kernel # <<>> \/ port # <<>>
                                \/ \E t \in Threads : pc[t] \in Carrying

IInv == TypeOK /\ TeardownInv /\ TransferInv /\ OwnerInv /\ CarrierInv

-----------------------------------------------------------------------------
(* Sequences of at most one element, which is all the port and the kernel   *)
(* ever hold.                                                               *)

\* The sequence a completion is taken from is empty afterwards.
LEMMA TailOfOne ==
  ASSUME NEW S, NEW s \in Seq(S), s # <<>>, Len(s) <= 1
  PROVE  Tail(s) = <<>> /\ Head(s) \in S /\ Len(s) = 1
<1>0. Len(s) \in Nat \ {0}
  BY EmptySeq, Zenon
<1>1. Len(s) = 1
  BY <1>0
<1>2. Head(s) \in S /\ Tail(s) \in Seq(S) /\ Len(Tail(s)) = 0
  BY <1>1, HeadTailProperties
<1>3. Len(Tail(s)) \notin Nat \ {0}
  BY <1>2
<1>4. Tail(s) = <<>>
  BY ONLY <1>2, <1>3, EmptySeq
<1> QED BY <1>1, <1>2, <1>4

\* The sequence a completion or a transfer is put into when it was empty.
LEMMA AppendToNone ==
  ASSUME NEW S, NEW e \in S
  PROVE  /\ Append(<<>>, e) \in Seq(S) /\ Append(<<>>, e) # <<>>
         /\ Head(Append(<<>>, e)) = e /\ Len(Append(<<>>, e)) = 1
OBVIOUS

\* A completion or a transfer taken from its queue has the fields it should.
LEMMA TakenTypes ==
  ASSUME TypeOK
  PROVE  /\ kernel # <<>> => /\ Head(kernel) \in Transfers /\ Head(kernel).n \in Nat
                             /\ Tail(kernel) \in Seq(Transfers)
         /\ port # <<>> => /\ Head(port) \in Completions /\ Head(port).n \in Nat
                           /\ Tail(port) \in Seq(Completions)
<1>1. kernel # <<>> => Head(kernel) \in Transfers /\ Tail(kernel) \in Seq(Transfers)
  BY HeadTailProperties DEF TypeOK
<1>2. port # <<>> => Head(port) \in Completions /\ Tail(port) \in Seq(Completions)
  BY HeadTailProperties DEF TypeOK
<1> QED BY <1>1, <1>2 DEF Transfers, Completions

Aborted(k) == [i \in 1..Len(k) |-> [ok |-> FALSE, n |-> 0]]

\* What closesocket adds to the port.
LEMMA AbortedType ==
  ASSUME NEW k \in Seq(Transfers)
  PROVE  Aborted(k) \in Seq(Completions) /\ Len(Aborted(k)) = Len(k)
BY DEF Aborted, Completions, Transfers

-----------------------------------------------------------------------------
(* Types.                                                                   *)

\* Enqueue refuses what does not fit and Consume what is not there, so the
\* counters keep their order and the queue its bound in every interleaving.
LEMMA TypeStep == TypeOK /\ [Next]_vars => TypeOK'
<1> SUFFICES ASSUME TypeOK, [Next]_vars PROVE TypeOK'
  OBVIOUS
<1> USE SendAssumption DEF TypeOK, Step, Goto, Span, Transfers, Completions, PCs,
        queueVars, ioVars, downVars, Queued, Threads
<1>1. ASSUME NEW s \in Senders, RequestSendMsg(s) PROVE TypeOK'
  BY <1>1 DEF RequestSendMsg
<1>2. ASSUME NEW s \in Senders, Enqueue(s) PROVE TypeOK'
  <2>1. CASE Queued + xfer[s].n <= Capacity
    <3>1. xfer[s].n \in Nat /\ tail' = tail + xfer[s].n /\ head' = head
      BY <1>2, <2>1 DEF Enqueue
    <3>2. tail' \in Nat /\ head' <= tail' /\ Queued' <= Capacity
      BY <2>1, <3>1
    <3> QED BY <1>2, <2>1, <3>2 DEF Enqueue
  <2>2. CASE ~(Queued + xfer[s].n <= Capacity)
    BY <1>2, <2>2 DEF Enqueue
  <2> QED BY <2>1, <2>2
<1>3. ASSUME NEW w \in Workers, WorkerThread(w) PROVE TypeOK'
  <2>1. Head(port) \in Completions /\ Tail(port) \in Seq(Completions)
    BY <1>3, TakenTypes DEF WorkerThread
  <2>2. xfer' \in [Threads -> Transfers]
    BY <1>3, <2>1 DEF WorkerThread
  <2> QED BY <1>3, <2>1, <2>2 DEF WorkerThread
<1>4. ASSUME NEW w \in Workers, ProcessSend(w) PROVE TypeOK'
  BY <1>4 DEF ProcessSend
<1>5. ASSUME NEW w \in Workers, Consume(w) PROVE TypeOK'
  <2>1. CASE xfer[w].n <= Queued
    <3>1. xfer[w].n \in Nat /\ head' = head + xfer[w].n /\ tail' = tail
      BY <1>5, <2>1 DEF Consume
    <3>2. head' \in Nat /\ head' <= tail' /\ Queued' <= Capacity
      BY <2>1, <3>1
    <3> QED BY <1>5, <2>1, <3>2 DEF Consume
  <2>2. CASE ~(xfer[w].n <= Queued)
    BY <1>5, <2>2 DEF Consume
  <2> QED BY <2>1, <2>2
<1>6. ASSUME NEW w \in Workers, SendRest(w) PROVE TypeOK'
  BY <1>6 DEF SendRest
<1>7. ASSUME NEW w \in Workers, Release(w) \/ Recheck(w) PROVE TypeOK'
  BY <1>7 DEF Release, Recheck
<1>8. ASSUME NEW t \in Threads, PostSend(t) \/ Claim(t) \/ GiveUp(t) PROVE TypeOK'
  BY <1>8 DEF PostSend, Claim, GiveUp
<1>9. ASSUME NEW t \in Threads, Snapshot(t) PROVE TypeOK'
  BY <1>9 DEF Snapshot
<1>10. ASSUME NEW t \in Threads, Submit(t) \/ SendFailed(t) PROVE TypeOK'
  <2>1. CASE Submit(t)
    <3>1. Append(kernel, xfer[t]) \in Seq(Transfers)
      BY AppendProperties
    <3> QED BY <2>1, <3>1 DEF Submit
  <2>2. CASE SendFailed(t)
    BY <2>2 DEF SendFailed
  <2> QED BY <1>10, <2>1, <2>2
<1>11. ASSUME NEW t \in Threads, AskDisconnect(t) \/ Drop(t) PROVE TypeOK'
  BY <1>11 DEF AskDisconnect, Drop
<1>12. ASSUME NEW t \in Threads, CloseSocket(t) PROVE TypeOK'
  <2>1. port' = port \o Aborted(kernel)
    BY <1>12 DEF CloseSocket, Aborted
  <2>2. port' \in Seq(Completions)
    BY <2>1, AbortedType
  <2> QED BY <1>12, <2>2 DEF CloseSocket
<1>13. ASSUME NEW t \in Threads, ClearSending(t) \/ Notify(t) PROVE TypeOK'
  <2>1. CASE ClearSending(t)
    BY <2>1 DEF ClearSending
  <2>2. CASE Notify(t)
    <3>1. notified' \in Nat
      BY <2>2 DEF Notify
    <3> QED BY <2>2, <3>1 DEF Notify
  <2> QED BY <1>13, <2>1, <2>2
<1>14. ASSUME Complete \/ Fail PROVE TypeOK'
  <2>1. kernel # <<>> /\ kernel' = Tail(kernel) /\ kernel' \in Seq(Transfers)
    BY <1>14, TakenTypes DEF Complete, Fail
  <2>2. CASE Complete
    <3>1. PICK k \in 1..Head(kernel).n :
            /\ port' = Append(port, [ok |-> TRUE, n |-> k])
            /\ delivered' = delivered + k
      BY <2>2 DEF Complete
    <3>2. Head(kernel).n \in Nat
      BY <2>1, TakenTypes
    <3>3. [ok |-> TRUE, n |-> k] \in Completions /\ k \in Nat
      BY <3>2
    <3>4. port' \in Seq(Completions) /\ delivered' \in Nat
      BY <3>1, <3>3, AppendProperties
    <3> QED BY <2>1, <2>2, <3>4 DEF Complete
  <2>3. CASE Fail
    <3>1. [ok |-> FALSE, n |-> 0] \in Completions
      OBVIOUS
    <3>2. port' \in Seq(Completions)
      BY <2>3, <3>1, AppendProperties DEF Fail
    <3> QED BY <2>1, <2>3, <3>2 DEF Fail
  <2> QED BY <1>14, <2>2, <2>3
<1>15. ASSUME UNCHANGED vars PROVE TypeOK'
  BY <1>15 DEF vars
<1> QED
  BY <1>1, <1>2, <1>3, <1>4, <1>5, <1>6, <1>7, <1>8, <1>9, <1>10, <1>11, <1>12,
     <1>13, <1>14, <1>15
  DEF Next, Sender, Worker, Poster, DisconnectSessionInternal, Ended

-----------------------------------------------------------------------------
(* Teardown.                                                                *)

\* Only the four steps of DisconnectSessionInternal change valid, closed and
\* notified, and _valid.exchange lets one thread past the first of them.
LEMMA TeardownStep == TypeOK /\ TeardownInv /\ [Next]_vars => TeardownInv'
<1> SUFFICES ASSUME TypeOK, TeardownInv, [Next]_vars PROVE TeardownInv'
  OBVIOUS
<1> USE DEF TeardownInv, Tearing, Step, Goto, queueVars, ioVars, downVars
<1>0. pc \in [Threads -> PCs] /\ notified \in Nat
  BY DEF TypeOK
<1> USE <1>0
<1>1. ASSUME NEW s \in Senders, Sender(s) PROVE TeardownInv'
  BY <1>1 DEF Sender, RequestSendMsg, Enqueue, Threads
<1>2. ASSUME NEW w \in Workers, WorkerThread(w) \/ ProcessSend(w) \/ Consume(w)
      PROVE TeardownInv'
  BY <1>2 DEF WorkerThread, ProcessSend, Consume, Threads
<1>3. ASSUME NEW w \in Workers, SendRest(w) \/ Release(w) \/ Recheck(w)
      PROVE TeardownInv'
  BY <1>3 DEF SendRest, Release, Recheck, Threads
<1>4. ASSUME NEW t \in Threads, PostSend(t) \/ Claim(t) \/ Snapshot(t) \/ GiveUp(t)
      PROVE TeardownInv'
  BY <1>4 DEF PostSend, Claim, Snapshot, GiveUp
<1>5. ASSUME NEW t \in Threads, Submit(t) \/ SendFailed(t) \/ AskDisconnect(t)
      PROVE TeardownInv'
  BY <1>5 DEF Submit, SendFailed, AskDisconnect
<1>6. ASSUME NEW t \in Threads, Drop(t) PROVE TeardownInv'
  BY <1>6 DEF Drop
<1>7. ASSUME NEW t \in Threads, CloseSocket(t) PROVE TeardownInv'
  BY <1>7 DEF CloseSocket
<1>8. ASSUME NEW t \in Threads, ClearSending(t) PROVE TeardownInv'
  BY <1>8 DEF ClearSending
<1>9. ASSUME NEW t \in Threads, Notify(t) PROVE TeardownInv'
  BY <1>9 DEF Notify
<1>10. ASSUME Complete \/ Fail PROVE TeardownInv'
  BY <1>10 DEF Complete, Fail
<1>11. ASSUME UNCHANGED vars PROVE TeardownInv'
  BY <1>11 DEF vars
<1> QED
  BY <1>1, <1>2, <1>3, <1>4, <1>5, <1>6, <1>7, <1>8, <1>9, <1>10, <1>11
  DEF Next, Worker, Poster, DisconnectSessionInternal, Ended

-----------------------------------------------------------------------------
(* Transfers and their owner.                                               *)

\* What the kernel and the port hold after each step that changes them.
LEMMA InFlightStep ==
  ASSUME TypeOK, TransferInv, OwnerInv, TeardownInv
  PROVE  /\ \A t \in Threads : Submit(t) /\ kernel' # kernel =>
              /\ ~closed /\ pc[t] = "submit" /\ port = <<>> /\ kernel' # <<>>
              /\ Len(kernel') = 1 /\ Head(kernel') = xfer[t]
         /\ Complete => \E k \in 1..Head(kernel).n :
              /\ port = <<>> /\ kernel' = <<>> /\ delivered' = delivered + k
              /\ port' # <<>> /\ Len(port') = 1 /\ Head(port') = [ok |-> TRUE, n |-> k]
         /\ Fail => /\ port = <<>> /\ kernel' = <<>> /\ port' # <<>>
                    /\ Len(port') = 1 /\ Head(port') = [ok |-> FALSE, n |-> 0]
         /\ \A w \in Workers : WorkerThread(w) => kernel = <<>> /\ port' = <<>>
         /\ \A t \in Threads : CloseSocket(t) =>
              /\ kernel' = <<>> /\ Len(port') <= 1
              /\ port # <<>> => port' = port
              /\ port = <<>> /\ port' # <<>> => kernel # <<>> /\ ~Head(port').ok
<1>1. ASSUME NEW t \in Threads, Submit(t), kernel' # kernel
      PROVE  /\ ~closed /\ pc[t] = "submit" /\ port = <<>> /\ kernel' # <<>>
             /\ Len(kernel') = 1 /\ Head(kernel') = xfer[t]
  <2>1. ~closed /\ pc[t] = "submit" /\ kernel' = Append(kernel, xfer[t])
    BY <1>1 DEF Submit, Step
  <2>2. kernel = <<>> /\ port = <<>>
    BY <2>1 DEF OwnerInv, Owning
  <2>3. xfer[t] \in Transfers
    BY DEF TypeOK
  <2> QED BY <2>1, <2>2, <2>3, AppendToNone
<1>2. kernel # <<>> => kernel \in Seq(Transfers) /\ Len(kernel) = 1 /\ Tail(kernel) = <<>>
                       /\ port = <<>>
  <2> SUFFICES ASSUME kernel # <<>>
               PROVE  Len(kernel) = 1 /\ Tail(kernel) = <<>> /\ port = <<>>
    BY DEF TypeOK
  <2>1. Len(kernel) \in Nat \ {0}
    BY EmptySeq, Zenon DEF TypeOK
  <2>2. Len(port) = 0
    BY <2>1, LenProperties DEF TransferInv, TypeOK
  <2>3. port = <<>>
    BY <2>2, EmptySeq, Zenon DEF TypeOK
  <2> QED BY <2>1, <2>2, <2>3, TailOfOne DEF TransferInv, TypeOK
<1>3. port # <<>> => port \in Seq(Completions) /\ Tail(port) = <<>> /\ kernel = <<>>
  <2> SUFFICES ASSUME port # <<>> PROVE Tail(port) = <<>> /\ kernel = <<>>
    BY DEF TypeOK
  <2>1. kernel = <<>>
    BY <1>2
  <2>2. Len(port) <= 1
    BY <2>1, LenProperties DEF TransferInv, TypeOK
  <2> QED BY <2>1, <2>2, TailOfOne DEF TypeOK
<1>4. ASSUME Complete
      PROVE  \E k \in 1..Head(kernel).n :
               /\ port = <<>> /\ kernel' = <<>> /\ delivered' = delivered + k
               /\ port' # <<>> /\ Len(port') = 1 /\ Head(port') = [ok |-> TRUE, n |-> k]
  <2>1. PICK k \in 1..Head(kernel).n : /\ port' = Append(port, [ok |-> TRUE, n |-> k])
                                       /\ delivered' = delivered + k
    BY <1>4 DEF Complete
  <2>2. kernel # <<>> /\ kernel' = Tail(kernel)
    BY <1>4 DEF Complete
  <2>3. [ok |-> TRUE, n |-> k] \in Completions
    BY <2>2, TakenTypes DEF Completions
  <2> QED BY <1>2, <2>1, <2>2, <2>3, AppendToNone
<1>5. ASSUME Fail
      PROVE  /\ port = <<>> /\ kernel' = <<>> /\ port' # <<>>
             /\ Len(port') = 1 /\ Head(port') = [ok |-> FALSE, n |-> 0]
  <2>1. [ok |-> FALSE, n |-> 0] \in Completions
    BY DEF Completions
  <2> QED BY <1>2, <1>5, <2>1, AppendToNone DEF Fail
<1>6. ASSUME NEW w \in Workers, WorkerThread(w) PROVE kernel = <<>> /\ port' = <<>>
  BY <1>3, <1>6 DEF WorkerThread
<1>7. ASSUME NEW t \in Threads, CloseSocket(t)
      PROVE  /\ kernel' = <<>> /\ Len(port') <= 1
             /\ port # <<>> => port' = port
             /\ port = <<>> /\ port' # <<>> => kernel # <<>> /\ ~Head(port').ok
  <2>1. kernel' = <<>> /\ port' = port \o Aborted(kernel)
    BY <1>7 DEF CloseSocket, Aborted
  <2>2. kernel \in Seq(Transfers) /\ port \in Seq(Completions)
    BY DEF TypeOK
  <2>3. Aborted(kernel) \in Seq(Completions) /\ Len(Aborted(kernel)) = Len(kernel)
    BY <2>2, AbortedType
  <2>4. Len(port') <= 1
    BY <2>1, <2>2, <2>3, ConcatProperties DEF TransferInv
  <2>5. kernel = <<>> => port' = port
    <3>1. kernel = <<>> => Len(Aborted(kernel)) = 0
      BY <2>3
    <3>2. kernel = <<>> => Aborted(kernel) = <<>>
      BY <2>3, <3>1, EmptySeq
    <3> QED BY <2>1, <2>2, <3>2, ConcatEmptySeq
  <2>6. port = <<>> => port' = Aborted(kernel)
    BY <2>1, <2>3, ConcatEmptySeq
  <2>7. kernel # <<>> => ~Head(Aborted(kernel)).ok
    BY <1>2, <2>2 DEF Aborted
  <2> QED BY <1>3, <2>1, <2>4, <2>5, <2>6, <2>7
<1> QED BY <1>1, <1>4, <1>5, <1>6, <1>7

\* One WSASend at a time: a transfer is in the kernel, in the port or with one
\* worker, and it stands for the bytes at the front of the queue.
LEMMA TransferStep ==
  TypeOK /\ TeardownInv /\ TransferInv /\ OwnerInv /\ [Next]_vars => TransferInv'
<1> SUFFICES ASSUME TypeOK, TeardownInv, TransferInv, OwnerInv, [Next]_vars
             PROVE  TransferInv'
  OBVIOUS
<1> USE DEF TransferInv, Owning, Consuming, Step, Goto, queueVars, ioVars, downVars, Queued, Span
<1>0. /\ pc \in [Threads -> PCs] /\ head \in Nat /\ tail \in Nat /\ delivered \in Nat
      /\ xfer \in [Threads -> [from : Nat, n : Nat]] /\ head <= tail
      /\ port # <<>> => Head(port).n \in Nat
      /\ Len(kernel) \in Nat /\ Len(port) \in Nat
  BY TakenTypes, LenProperties DEF TypeOK, Transfers
<1> USE <1>0
<1>1. ASSUME NEW s \in Senders, RequestSendMsg(s) PROVE TransferInv'
  BY <1>1 DEF RequestSendMsg, Threads
<1>2. ASSUME NEW s \in Senders, Enqueue(s) PROVE TransferInv'
  BY <1>2 DEF Enqueue, Threads
<1>3. ASSUME NEW w \in Workers, WorkerThread(w) PROVE TransferInv'
  BY <1>3, InFlightStep DEF WorkerThread, Threads
<1>4. ASSUME NEW w \in Workers, ProcessSend(w) PROVE TransferInv'
  BY <1>4 DEF ProcessSend, Threads
<1>5. ASSUME NEW w \in Workers, Consume(w) PROVE TransferInv'
  BY <1>5 DEF Consume, Threads
<1>6. ASSUME NEW w \in Workers, SendRest(w) PROVE TransferInv'
  BY <1>6 DEF SendRest, Threads
<1>7. ASSUME NEW w \in Workers, Release(w) \/ Recheck(w) PROVE TransferInv'
  BY <1>7 DEF Release, Recheck, Threads
<1>8. ASSUME NEW t \in Threads, PostSend(t) \/ Claim(t) \/ GiveUp(t) PROVE TransferInv'
  BY <1>8 DEF PostSend, Claim, GiveUp
<1>9. ASSUME NEW t \in Threads, Snapshot(t) PROVE TransferInv'
  BY <1>9 DEF Snapshot
<1>10. ASSUME NEW t \in Threads, Submit(t) PROVE TransferInv'
  <2>1. CASE kernel' # kernel
    BY <1>10, <2>1, InFlightStep DEF Submit, OwnerInv
  <2>2. CASE kernel' = kernel
    BY <1>10, <2>2 DEF Submit
  <2> QED BY <2>1, <2>2
<1>11. ASSUME NEW t \in Threads, SendFailed(t) \/ AskDisconnect(t) PROVE TransferInv'
  BY <1>11 DEF SendFailed, AskDisconnect
<1>12. ASSUME NEW t \in Threads, Drop(t) \/ ClearSending(t) \/ Notify(t) PROVE TransferInv'
  BY <1>12 DEF Drop, ClearSending, Notify, TeardownInv, Tearing
<1>13. ASSUME NEW t \in Threads, CloseSocket(t) PROVE TransferInv'
  BY <1>13, InFlightStep DEF CloseSocket
<1>14. ASSUME Complete PROVE TransferInv'
  BY <1>14, InFlightStep DEF Complete
<1>15. ASSUME Fail PROVE TransferInv'
  BY <1>15, InFlightStep DEF Fail
<1>16. ASSUME UNCHANGED vars PROVE TransferInv'
  BY <1>16 DEF vars
<1> QED
  BY <1>1, <1>2, <1>3, <1>4, <1>5, <1>6, <1>7, <1>8, <1>9, <1>10, <1>11, <1>12,
     <1>13, <1>14, <1>15, <1>16
  DEF Next, Sender, Worker, Poster, DisconnectSessionInternal, Ended

\* The claim of _sending is exclusive until the socket is closed.
LEMMA OwnerStep ==
  TypeOK /\ TeardownInv /\ TransferInv /\ OwnerInv /\ [Next]_vars => OwnerInv'
<1> SUFFICES ASSUME TypeOK, TeardownInv, TransferInv, OwnerInv, [Next]_vars
             PROVE  OwnerInv'
  OBVIOUS
<1> USE DEF OwnerInv, Owning, Consuming, Step, Goto, queueVars, ioVars, downVars, Queued, Span
<1>0. /\ pc \in [Threads -> PCs] /\ head \in Nat /\ tail \in Nat /\ delivered \in Nat
      /\ xfer \in [Threads -> [from : Nat, n : Nat]] /\ head <= tail
      /\ port # <<>> => Head(port).n \in Nat
      /\ Len(kernel) \in Nat /\ Len(port) \in Nat
  BY TakenTypes, LenProperties DEF TypeOK, Transfers
<1> USE <1>0
<1>1. ASSUME NEW s \in Senders, RequestSendMsg(s) PROVE OwnerInv'
  BY <1>1 DEF RequestSendMsg, Threads
<1>2. ASSUME NEW s \in Senders, Enqueue(s) PROVE OwnerInv'
  BY <1>2 DEF Enqueue, Threads
<1>3. ASSUME NEW w \in Workers, WorkerThread(w) PROVE OwnerInv'
  BY <1>3, InFlightStep DEF WorkerThread, Threads, TransferInv, Consuming
<1>4. ASSUME NEW w \in Workers, ProcessSend(w) PROVE OwnerInv'
  BY <1>4 DEF ProcessSend, Threads
<1>5. ASSUME NEW w \in Workers, Consume(w) PROVE OwnerInv'
  BY <1>5 DEF Consume, Threads, TransferInv
<1>6. ASSUME NEW w \in Workers, SendRest(w) PROVE OwnerInv'
  BY <1>6 DEF SendRest, Threads
<1>7. ASSUME NEW w \in Workers, Release(w) \/ Recheck(w) PROVE OwnerInv'
  BY <1>7 DEF Release, Recheck, Threads
<1>8. ASSUME NEW t \in Threads, PostSend(t) \/ Claim(t) \/ GiveUp(t) PROVE OwnerInv'
  <2>1. CASE PostSend(t)
    BY <2>1 DEF PostSend
  <2>2. CASE Claim(t) /\ sending
    BY <2>2 DEF Claim
  <2>3. CASE Claim(t) /\ ~sending
    BY <2>3 DEF Claim
  <2>4. CASE GiveUp(t)
    BY <2>4 DEF GiveUp
  <2> QED BY <1>8, <2>1, <2>2, <2>3, <2>4
<1>9. ASSUME NEW t \in Threads, Snapshot(t) PROVE OwnerInv'
  BY <1>9 DEF Snapshot
<1>10. ASSUME NEW t \in Threads, Submit(t) PROVE OwnerInv'
  <2>1. CASE kernel' # kernel
    BY <1>10, <2>1, InFlightStep DEF Submit, OwnerInv
  <2>2. CASE kernel' = kernel
    BY <1>10, <2>2 DEF Submit
  <2> QED BY <2>1, <2>2
<1>11. ASSUME NEW t \in Threads, SendFailed(t) \/ AskDisconnect(t) PROVE OwnerInv'
  BY <1>11 DEF SendFailed, AskDisconnect
<1>12. ASSUME NEW t \in Threads, Drop(t) \/ ClearSending(t) \/ Notify(t) PROVE OwnerInv'
  BY <1>12 DEF Drop, ClearSending, Notify, TeardownInv, Tearing
<1>13. ASSUME NEW t \in Threads, CloseSocket(t) PROVE OwnerInv'
  BY <1>13, InFlightStep DEF CloseSocket
<1>14. ASSUME Complete PROVE OwnerInv'
  BY <1>14, InFlightStep DEF Complete, TransferInv
<1>15. ASSUME Fail PROVE OwnerInv'
  BY <1>15, InFlightStep DEF Fail
<1>16. ASSUME UNCHANGED vars PROVE OwnerInv'
  BY <1>16 DEF vars
<1> QED
  BY <1>1, <1>2, <1>3, <1>4, <1>5, <1>6, <1>7, <1>8, <1>9, <1>10, <1>11, <1>12,
     <1>13, <1>14, <1>15, <1>16
  DEF Next, Sender, Worker, Poster, DisconnectSessionInternal, Ended

-----------------------------------------------------------------------------
(* Nobody forgets queued bytes, PostSend's empty exit apart.                *)

\* A thread that finds _sending taken leaves its bytes to the owner, and every
\* owner but the one at the empty exit looks at the queue again.
LEMMA CarrierStep ==
  TypeOK /\ TeardownInv /\ TransferInv /\ OwnerInv /\ CarrierInv /\ [Next]_vars
    => CarrierInv'
<1> SUFFICES ASSUME TypeOK, TeardownInv, TransferInv, OwnerInv, CarrierInv, [Next]_vars
             PROVE  CarrierInv'
  OBVIOUS
<1> USE DEF CarrierInv, Owning, Carrying, Step, Goto, queueVars, ioVars, downVars,
            Queued, Span
<1>0. /\ pc \in [Threads -> PCs] /\ head \in Nat /\ tail \in Nat /\ head <= tail
      /\ xfer \in [Threads -> [from : Nat, n : Nat]]
  BY DEF TypeOK, Transfers
<1> USE <1>0
<1>1. ASSUME NEW s \in Senders, RequestSendMsg(s) PROVE CarrierInv'
  BY <1>1 DEF RequestSendMsg, Threads
<1>2. ASSUME NEW s \in Senders, Enqueue(s) PROVE CarrierInv'
  BY <1>2 DEF Enqueue, Threads
<1>3. ASSUME NEW w \in Workers, WorkerThread(w) PROVE CarrierInv'
  <2>1. kernel' = kernel /\ w \in Threads /\ pc'[w] \in {"processsend", "drop"}
    BY <1>3 DEF WorkerThread, Threads
  <2> QED BY <1>3, <2>1 DEF WorkerThread
<1>4. ASSUME NEW w \in Workers, ProcessSend(w) PROVE CarrierInv'
  BY <1>4 DEF ProcessSend, Threads
<1>5. ASSUME NEW w \in Workers, Consume(w) PROVE CarrierInv'
  BY <1>5 DEF Consume, Threads
<1>6. ASSUME NEW w \in Workers, SendRest(w) PROVE CarrierInv'
  BY <1>6 DEF SendRest, Threads
<1>7. ASSUME NEW w \in Workers, Release(w) \/ Recheck(w) PROVE CarrierInv'
  BY <1>7 DEF Release, Recheck, Threads
<1>8. ASSUME NEW t \in Threads, PostSend(t) \/ Claim(t) \/ GiveUp(t) PROVE CarrierInv'
  <2>1. CASE PostSend(t)
    BY <2>1 DEF PostSend
  <2>2. CASE Claim(t) /\ sending
    BY <2>2 DEF Claim
  <2>3. CASE Claim(t) /\ ~sending
    BY <2>3 DEF Claim
  <2>4. CASE GiveUp(t)
    BY <2>4 DEF GiveUp
  <2> QED BY <1>8, <2>1, <2>2, <2>3, <2>4
<1>9. ASSUME NEW t \in Threads, Snapshot(t) PROVE CarrierInv'
  BY <1>9 DEF Snapshot
<1>10. ASSUME NEW t \in Threads, Submit(t) PROVE CarrierInv'
  <2>1. CASE kernel' # kernel
    BY <1>10, <2>1, InFlightStep DEF Submit
  <2>2. CASE kernel' = kernel
    <3>1. pc'[t] = "sendfailed"
      BY <1>10, <2>2, InFlightStep, AppendProperties DEF Submit, TypeOK
    <3> QED BY <1>10, <2>2, <3>1 DEF Submit
  <2> QED BY <2>1, <2>2
<1>11. ASSUME NEW t \in Threads, SendFailed(t) \/ AskDisconnect(t) PROVE CarrierInv'
  BY <1>11 DEF SendFailed, AskDisconnect
<1>12. ASSUME NEW t \in Threads, DisconnectSessionInternal(t) PROVE CarrierInv'
  BY <1>12 DEF DisconnectSessionInternal, Drop, CloseSocket, ClearSending, Notify,
               TeardownInv, Tearing
<1>13. ASSUME Complete PROVE CarrierInv'
  BY <1>13, InFlightStep DEF Complete
<1>14. ASSUME Fail PROVE CarrierInv'
  BY <1>14, InFlightStep DEF Fail
<1>15. ASSUME UNCHANGED vars PROVE CarrierInv'
  BY <1>15 DEF vars
<1> QED
  BY <1>1, <1>2, <1>3, <1>4, <1>5, <1>6, <1>7, <1>8, <1>9, <1>10, <1>11, <1>12,
     <1>13, <1>14, <1>15
  DEF Next, Sender, Worker, Poster, Ended

-----------------------------------------------------------------------------
(* Theorems.                                                                *)

LEMMA IInvInit == Init => IInv
<1> SUFFICES ASSUME Init PROVE IInv
  OBVIOUS
<1> USE SendAssumption DEF Init
<1>1. TypeOK
  <2>1. NoSpan \in Transfers
    BY DEF Transfers, NoSpan, Span
  <2>2. xfer \in [Threads -> Transfers] /\ pc \in [Threads -> PCs]
    BY <2>1 DEF PCs
  <2>3. <<>> \in Seq(Transfers) /\ <<>> \in Seq(Completions)
    BY EmptySeq
  <2>4. head <= tail /\ Queued <= Capacity
    BY DEF Queued
  <2> QED BY <2>2, <2>3, <2>4 DEF TypeOK
<1>2. TeardownInv /\ TransferInv /\ OwnerInv
  BY DEF TeardownInv, TransferInv, OwnerInv, Tearing, Owning, Consuming
<1>3. CarrierInv
  BY DEF CarrierInv, Queued
<1> QED BY <1>1, <1>2, <1>3 DEF IInv

LEMMA IInvStep == IInv /\ [Next]_vars => IInv'
BY TypeStep, TeardownStep, TransferStep, OwnerStep, CarrierStep DEF IInv

\* In every reachable state the four parts of the invariant hold together.
THEOREM Invariance == Spec => []IInv
BY IInvInit, IInvStep, PTL DEF Spec

\* The counters are ordered and the queue is within its capacity.
THEOREM TypeCorrect == Spec => []TypeOK
<1>1. IInv => TypeOK
  BY DEF IInv
<1> QED BY <1>1, Invariance, PTL

\* At most one WSASend is outstanding, for any number of threads.
THEOREM OneSend == Spec => []OneSendOutstanding
<1>1. IInv => OneSendOutstanding
  BY DEF IInv, TransferInv, OneSendOutstanding, Consuming
<1> QED BY <1>1, Invariance, PTL

\* The peer receives the stream in order, without a gap or a repetition.
THEOREM InOrder == Spec => []StreamInOrder
<1>1. IInv => StreamInOrder
  <2> SUFFICES ASSUME IInv, kernel # <<>>
               PROVE  /\ Head(kernel).from = delivered
                      /\ Head(kernel).from + Head(kernel).n <= tail
    BY DEF StreamInOrder
  <2> QED BY TakenTypes DEF IInv, TypeOK, TransferInv, Queued
<1> QED BY <1>1, Invariance, PTL

\* What GetSendInfo saw is still true when WSASend uses it.
THEOREM SnapshotFresh == Spec => []SnapshotStaysFresh
<1>1. IInv => SnapshotStaysFresh
  BY DEF IInv, OwnerInv, SnapshotStaysFresh, Owning, Consuming
<1> QED BY <1>1, Invariance, PTL

\* ProcessSend never finds fewer bytes in the queue than the kernel has sent.
THEOREM NoMismatch == Spec => []ConsumeMatches
<1>1. IInv => ConsumeMatches
  BY DEF IInv, TransferInv, ConsumeMatches, Consuming
<1> QED BY <1>1, Invariance, PTL

\* A transfer is the front of the queue from its snapshot until it is consumed.
THEOREM FrontTransfers == Spec => []TransfersAreTheFront
BY InOrder, SnapshotFresh, NoMismatch, PTL DEF TransfersAreTheFront

\* The teardown reaches the accept thread at most once, on a closed socket.
THEOREM HandedOverOnce == Spec => []HandedOverOnceAndClean
<1>1. IInv => HandedOverOnceAndClean
  BY DEF IInv, TeardownInv, HandedOverOnceAndClean
<1> QED BY <1>1, Invariance, PTL

\* Bytes can be stranded only through the empty exit of PostSend.
THEOREM OnlyEmptyExitStrands == Spec => []StrandedOnlyByEmptyExit
<1>1. IInv => StrandedOnlyByEmptyExit
  <2> SUFFICES ASSUME IInv, ~missed, valid, Quiescent PROVE Queued = 0
    BY DEF StrandedOnlyByEmptyExit, NoStrandedData
  <2>1. ~(Queued > 0)
    BY DEF IInv, CarrierInv, Carrying, Quiescent
  <2>2. Queued \in Nat
    BY DEF IInv, TypeOK, Queued
  <2> QED BY <2>1, <2>2
<1> QED BY <1>1, Invariance, PTL

\* The claims, completions and teardowns of all threads together implement the
\* byte stream: every step is an Accept, a Deliver, a Free, the Cut or a stutter.
THEOREM Refinement == Spec => ImplementsByteStream
<1>1. Init => Stream!Init
  BY DEF Init, Stream!Init
<1>2. IInv /\ [Next]_vars => [Stream!Next]_(Stream!vars)
  <2> SUFFICES ASSUME IInv, [Next]_vars, ~(UNCHANGED Stream!vars)
               PROVE  Stream!Next
    OBVIOUS
  <2> USE DEF IInv, queueVars, ioVars, downVars, Stream!vars, Queued, Step, Goto
  <2>0. /\ head \in Nat /\ tail \in Nat /\ delivered \in Nat /\ head <= tail
        /\ tail - head <= Capacity /\ Capacity \in Nat
        /\ xfer \in [Threads -> [from : Nat, n : Nat]]
    BY SendAssumption DEF TypeOK, Transfers
  <2> USE <2>0
  <2>1. ASSUME NEW s \in Senders, Enqueue(s) PROVE Stream!Next
    <3>1. /\ xfer[s].n \in Nat /\ tail' = tail + xfer[s].n /\ tail' # tail
          /\ head' = head /\ delivered' = delivered /\ closed' = closed
          /\ tail - head + xfer[s].n <= Capacity
      BY <2>1 DEF Enqueue, Threads
    <3>2. xfer[s].n \in 1..Capacity /\ Stream!Accept(xfer[s].n)
      BY <3>1 DEF Stream!Accept
    <3> QED BY <3>2 DEF Stream!Next
  <2>2. ASSUME NEW w \in Workers, Consume(w) PROVE Stream!Next
    <3>1. /\ xfer[w].n \in Nat /\ head' = head + xfer[w].n /\ head' # head
          /\ tail' = tail /\ delivered' = delivered /\ closed' = closed
          /\ delivered = head + xfer[w].n
      BY <2>2 DEF Consume, Threads, TransferInv, Consuming
    <3>2. Stream!Free
      BY <3>1 DEF Stream!Free
    <3> QED BY <3>2 DEF Stream!Next
  <2>3. ASSUME Complete PROVE Stream!Next
    <3>1. PICK k \in 1..Head(kernel).n :
            /\ delivered' = delivered + k
            /\ tail' = tail /\ head' = head /\ closed' = closed
      BY <2>3 DEF Complete
    <3>2. /\ ~closed /\ head = delivered /\ Head(kernel).n \in Nat
          /\ Head(kernel).n <= tail - head
      BY <2>3, TakenTypes DEF Complete, TransferInv, TeardownInv
    <3>3. k \in 1..Capacity /\ Stream!Deliver(k)
      BY <3>1, <3>2 DEF Stream!Deliver
    <3> QED BY <3>3 DEF Stream!Next
  <2>4. ASSUME NEW t \in Threads, CloseSocket(t) PROVE Stream!Next
    <3>1. Stream!Cut
      BY <2>4 DEF CloseSocket, Stream!Cut, TeardownInv, Tearing, TypeOK
    <3> QED BY <3>1 DEF Stream!Next
  <2>5. ASSUME NEW s \in Senders, RequestSendMsg(s) PROVE FALSE
    BY <2>5 DEF RequestSendMsg
  <2>6. ASSUME NEW w \in Workers,
               WorkerThread(w) \/ ProcessSend(w) \/ SendRest(w) \/ Release(w) \/ Recheck(w)
        PROVE FALSE
    BY <2>6 DEF WorkerThread, ProcessSend, SendRest, Release, Recheck
  <2>7. ASSUME NEW t \in Threads, Poster(t) \/ AskDisconnect(t) PROVE FALSE
    BY <2>7 DEF Poster, PostSend, Claim, Snapshot, GiveUp, Submit, SendFailed, AskDisconnect
  <2>8. ASSUME NEW t \in Threads, Drop(t) \/ ClearSending(t) \/ Notify(t) PROVE FALSE
    BY <2>8 DEF Drop, ClearSending, Notify
  <2>9. ASSUME Fail \/ Ended \/ UNCHANGED vars PROVE FALSE
    BY <2>9 DEF Fail, Ended, vars
  <2> QED
    BY <2>1, <2>2, <2>3, <2>4, <2>5, <2>6, <2>7, <2>8, <2>9
    DEF Next, Sender, Worker, DisconnectSessionInternal
<1> QED BY <1>1, <1>2, Invariance, PTL DEF Spec, Stream!Spec, ImplementsByteStream
=============================================================================

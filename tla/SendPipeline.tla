---------------------------- MODULE SendPipeline ----------------------------
(***************************************************************************)
(* The send side of one session of CIOCPServer, for as long as its slot is *)
(* not given to another connection: RequestSendMsg, PostSend, ProcessSend, *)
(* the completion path of WorkerThread and DisconnectSessionInternal, run  *)
(* by any number of threads with no lock around them.  Every access to     *)
(* _valid, _sending, _socket or _sendQ is a step of its own.               *)
(*                                                                         *)
(* _sendQ is a FIFO (module RingBuffer shows that the ring buffer is one), *)
(* so a byte is named by its position in the stream of all bytes Enqueue   *)
(* has accepted: the queue holds the positions head+1..tail.               *)
(***************************************************************************)
EXTENDS Integers, Sequences

CONSTANTS
  Senders,    \* threads that call RequestSendMsg (game thread, echo handler)
  Workers,    \* IOCP worker threads
  Capacity,   \* bytes _sendQ can hold (_capacity - 1 in the code)
  MaxMsg,     \* bound: longest message
  MaxBytes    \* bound: bytes ever requested

ASSUME SendAssumption ==
  /\ Senders \cap Workers = {}
  /\ Capacity \in Nat \ {0} /\ MaxMsg \in Nat \ {0} /\ MaxBytes \in Nat

Threads == Senders \cup Workers

VARIABLES
  valid,      \* session->_valid
  sending,    \* session->_sending
  closed,     \* the socket was closed by DisconnectSessionInternal
  head, tail, \* _sendQ: bytes consumed and bytes enqueued so far
  kernel,     \* WSASends the kernel has accepted and not finished
  port,       \* send completions waiting in the completion port
  delivered,  \* bytes of finished transfers, the peer's view of the stream
  notified,   \* times the teardown was handed to the accept thread
  pc,         \* next step of each thread
  xfer,       \* the byte range each thread has in its local variables
  missed      \* history: a claim failed against an owner about to give up

vars == <<valid, sending, closed, head, tail, kernel, port, delivered,
          notified, pc, xfer, missed>>

Span(from, n) == [from |-> from, n |-> n]
NoSpan == Span(0, 0)
Queued  == tail - head

Goto(t, to) == pc' = [pc EXCEPT ![t] = to]
Step(t, from, to) == pc[t] = from /\ Goto(t, to)

Init ==
  /\ valid = TRUE /\ sending = FALSE /\ closed = FALSE
  /\ head = 0 /\ tail = 0 /\ delivered = 0 /\ notified = 0
  /\ kernel = <<>> /\ port = <<>> /\ missed = FALSE
  /\ pc = [t \in Threads |-> "idle"]
  /\ xfer = [t \in Threads |-> NoSpan]

queueVars == <<head, tail>>
ioVars    == <<kernel, port, delivered>>
downVars  == <<valid, closed, notified>>

-----------------------------------------------------------------------------
(* RequestSendMsg: the validity test, then Enqueue, which is all or nothing. *)

RequestSendMsg(s) ==
  /\ valid
  /\ \E n \in 1..MaxMsg : /\ tail + n <= MaxBytes
                          /\ xfer' = [xfer EXCEPT ![s] = Span(0, n)]
  /\ Step(s, "idle", "enqueue")
  /\ UNCHANGED <<sending, queueVars, ioVars, downVars, missed>>

Enqueue_OffByOne(s) ==
  LET n == xfer[s].n
  IN /\ IF Queued + n <= Capacity + 1
        THEN tail' = tail + n /\ Step(s, "enqueue", "postsend")
        ELSE tail' = tail /\ Step(s, "enqueue", "drop")
     /\ UNCHANGED <<sending, head, ioVars, downVars, xfer, missed>>

Enqueue(s) ==
  LET n == xfer[s].n
  IN /\ IF Queued + n <= Capacity
        THEN tail' = tail + n /\ Step(s, "enqueue", "postsend")
        ELSE tail' = tail /\ Step(s, "enqueue", "drop")
     /\ UNCHANGED <<sending, head, ioVars, downVars, xfer, missed>>

(* PostSend: test _valid, claim _sending, look at the queue, WSASend.       *)

PostSend(t) ==
  /\ Step(t, "postsend", IF valid THEN "claim" ELSE "idle")
  /\ UNCHANGED <<sending, queueVars, ioVars, downVars, xfer, missed>>

Claim_NoExchange(t) ==
  /\ Step(t, "claim", "snapshot")
  /\ sending' = TRUE
  /\ UNCHANGED <<queueVars, ioVars, downVars, xfer, missed>>

Claim(t) ==
  /\ Step(t, "claim", IF sending THEN "idle" ELSE "snapshot")
  /\ sending' = TRUE
  /\ missed' = (missed \/ (sending /\ \E u \in Threads : pc[u] = "giveup"))
  /\ UNCHANGED <<queueVars, ioVars, downVars, xfer>>

Snapshot(t) ==
  /\ Step(t, "snapshot", IF Queued = 0 THEN "giveup" ELSE "submit")
  /\ xfer' = [xfer EXCEPT ![t] = Span(head, Queued)]
  /\ UNCHANGED <<sending, queueVars, ioVars, downVars, missed>>

\* PostSend found nothing to send: it clears the flag and looks no further.
GiveUp(t) ==
  /\ Step(t, "giveup", "idle")
  /\ sending' = FALSE
  /\ UNCHANGED <<queueVars, ioVars, downVars, xfer, missed>>

\* WSASend, from PostSend and from ProcessSend; it may fail, and it does
\* fail on a socket that is already closed.
Submit(t) ==
  /\ \/ /\ ~closed
        /\ kernel' = Append(kernel, xfer[t])
        /\ Step(t, "submit", "idle")
     \/ Step(t, "submit", "sendfailed") /\ kernel' = kernel
  /\ UNCHANGED <<sending, queueVars, port, delivered, downVars, xfer, missed>>

SendFailed(t) ==
  /\ Step(t, "sendfailed", "drop")
  /\ sending' = FALSE
  /\ UNCHANGED <<queueVars, ioVars, downVars, xfer, missed>>

-----------------------------------------------------------------------------
(* The kernel finishes a transfer, in part or whole, or fails it.           *)

Complete ==
  /\ kernel # <<>>
  /\ \E k \in 1..Head(kernel).n :
        /\ port' = Append(port, [ok |-> TRUE, n |-> k])
        /\ delivered' = delivered + k
  /\ kernel' = Tail(kernel)
  /\ UNCHANGED <<sending, queueVars, downVars, pc, xfer, missed>>

Fail ==
  /\ kernel # <<>>
  /\ port' = Append(port, [ok |-> FALSE, n |-> 0])
  /\ kernel' = Tail(kernel)
  /\ UNCHANGED <<sending, queueVars, delivered, downVars, pc, xfer, missed>>

-----------------------------------------------------------------------------
(* WorkerThread takes a completion; a failed one tears the session down.    *)

WorkerThread(w) ==
  /\ port # <<>>
  /\ Step(w, "idle", IF Head(port).ok THEN "processsend" ELSE "drop")
  /\ xfer' = [xfer EXCEPT ![w] = Span(0, Head(port).n)]
  /\ port' = Tail(port)
  /\ UNCHANGED <<sending, queueVars, kernel, delivered, downVars, missed>>

\* The tests of _valid in WorkerThread and, again, at the top of ProcessSend.
ProcessSend(w) ==
  /\ Step(w, "processsend", IF valid THEN "consume" ELSE "idle")
  /\ UNCHANGED <<sending, queueVars, ioVars, downVars, xfer, missed>>

Consume_KeepQueue(w) ==
  /\ Step(w, "consume", IF xfer[w].n <= Queued THEN "more" ELSE "drop")
  /\ UNCHANGED <<sending, queueVars, ioVars, downVars, xfer, missed>>

Consume_ClearFirst(w) ==
  /\ IF xfer[w].n <= Queued
     THEN head' = head + xfer[w].n /\ Step(w, "consume", "more")
     ELSE head' = head /\ Step(w, "consume", "drop")
  /\ sending' = FALSE
  /\ UNCHANGED <<tail, ioVars, downVars, xfer, missed>>

Consume(w) ==
  /\ IF xfer[w].n <= Queued
     THEN head' = head + xfer[w].n /\ Step(w, "consume", "more")
     ELSE head' = head /\ Step(w, "consume", "drop")
  /\ UNCHANGED <<sending, tail, ioVars, downVars, xfer, missed>>

\* What is left is sent at once under the same claim.
SendRest(w) ==
  /\ Step(w, "more", IF Queued = 0 THEN "release" ELSE "submit")
  /\ xfer' = [xfer EXCEPT ![w] = Span(head, Queued)]
  /\ UNCHANGED <<sending, queueVars, ioVars, downVars, missed>>

Release_NoRecheck(w) ==
  /\ Step(w, "release", "idle")
  /\ sending' = FALSE
  /\ UNCHANGED <<queueVars, ioVars, downVars, xfer, missed>>

Release(w) ==
  /\ Step(w, "release", "recheck")
  /\ sending' = FALSE
  /\ UNCHANGED <<queueVars, ioVars, downVars, xfer, missed>>

Recheck(w) ==
  /\ Step(w, "recheck", IF Queued > 0 THEN "postsend" ELSE "idle")
  /\ UNCHANGED <<sending, queueVars, ioVars, downVars, xfer, missed>>

-----------------------------------------------------------------------------
(* DisconnectSessionInternal.  Besides the failures above it is called for  *)
(* a failed or empty receive and by RequestDisconnectSession.               *)

AskDisconnect(t) ==
  /\ valid
  /\ Step(t, "idle", "drop")
  /\ UNCHANGED <<sending, queueVars, ioVars, downVars, xfer, missed>>

Drop_NoExchange(t) ==
  /\ Step(t, "drop", "close")
  /\ valid' = FALSE
  /\ UNCHANGED <<sending, queueVars, ioVars, closed, notified, xfer, missed>>

Drop(t) ==
  /\ Step(t, "drop", IF valid THEN "close" ELSE "idle")
  /\ valid' = FALSE
  /\ UNCHANGED <<sending, queueVars, ioVars, closed, notified, xfer, missed>>

\* closesocket aborts whatever the kernel still holds.
CloseSocket(t) ==
  /\ Step(t, "close", "quiet")
  /\ closed' = TRUE
  /\ port' = port \o [i \in 1..Len(kernel) |-> [ok |-> FALSE, n |-> 0]]
  /\ kernel' = <<>>
  /\ UNCHANGED <<sending, queueVars, delivered, valid, notified, xfer, missed>>

ClearSending_NoPush(t) ==
  /\ Step(t, "quiet", "idle")
  /\ sending' = FALSE
  /\ UNCHANGED <<queueVars, ioVars, downVars, xfer, missed>>

ClearSending(t) ==
  /\ Step(t, "quiet", "notify")
  /\ sending' = FALSE
  /\ UNCHANGED <<queueVars, ioVars, downVars, xfer, missed>>

Notify(t) ==
  /\ Step(t, "notify", "idle")
  /\ notified' = notified + 1
  /\ UNCHANGED <<sending, queueVars, ioVars, valid, closed, xfer, missed>>

DisconnectSessionInternal(t) ==
  Drop(t) \/ CloseSocket(t) \/ ClearSending(t) \/ Notify(t)

-----------------------------------------------------------------------------
\* The session is gone and no thread is inside its code.
Ended ==
  /\ ~valid /\ port = <<>> /\ \A t \in Threads : pc[t] = "idle"
  /\ UNCHANGED vars

Sender(s) == RequestSendMsg(s) \/ Enqueue(s)
Poster(t) == PostSend(t) \/ Claim(t) \/ Snapshot(t) \/ GiveUp(t)
               \/ Submit(t) \/ SendFailed(t)
Worker(w) == WorkerThread(w) \/ ProcessSend(w) \/ Consume(w) \/ SendRest(w)
               \/ Release(w) \/ Recheck(w)

Next ==
  \/ \E s \in Senders : Sender(s)
  \/ \E w \in Workers : Worker(w)
  \/ \E t \in Threads : Poster(t) \/ AskDisconnect(t) \/ DisconnectSessionInternal(t)
  \/ Complete \/ Fail
  \/ Ended

Spec == Init /\ [][Next]_vars

\* The scheduler runs every thread that is inside the code, a worker waits on
\* the port, and the kernel finishes every transfer it has accepted.
Fairness ==
  /\ \A s \in Senders : WF_vars(Enqueue(s))
  /\ \A w \in Workers : WF_vars(Worker(w))
  /\ \A t \in Threads : WF_vars(Poster(t)) /\ WF_vars(DisconnectSessionInternal(t))
  /\ WF_vars(Complete \/ Fail)

FairSpec == Spec /\ Fairness
-----------------------------------------------------------------------------
(* Properties.                                                              *)

PCs == {"idle", "enqueue", "postsend", "claim", "snapshot", "giveup", "submit",
        "sendfailed", "processsend", "consume", "more", "release", "recheck",
        "drop", "close", "quiet", "notify"}
Transfers   == [from : Nat, n : Nat]
Completions == [ok : BOOLEAN, n : Nat]

\* Types, and the queue never holds more than the ring buffer can.
TypeOK ==
  /\ valid \in BOOLEAN /\ sending \in BOOLEAN /\ closed \in BOOLEAN
  /\ missed \in BOOLEAN
  /\ head \in Nat /\ tail \in Nat /\ delivered \in Nat /\ notified \in Nat
  /\ kernel \in Seq(Transfers) /\ port \in Seq(Completions)
  /\ pc \in [Threads -> PCs] /\ xfer \in [Threads -> Transfers]
  /\ head <= tail /\ Queued <= Capacity

\* "Send is limited to one at a time" (the _sending protocol of PostSend and
\* ProcessSend): however the claims, completions and the teardown interleave,
\* at most one WSASend is in the kernel or waiting to be handled, and none
\* while a worker is about to consume the bytes of the one before.
OneSendOutstanding ==
  /\ Len(kernel) + Len(port) <= 1
  /\ (\E w \in Threads : pc[w] = "consume") => kernel = <<>> /\ port = <<>>

\* The peer sees the stream in order, with no gap and no repetition: a transfer
\* starts at the first byte not yet delivered and carries only queued bytes,
\* although GetSendInfo and WSASend are separate steps.
StreamInOrder ==
  kernel # <<>> => /\ Head(kernel).from = delivered
                   /\ Head(kernel).from + Head(kernel).n <= tail

\* A snapshot of GetSendInfo is used after the queue's lock is released.  While
\* the socket is open, no other thread consumes between the two.
SnapshotStaysFresh ==
  \A t \in Threads :
    pc[t] = "submit" /\ ~closed => /\ xfer[t].from = head
                                   /\ xfer[t].n \in 1..Queued

\* The "Send consume mismatch" branch of ProcessSend is never taken.
ConsumeMatches ==
  \A w \in Threads : pc[w] = "consume" => xfer[w].n <= Queued

\* A transfer is the front of the queue at each stage of its life: from the
\* snapshot to the submission, while the kernel has it, and when it is consumed,
\* although no lock is held between the three (IOCPServer.cpp:690, 737, 609).
TransfersAreTheFront == SnapshotStaysFresh /\ StreamInOrder /\ ConsumeMatches

\* However many threads tear the session down, it is handed to the accept
\* thread once, after its socket is closed and no transfer is left in the kernel.
HandedOverOnceAndClean ==
  /\ notified <= 1
  /\ notified = 1 => closed /\ kernel = <<>>

Quiescent == /\ \A t \in Threads : pc[t] = "idle"
             /\ kernel = <<>> /\ port = <<>>

\* Bytes are never left in _sendQ with nobody to send them.  This is what the
\* double check of ProcessSend is for; PostSend's empty exit has none.
NoStrandedData == valid /\ Quiescent => Queued = 0

\* The only way to strand bytes is a claim that fails while PostSend is between
\* finding the queue empty and clearing _sending.
StrandedOnlyByEmptyExit == ~missed => NoStrandedData

\* What the send side promises is a byte stream that keeps its order and may be
\* cut short once (module ByteStream).
Stream == INSTANCE ByteStream
            WITH accepted <- tail, freed <- head, open <- ~closed
ImplementsByteStream == Stream!Spec

\* Every accepted byte reaches the peer unless the session is torn down or a
\* wake-up was lost in PostSend's empty exit.
EventuallyDelivered ==
  \A b \in 1..MaxBytes : tail >= b ~> delivered >= b \/ ~valid \/ missed

\* A session that went down is handed to the accept thread.
EventuallyHandedOver == ~valid ~> notified = 1
=============================================================================

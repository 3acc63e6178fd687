----------------------------- MODULE RingBuffer -----------------------------
(***************************************************************************)
(* CRingBufferT, the ring buffer behind _sendQ and _recvQ, with the two    *)
(* ways the server uses it.  Each operation holds _lock throughout and is  *)
(* one step.  What is not covered by the lock is modelled as it is: the    *)
(* kernel reads (WSASend) and writes (WSARecv) the cells it was lent long  *)
(* after the call that computed their addresses has returned.              *)
(*                                                                         *)
(*   _sendQ   Enqueue by any thread, GetSendInfo and WSASend, Consume when *)
(*            the transfer is done                                         *)
(*   _recvQ   PostRecv, the kernel's write, MoveWritePtr, Dequeue          *)
(***************************************************************************)
EXTENDS Integers, Sequences

CONSTANTS Capacity, Bytes

ASSUME RingAssumption == Capacity \in Nat \ {0}

Cells == 0..Capacity - 1

VARIABLES
  queue,     \* which of the two queues this is; it never changes
  buffer,    \* _buffer, whose cells start with whatever the heap held
  readPos,   \* _readPos
  writePos,  \* _writePos
  lent,      \* what the outstanding WSASend or WSARecv may touch
  promised   \* the bytes GetSendInfo saw, or the bytes the kernel received

vars == <<queue, buffer, readPos, writePos, lent, promised>>

\* Two WSABUFs: cells at..at+direct-1, then cells 0..size-direct-1.
Region(at, direct, size) == [at |-> at, direct |-> direct, size |-> size]
NotLent == Region(0, 0, 0)

Init ==
  /\ queue \in {"_sendQ", "_recvQ"}
  /\ buffer \in [Cells -> Bytes]
  /\ readPos = 0 /\ writePos = 0
  /\ lent = NotLent /\ promised = <<>>

-----------------------------------------------------------------------------
DataSize == IF writePos >= readPos THEN writePos - readPos
                                   ELSE Capacity - readPos + writePos

FreeSize_NoGap == Capacity - DataSize

FreeSize == IF DataSize >= Capacity - 1 THEN 0 ELSE Capacity - DataSize - 1

DirectReadSize == IF writePos >= readPos THEN writePos - readPos
                                         ELSE Capacity - readPos

DirectWriteSize_NoGap ==
  IF writePos >= readPos THEN Capacity - writePos ELSE readPos - writePos - 1

DirectWriteSize ==
  IF writePos >= readPos
  THEN Capacity - writePos - (IF readPos = 0 THEN 1 ELSE 0)
  ELSE readPos - writePos - 1

Advance(pos, n) == (pos + n) % Capacity

\* Bytes d put into region r, and the first n bytes of region r.
Filled(r, d) ==
  [c \in Cells |->
     IF c >= r.at /\ c < r.at + r.direct /\ c - r.at < Len(d) THEN d[c - r.at + 1]
     ELSE IF c < Len(d) - r.direct THEN d[r.direct + c + 1]
     ELSE buffer[c]]

Gathered(r, n) ==
  [i \in 1..n |-> IF i <= r.direct THEN buffer[r.at + i - 1]
                                   ELSE buffer[i - r.direct - 1]]

\* The two memcpy calls of Enqueue, Dequeue and Peek split at the buffer's end.
FromEnd(pos) == Region(pos, Capacity - pos, Capacity)

-----------------------------------------------------------------------------
Enqueue_Unchecked(d) ==
  /\ buffer' = Filled(FromEnd(writePos), d)
  /\ writePos' = Advance(writePos, Len(d))
  /\ UNCHANGED <<readPos, lent, promised>>

\* All or nothing.
Enqueue(d) ==
  /\ IF Len(d) <= FreeSize
     THEN /\ buffer' = Filled(FromEnd(writePos), d)
          /\ writePos' = Advance(writePos, Len(d))
     ELSE UNCHANGED <<buffer, writePos>>
  /\ UNCHANGED <<readPos, lent, promised>>

\* What Peek returns: the first n bytes, which stay.
Peek(n) == IF n <= DataSize THEN Gathered(FromEnd(readPos), n) ELSE <<>>

Dequeue(n) ==
  /\ readPos' = IF n <= DataSize THEN Advance(readPos, n) ELSE readPos
  /\ UNCHANGED <<buffer, writePos, lent, promised>>

\* PostSend and ProcessSend lend WSASend everything GetSendInfo reports.
GetSendInfo ==
  /\ lent = NotLent /\ DataSize > 0
  /\ lent' = Region(readPos, DirectReadSize, DataSize)
  /\ promised' = Peek(DataSize)
  /\ UNCHANGED <<buffer, readPos, writePos>>

\* The transfer is done, whole or in part, and its bytes leave the queue.
Consume(n) ==
  /\ n <= lent.size
  /\ readPos' = IF n <= DataSize THEN Advance(readPos, n) ELSE readPos
  /\ lent' = NotLent /\ promised' = <<>>
  /\ UNCHANGED <<buffer, writePos>>

\* PostRecv lends WSARecv the free cells; with none it ends the session.
PostRecv ==
  /\ lent = NotLent /\ promised = <<>> /\ DirectWriteSize > 0
  /\ lent' = Region(writePos, DirectWriteSize, FreeSize)
  /\ UNCHANGED <<buffer, readPos, writePos, promised>>

\* The kernel fills the WSABUFs in order.
KernelWrites(d) ==
  /\ promised = <<>> /\ Len(d) <= lent.size
  /\ buffer' = Filled(lent, d)
  /\ promised' = d
  /\ UNCHANGED <<readPos, writePos, lent>>

\* ProcessRecv, with the size of the completion.
MoveWritePtr ==
  /\ promised # <<>>
  /\ writePos' = IF Len(promised) <= FreeSize THEN Advance(writePos, Len(promised))
                                              ELSE writePos
  /\ lent' = NotLent /\ promised' = <<>>
  /\ UNCHANGED <<buffer, readPos>>

\* Initialize, when the slot is given to a new connection: the transfers of the
\* old one ended when its socket was closed.
Clear ==
  /\ readPos' = 0 /\ writePos' = 0
  /\ lent' = NotLent /\ promised' = <<>>
  /\ UNCHANGED buffer

-----------------------------------------------------------------------------
Inputs == UNION {[1..n -> Bytes] : n \in 1..Capacity}

SendNext == \/ \E d \in Inputs : Enqueue(d)
            \/ GetSendInfo
            \/ \E n \in 1..Capacity : Consume(n)

\* A worker parses what it received before it asks for more.
RecvNext == \/ PostRecv
            \/ \E d \in Inputs : KernelWrites(d)
            \/ MoveWritePtr
            \/ lent = NotLent /\ \E n \in 1..Capacity : Dequeue(n)

Next == /\ \/ queue = "_sendQ" /\ SendNext
           \/ queue = "_recvQ" /\ RecvNext
           \/ Clear
        /\ UNCHANGED queue

Spec == Init /\ [][Next]_vars
-----------------------------------------------------------------------------
(* Properties.                                                              *)

\* The bytes in the queue, oldest first, by their definition and not by the
\* split copies of the code.
Contents == [i \in 1..DataSize |-> buffer[(readPos + i - 1) % Capacity]]

\* Positions stay inside the buffer and one cell always stays unused.
TypeOK ==
  /\ queue \in {"_sendQ", "_recvQ"}
  /\ buffer \in [Cells -> Bytes]
  /\ readPos \in Cells /\ writePos \in Cells
  /\ lent \in [at : Cells, direct : 0..Capacity, size : Cells]
  /\ promised \in Seq(Bytes)
  /\ DataSize \in Cells

\* The cells the kernel sends from keep the bytes GetSendInfo saw, in both
\* segments, however many Enqueues run before the transfer is done; and those
\* bytes are still the front of the queue when Consume drops them.
LentBytesStay ==
  queue = "_sendQ" /\ lent.size > 0 => /\ Gathered(lent, lent.size) = promised
                                      /\ lent.size <= DataSize
                                      /\ SubSeq(Contents, 1, lent.size) = promised

\* Peek and Dequeue, which copy in two parts, return the front of the queue.
PeekReturnsFront ==
  \A n \in 1..Capacity : Peek(n) = IF n <= DataSize THEN SubSeq(Contents, 1, n) ELSE <<>>

\* The branch "no data (defensive code)" of PostSend, marked TODO there, is
\* dead: a queue that is not empty always has a first segment.
DefensiveBranchDead == DataSize > 0 => DirectReadSize > 0

\* PostRecv reports a full buffer only when it is full, and the cells it lends
\* are all of the free cells and none of the others.
LendsFreeCellsOnly ==
  /\ DirectWriteSize = 0 <=> FreeSize = 0
  /\ DirectWriteSize <= FreeSize
  /\ DirectWriteSize < FreeSize => writePos + DirectWriteSize = Capacity

\* "Recv buffer overflow" of ProcessRecv cannot be reached: what the kernel was
\* allowed to write always fits.
ReceivedFits ==
  queue = "_recvQ" => Len(promised) <= FreeSize /\ lent.size <= FreeSize

\* The segments lent to the kernel are never empty when there is something to
\* transfer, never more than the queue has or has room for, and still fit when
\* the transfer is done long after they were computed (IOCPServer.cpp:448, 720).
SegmentsFit == DefensiveBranchDead /\ LendsFreeCellsOnly /\ ReceivedFits

\* The ring is a FIFO of at most Capacity - 1 bytes: the wrapping copies, the
\* two segments and the positions modulo Capacity lose, repeat and reorder
\* nothing, on the send side and on the receive side.
Fifo == INSTANCE BoundedFifo WITH fifo <- Contents, Limit <- Capacity - 1
ImplementsFifo == Fifo!Spec

\* An accepted Enqueue adds its data and a refused one adds nothing.
EnqueueAddsAllOrNothing ==
  [][\A d \in Inputs : queue = "_sendQ" /\ Enqueue(d) =>
       Contents' = IF Len(Contents) + Len(d) < Capacity THEN Contents \o d
                                                        ELSE Contents]_vars

\* What MoveWritePtr adds to the queue is what the kernel received, in order,
\* although the two segments were computed before the bytes arrived.
ReceivesWhatArrived ==
  [][queue = "_recvQ" /\ MoveWritePtr => Contents' = Contents \o promised]_vars

\* What joins the queue is what was enqueued, whole or not at all, or what the
\* kernel wrote, at any position of the wrap (RingBuffer.h:343, 446).
AddsWhatItWasGiven == EnqueueAddsAllOrNothing /\ ReceivesWhatArrived
=============================================================================

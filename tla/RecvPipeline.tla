---------------------------- MODULE RecvPipeline ----------------------------
(***************************************************************************)
(* The receive side of one session of CIOCPServer: PostRecv, the receive   *)
(* completion, ProcessRecv, ParsePackets and what it does with a packet,   *)
(* EchoTestSend in one mode and PushNetworkEvent in the other.             *)
(*                                                                         *)
(* A uint16_t has the values 0..Width-1, and both ring buffers have Width  *)
(* cells, of which Width - 1 can be filled: in the code both are 65536, as *)
(* is MAX_PACKET_SIZE.  _recvQ and _sendQ are FIFOs (module RingBuffer).   *)
(* The threads that take receive completions one after the other are one   *)
(* worker here (SessionPool: RecvQueueHasOneThread).  The DISCONNECTED     *)
(* event, the socket and the index of a session that goes down are         *)
(* modelled in SessionPool.                                                *)
(***************************************************************************)
EXTENDS Integers, Sequences

CONSTANTS
  Width,        \* number of values of uint16_t
  HeaderSize,   \* sizeof(MsgHeader)
  Filler,       \* what the bytes after the size field may be
  MaxPackets    \* bound: packets the client sends

ASSUME RecvAssumption ==
  /\ HeaderSize \in Nat \ {0} /\ Width \in Nat /\ Width > 2 * HeaderSize
  /\ Filler \subseteq 0..Width-1 /\ MaxPackets \in Nat

Byte  == 0..Width-1
Modes == {"EchoTest", "Centralized"}

VARIABLES
  mode,      \* _architectureType
  stream,    \* bytes the client has sent
  starts,    \* where its packets begin in stream, and where the next one will
  arrived,   \* bytes of stream that are in _recvQ or have been
  valid,     \* session->_valid
  recvQ,     \* content of _recvQ
  lent,      \* free cells the outstanding WSARecv was given
  filled,    \* bytes the kernel has put into them
  sendQ,     \* number of bytes waiting in _sendQ
  handed,    \* packets handed on: accepted by _sendQ, or in RECEIVED events
  packet,    \* packetBuffer of the parser
  pc         \* next step of the worker

client == <<mode, stream, starts>>
vars   == <<client, arrived, valid, recvQ, lent, filled, sendQ, handed, packet, pc>>

\* The packet size a header announces, in the 16 bits the code has for it.
PacketSize_Wide(field) ==
  IF mode = "EchoTest" THEN field + HeaderSize ELSE field

PacketSize_NoEcho(field) == field

PacketSize(field) ==
  IF mode = "EchoTest" THEN (field + HeaderSize) % Width ELSE field

ValidSize_NoMinimum(size) == size <= Width

ValidSize_NoEmptyPacket(size) == size > HeaderSize /\ size <= Width

ValidSize(size) == size >= HeaderSize /\ size <= Width

\* What the size field of a packet says; any other header is sent alone.
WellFormed(field) ==
  IF mode = "EchoTest" THEN field < Width - HeaderSize ELSE field >= HeaderSize
WireSize(field) ==
  IF ~WellFormed(field) THEN HeaderSize
  ELSE IF mode = "EchoTest" THEN field + HeaderSize ELSE field

\* The packets sent so far, with their size fields.
Sent      == Len(starts) - 1
Field(k)  == stream[starts[k] + 1]
Packet(k) == SubSeq(stream, starts[k] + 1, starts[k+1])

Free == Width - 1 - Len(recvQ)

Init ==
  /\ mode \in Modes
  /\ stream = <<>> /\ starts = <<0>>
  /\ arrived = 0 /\ valid = TRUE /\ recvQ = <<>> /\ lent = 0 /\ filled = 0
  /\ sendQ = 0 /\ handed = <<>> /\ packet = <<>>
  /\ pc = "post"

-----------------------------------------------------------------------------
\* The client sends one more packet, or a header that announces none.
SendPacket ==
  /\ Sent < MaxPackets
  /\ \E field \in Byte :
       \E rest \in [1..WireSize(field)-1 -> Filler] :
         /\ stream' = stream \o <<field>> \o rest
         /\ starts' = Append(starts, Len(stream'))
  /\ UNCHANGED <<mode, arrived, valid, recvQ, lent, filled, sendQ, handed, packet, pc>>

\* PostRecv lends every free cell; with none it gives the session up.
PostRecv ==
  /\ pc = "post"
  /\ IF ~valid THEN pc' = "gone" /\ lent' = lent
     ELSE IF Free = 0 THEN pc' = "drop" /\ lent' = lent
     ELSE pc' = "receiving" /\ lent' = Free
  /\ UNCHANGED <<client, arrived, valid, recvQ, filled, sendQ, handed, packet>>

\* The kernel completes the receive with some bytes of the stream.
Receive ==
  /\ pc = "receiving" /\ valid
  /\ \E n \in 1..lent : arrived + n <= Len(stream) /\ filled' = n
  /\ pc' = "completed"
  /\ UNCHANGED <<client, arrived, valid, recvQ, lent, sendQ, handed, packet>>

\* ... or with an error or no byte: the peer is gone or the socket closed.
ReceiveFails ==
  /\ pc = "receiving" /\ pc' = "drop"
  /\ UNCHANGED <<client, arrived, valid, recvQ, lent, filled, sendQ, handed, packet>>

\* WorkerThread drops the completion of a session that is down; otherwise
\* ProcessRecv moves the write position by what came, or not at all when the
\* buffer has no room for it, and then ends the session.
ProcessRecv ==
  /\ pc = "completed"
  /\ IF ~valid THEN pc' = "gone" /\ UNCHANGED <<arrived, recvQ>>
     ELSE LET moved == IF filled <= Free THEN filled ELSE 0
          IN /\ recvQ' = recvQ \o SubSeq(stream, arrived + 1, arrived + moved)
             /\ arrived' = arrived + moved
             /\ pc' = IF moved = filled THEN "parse" ELSE "drop"
  /\ UNCHANGED <<client, valid, lent, filled, sendQ, handed, packet>>

-----------------------------------------------------------------------------
(* One round of the loop of ParsePackets, which looks at _valid nowhere.    *)

Wait   == pc' = "post" /\ UNCHANGED <<recvQ, packet>>
Refuse == pc' = "badsize" /\ UNCHANGED <<recvQ, packet>>
Extract_BodyOnly(size) ==
  /\ packet' = SubSeq(recvQ, HeaderSize + 1, size)
  /\ recvQ' = SubSeq(recvQ, size + 1, Len(recvQ))
  /\ pc' = "dispatch"

Extract(size) ==
  /\ packet' = SubSeq(recvQ, 1, size)
  /\ recvQ' = SubSeq(recvQ, size + 1, Len(recvQ))
  /\ pc' = "dispatch"

ParsePackets_WaitForMore ==
  /\ pc = "parse"
  /\ IF Len(recvQ) < HeaderSize THEN Wait
     ELSE LET size == PacketSize(recvQ[1])
          IN IF ~ValidSize(size) THEN Refuse
             ELSE IF Len(recvQ) <= size THEN Wait ELSE Extract(size)
  /\ UNCHANGED <<client, arrived, valid, lent, filled, sendQ, handed>>

ParsePackets ==
  /\ pc = "parse"
  /\ IF Len(recvQ) < HeaderSize THEN Wait
     ELSE LET size == PacketSize(recvQ[1])
          IN IF ~ValidSize(size) THEN Refuse
             ELSE IF Len(recvQ) < size THEN Wait ELSE Extract(size)
  /\ UNCHANGED <<client, arrived, valid, lent, filled, sendQ, handed>>

PushNetworkEvent ==
  /\ pc = "dispatch" /\ mode = "Centralized"
  /\ handed' = Append(handed, packet)
  /\ packet' = <<>> /\ pc' = "parse"
  /\ UNCHANGED <<client, arrived, valid, recvQ, lent, filled, sendQ>>

\* EchoTestSend: the validity test of RequestSendMsg, ...
EchoTestSend ==
  /\ pc = "dispatch" /\ mode = "EchoTest"
  /\ IF valid THEN pc' = "enqueue" /\ packet' = packet
     ELSE pc' = "parse" /\ packet' = <<>>
  /\ UNCHANGED <<client, arrived, valid, recvQ, lent, filled, sendQ, handed>>

\* ... then Enqueue, all or nothing.  The loop goes on after an overflow too.
EnqueueEcho_NoDisconnect ==
  /\ pc = "enqueue"
  /\ IF Len(packet) <= Width - 1 - sendQ
     THEN /\ sendQ' = sendQ + Len(packet) /\ handed' = Append(handed, packet)
     ELSE UNCHANGED <<sendQ, handed>>
  /\ packet' = <<>> /\ pc' = "parse"
  /\ UNCHANGED <<client, arrived, valid, recvQ, lent, filled>>

EnqueueEcho_OffByOne ==
  /\ pc = "enqueue"
  /\ IF Len(packet) <= Width - sendQ
     THEN /\ sendQ' = sendQ + Len(packet) /\ handed' = Append(handed, packet)
          /\ pc' = "parse"
     ELSE UNCHANGED <<sendQ, handed>> /\ pc' = "overflow"
  /\ packet' = <<>>
  /\ UNCHANGED <<client, arrived, valid, recvQ, lent, filled>>

EnqueueEcho ==
  /\ pc = "enqueue"
  /\ IF Len(packet) <= Width - 1 - sendQ
     THEN /\ sendQ' = sendQ + Len(packet) /\ handed' = Append(handed, packet)
          /\ pc' = "parse"
     ELSE UNCHANGED <<sendQ, handed>> /\ pc' = "overflow"
  /\ packet' = <<>>
  /\ UNCHANGED <<client, arrived, valid, recvQ, lent, filled>>

-----------------------------------------------------------------------------
\* DisconnectSessionInternal: only the first caller does anything.
Down ==
  /\ valid' = FALSE
  /\ UNCHANGED <<client, arrived, recvQ, lent, filled, sendQ, handed, packet>>

\* The worker's own calls return to where they were made.
DisconnectSessionInternal ==
  /\ pc \in {"drop", "badsize", "overflow"}
  /\ pc' = CASE pc = "drop" -> "gone" [] pc = "badsize" -> "post"
             [] pc = "overflow" -> "parse"
  /\ Down

\* A failed send or the game thread tears the session down in between.
TornDown == valid /\ Down /\ pc' = pc

\* ProcessSend, on another worker, consumes what the peer has taken.
Drain ==
  /\ \E n \in 1..sendQ : sendQ' = sendQ - n
  /\ UNCHANGED <<client, arrived, valid, recvQ, lent, filled, handed, packet, pc>>

Ended == pc = "gone" /\ UNCHANGED vars

Worker == ProcessRecv \/ ParsePackets \/ PushNetworkEvent \/ EchoTestSend
            \/ EnqueueEcho \/ PostRecv \/ DisconnectSessionInternal

Next == SendPacket \/ Worker \/ Receive \/ ReceiveFails \/ TornDown \/ Drain \/ Ended

Spec == Init /\ [][Next]_vars

\* The worker is scheduled, what the client has sent arrives, and a closed socket
\* aborts the receive.
FairSpec ==
  Spec /\ WF_vars(Worker) /\ WF_vars(Receive) /\ WF_vars(~valid /\ ReceiveFails)
-----------------------------------------------------------------------------
(* Properties.                                                              *)

\* Types; neither queue ever holds more than its ring buffer can.
TypeOK ==
  /\ mode \in Modes /\ stream \in Seq(Byte) /\ starts \in Seq(0..Len(stream))
  /\ valid \in BOOLEAN /\ arrived \in 0..Len(stream)
  /\ recvQ \in Seq(Byte) /\ Len(recvQ) < Width
  /\ lent \in 0..Width-1 /\ filled \in 0..Width-1 /\ sendQ \in 0..Width-1
  /\ handed \in Seq(Seq(Byte)) /\ packet \in Seq(Byte)
  /\ pc \in {"post", "receiving", "completed", "parse", "dispatch", "enqueue",
             "drop", "badsize", "overflow", "gone"}

\* The k-th packet the server hands on is the k-th the client has sent, byte for
\* byte: an echo that did not fit into _sendQ is followed by none, although the
\* loop goes on, and so is one that came after the teardown.
PacketsAsSent ==
  /\ Len(handed) <= Sent
  /\ \A k \in 1..Len(handed) : handed[k] = Packet(k)

\* However the kernel cuts the stream into completions, the packet ParsePackets
\* holds and what is left in _recvQ are together what has arrived and was not
\* handed on.  (An echo that overflowed, or follows the teardown, is lost.)
StreamIntact ==
  mode = "Centralized" \/ (valid /\ pc # "overflow") =>
    packet \o recvQ = SubSeq(stream, starts[Len(handed) + 1] + 1, arrived)

\* The parser has taken exactly the first k packets.
ParsedExactly(k) == starts[k+1] = arrived - Len(recvQ)

\* The parser cuts the stream exactly where the client did, in both modes and
\* for every size up to the one that fills the buffer.
CutsWhereTheClientDid == \E k \in 0..Sent : ParsedExactly(k)

\* The parser gives a session up only for a header that announces no packet:
\* less than a header, or an echo size that wraps around 16 bits.
OnlyBadSizesRefused ==
  pc = "badsize" => \E k \in 0..Sent-1 : ParsedExactly(k) /\ ~WellFormed(Field(k+1))

\* "Recv buffer full": after ParsePackets there is always room for another
\* byte, because a full buffer holds a whole packet or a bad size.  The branch
\* of PostRecv is dead for a session that is up.
FullBranchDead == pc = "post" /\ valid => Free > 0

\* The client has sent k well-formed packets before any other.
Sends(k) == k <= Sent /\ \A i \in 1..k : WellFormed(Field(i))

\* Every packet of a client that sends well-formed ones comes back, or reaches
\* the game thread, unless the session goes down, whatever its size and wherever
\* the receives cut it.
EveryPacketHandedOn ==
  \A k \in 1..MaxPackets : Sends(k) ~> ~valid \/ Len(handed) >= k

\* A session that is down ends its chain of receives.
ReceivingEnds == ~valid ~> pc = "gone"
=============================================================================

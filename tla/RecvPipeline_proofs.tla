-------------------------- MODULE RecvPipeline_proofs --------------------------
(***************************************************************************)
(* Proofs about RecvPipeline, for any width of the size field, any header  *)
(* size, any bodies and any number of packets.                             *)
(***************************************************************************)
EXTENDS RecvPipeline, SequenceTheorems, TLAPS

-----------------------------------------------------------------------------
(* The inductive invariant.                                                 *)

\* Bytes the parser has taken out of _recvQ.
Taken == arrived - Len(recvQ)

\* The client's packets follow one another without a gap.
StreamInv ==
  /\ Len(starts) >= 1 /\ starts[1] = 0 /\ starts[Len(starts)] = Len(stream)
  /\ \A k \in 1..Sent : starts[k] < starts[k+1] /\ starts[k+1] = starts[k] + WireSize(Field(k))

\* _recvQ has what arrived and was not taken.
QueueInv == Len(recvQ) <= arrived /\ recvQ = SubSeq(stream, Taken + 1, arrived)

\* The packet in hand follows those handed on.  An echo session keeps that up
\* until it is down, with the last echo that found it up.
Attached == mode = "Centralized" \/ pc = "enqueue" \/ (valid /\ pc # "overflow")
HandInv ==
  /\ pc \notin {"dispatch", "enqueue"} => packet = <<>>
  /\ Attached /\ pc \notin {"dispatch", "enqueue"} =>
       Len(handed) <= Sent /\ starts[Len(handed) + 1] = Taken
  /\ Attached /\ pc \in {"dispatch", "enqueue"} =>
       /\ Len(handed) + 1 <= Sent /\ starts[Len(handed) + 2] = Taken
       /\ packet = Packet(Len(handed) + 1)

\* What the worker found out and has not used yet.
WorkerInv ==
  /\ pc = "enqueue" => mode = "EchoTest"
  /\ pc = "receiving" => lent <= Free
  /\ pc = "completed" => filled <= Free /\ arrived + filled <= Len(stream)
  /\ pc = "post" /\ valid => Len(recvQ) < HeaderSize \/ Len(recvQ) < PacketSize(recvQ[1])
  /\ pc = "badsize" => Len(recvQ) >= HeaderSize /\ ~ValidSize(PacketSize(recvQ[1]))

IInv ==
  /\ TypeOK /\ StreamInv /\ QueueInv /\ CutsWhereTheClientDid
  /\ HandInv /\ PacketsAsSent /\ WorkerInv

-----------------------------------------------------------------------------
(* Pieces of a sequence.                                                    *)

LEMMA Piece ==
  ASSUME NEW S, NEW s \in Seq(S), NEW b \in 0..Len(s), NEW a \in 0..b
  PROVE  /\ SubSeq(s, a + 1, b) \in Seq(S) /\ Len(SubSeq(s, a + 1, b)) = b - a
         /\ \A i \in 1..b - a : SubSeq(s, a + 1, b)[i] = s[a + i]
<1> DEFINE p == SubSeq(s, a + 1, b)
<1>1. Len(s) \in Nat /\ a + 1 \in Int /\ b \in Int
  BY LenProperties
<1>2. \A i \in a + 1..b : s[i] \in S
  BY <1>1, ElementOfSeq
<1>3. /\ p \in Seq(S) /\ Len(p) = IF a + 1 <= b THEN b - (a + 1) + 1 ELSE 0
      /\ \A i \in 1..b - (a + 1) + 1 : p[i] = s[a + 1 + i - 1]
  BY <1>1, <1>2, SubSeqProperties
<1> HIDE DEF p
<1>4. Len(p) = b - a
  BY <1>1, <1>3
<1>5. ASSUME NEW i \in 1..b - a PROVE p[i] = s[a + i]
  <2>1. i \in 1..b - (a + 1) + 1 /\ a + 1 + i - 1 = a + i
    BY <1>1
  <2> QED BY <1>3, <2>1
<1> QED BY <1>3, <1>4, <1>5 DEF p

\* Two neighbouring pieces make one.
LEMMA Join ==
  ASSUME NEW S, NEW s \in Seq(S), NEW c \in 0..Len(s), NEW b \in 0..c, NEW a \in 0..b
  PROVE  SubSeq(s, a + 1, b) \o SubSeq(s, b + 1, c) = SubSeq(s, a + 1, c)
<1> DEFINE p == SubSeq(s, a + 1, b)
           q == SubSeq(s, b + 1, c)
           r == SubSeq(s, a + 1, c)
<1>0. Len(s) \in Nat /\ b \in 0..Len(s) /\ a \in 0..c
  BY LenProperties
<1>1. p \in Seq(S) /\ Len(p) = b - a /\ \A i \in 1..b - a : p[i] = s[a + i]
  BY <1>0, Piece
<1>2. q \in Seq(S) /\ Len(q) = c - b /\ \A i \in 1..c - b : q[i] = s[b + i]
  BY <1>0, Piece
<1>3. r \in Seq(S) /\ Len(r) = c - a /\ \A i \in 1..c - a : r[i] = s[a + i]
  BY <1>0, Piece
<1> HIDE DEF p, q, r
<1>4. /\ p \o q \in Seq(S) /\ Len(p \o q) = Len(p) + Len(q)
      /\ \A i \in 1..Len(p) + Len(q) : (p \o q)[i] = IF i <= Len(p) THEN p[i] ELSE q[i - Len(p)]
  BY <1>1, <1>2, ConcatProperties
<1>5. Len(p \o q) = Len(r)
  BY <1>0, <1>1, <1>2, <1>3, <1>4
<1>6. ASSUME NEW i \in 1..Len(r) PROVE (p \o q)[i] = r[i]
  <2>1. i \in 1..c - a /\ i \in 1..Len(p) + Len(q)
    BY <1>0, <1>1, <1>2, <1>3
  <2>2. CASE i <= b - a
    <3>1. i \in 1..b - a
      BY <1>0, <2>1, <2>2
    <3> QED BY <1>1, <1>3, <1>4, <2>1, <2>2, <3>1
  <2>3. CASE ~(i <= b - a)
    <3>1. i - (b - a) \in 1..c - b /\ b + (i - (b - a)) = a + i
      BY <1>0, <2>1, <2>3
    <3> QED BY <1>1, <1>2, <1>3, <1>4, <2>1, <2>3, <3>1
  <2> QED BY <2>2, <2>3
<1> DEFINE t == p \o q
<1> HIDE DEF t
<1>7. t = r
  BY <1>3, <1>4, <1>5, <1>6, SeqEqual DEF t
<1> QED BY <1>7 DEF p, q, r, t

\* The front of a piece, and what is left of it.
LEMMA Split ==
  ASSUME NEW S, NEW s \in Seq(S), NEW b \in 0..Len(s), NEW a \in 0..b, NEW n \in 0..b - a
  PROVE  /\ SubSeq(SubSeq(s, a + 1, b), 1, n) = SubSeq(s, a + 1, a + n)
         /\ SubSeq(SubSeq(s, a + 1, b), n + 1, b - a) = SubSeq(s, a + n + 1, b)
<1> DEFINE p == SubSeq(s, a + 1, b)
           f == SubSeq(p, 1, n)
           g == SubSeq(p, n + 1, b - a)
           x == SubSeq(s, a + 1, a + n)
           y == SubSeq(s, a + n + 1, b)
<1>0. /\ Len(s) \in Nat /\ a + n \in 0..b /\ a + n \in 0..Len(s) /\ a \in 0..a + n /\ b - a \in 0..b - a
      /\ 0 \in 0..n /\ n - 0 = n /\ 0 + 1 = 1 /\ b - (a + n) = b - a - n /\ a + n - a = n
  BY LenProperties
<1>1. p \in Seq(S) /\ Len(p) = b - a /\ \A i \in 1..b - a : p[i] = s[a + i]
  BY Piece
<1>2. x \in Seq(S) /\ Len(x) = n /\ \A i \in 1..n : x[i] = s[a + i]
  <2>1. x \in Seq(S) /\ Len(x) = a + n - a /\ \A i \in 1..a + n - a : x[i] = s[a + i]
    BY <1>0, Piece
  <2> QED BY <1>0, <2>1
<1>3. y \in Seq(S) /\ Len(y) = b - a - n /\ \A i \in 1..b - a - n : y[i] = s[a + n + i]
  <2>1. y \in Seq(S) /\ Len(y) = b - (a + n) /\ \A i \in 1..b - (a + n) : y[i] = s[a + n + i]
    BY <1>0, Piece
  <2> HIDE DEF y
  <2> QED BY <1>0, <2>1
<1> HIDE DEF p, x, y
<1>4. f \in Seq(S) /\ Len(f) = n /\ \A i \in 1..n : f[i] = p[i]
  <2>1. f = SubSeq(p, 0 + 1, n) /\ n \in 0..Len(p)
    BY <1>0, <1>1
  <2>2. /\ SubSeq(p, 0 + 1, n) \in Seq(S) /\ Len(SubSeq(p, 0 + 1, n)) = n - 0
        /\ \A i \in 1..n - 0 : SubSeq(p, 0 + 1, n)[i] = p[0 + i]
    BY <1>0, <1>1, <2>1, Piece
  <2> HIDE DEF f
  <2>3. ASSUME NEW i \in 1..n PROVE f[i] = p[i]
    <3>1. i \in 1..n - 0 /\ 0 + i = i
      OBVIOUS
    <3> QED BY <2>1, <2>2, <3>1
  <2> QED BY <1>0, <2>1, <2>2, <2>3
<1>5. g \in Seq(S) /\ Len(g) = b - a - n /\ \A i \in 1..b - a - n : g[i] = p[n + i]
  BY <1>0, <1>1, Piece
<1> HIDE DEF f, g
<1>6. f = x
  <2>1. \A i \in 1..Len(f) : i \in 1..n /\ i \in 1..b - a
    BY <1>0, <1>4
  <2> QED BY <1>1, <1>2, <1>4, <2>1, SeqEqual
<1>7. g = y
  <2>1. ASSUME NEW i \in 1..Len(g) PROVE g[i] = y[i]
    <3>1. i \in 1..b - a - n /\ n + i \in 1..b - a /\ a + (n + i) = a + n + i
      BY <1>0, <1>5
    <3> QED BY <1>1, <1>3, <1>5, <3>1
  <2> QED BY <1>3, <1>5, <2>1, SeqEqual
<1> QED BY <1>6, <1>7 DEF p, f, g, x, y

\* What is sent later changes no piece of what was sent.
LEMMA Grown ==
  ASSUME NEW S, NEW s \in Seq(S), NEW t \in Seq(S), Len(s) <= Len(t),
         \A i \in 1..Len(s) : t[i] = s[i], NEW b \in 0..Len(s), NEW a \in 0..b
  PROVE  SubSeq(t, a + 1, b) = SubSeq(s, a + 1, b)
<1> DEFINE p == SubSeq(t, a + 1, b)
           q == SubSeq(s, a + 1, b)
<1>0. Len(s) \in Nat /\ Len(t) \in Nat /\ b \in 0..Len(t)
  <2>1. Len(s) \in Nat /\ Len(t) \in Nat
    BY LenProperties
  <2> QED BY <2>1
<1>1. p \in Seq(S) /\ Len(p) = b - a /\ \A i \in 1..b - a : p[i] = t[a + i]
  BY <1>0, Piece
<1>2. q \in Seq(S) /\ Len(q) = b - a /\ \A i \in 1..b - a : q[i] = s[a + i]
  BY <1>0, Piece
<1> HIDE DEF p, q
<1>3. \A i \in 1..b - a : a + i \in 1..Len(s)
  BY <1>0
<1>4. p = q
  BY <1>1, <1>2, <1>3, SeqEqual
<1> QED BY <1>4 DEF p, q

-----------------------------------------------------------------------------
(* The size field.                                                          *)

\* The sum in 16 bits wraps around once at most.
LEMMA Modulo ==
  ASSUME NEW x \in 0..2 * Width - 1
  PROVE  x % Width = IF x < Width THEN x ELSE x - Width
<1>1. CASE x < Width
  BY <1>1, RecvAssumption
<1>2. CASE x >= Width
  BY <1>2, RecvAssumption
<1> QED BY <1>1, <1>2, RecvAssumption

\* The test of ParsePackets lets exactly the well-formed sizes pass, the echo
\* size that wraps around included, and computes what the client has sent.
LEMMA SizeCheck ==
  ASSUME mode \in Modes, NEW field \in Byte
  PROVE  /\ PacketSize(field) \in 0..Width-1
         /\ ValidSize(PacketSize(field)) <=> WellFormed(field)
         /\ WellFormed(field) => WireSize(field) = PacketSize(field)
         /\ WireSize(field) \in Nat /\ WireSize(field) >= HeaderSize
<1> USE RecvAssumption DEF Byte
<1>1. CASE mode = "EchoTest"
  <2>1. field + HeaderSize \in 0..2 * Width - 1
    OBVIOUS
  <2>2. PacketSize(field) = IF field + HeaderSize < Width THEN field + HeaderSize
                            ELSE field + HeaderSize - Width
    BY <1>1, <2>1, Modulo DEF PacketSize
  <2> QED BY <1>1, <2>2 DEF ValidSize, WellFormed, WireSize
<1>2. CASE mode = "Centralized"
  BY <1>2 DEF PacketSize, ValidSize, WellFormed, WireSize
<1> QED BY <1>1, <1>2 DEF Modes

-----------------------------------------------------------------------------
(* The two steps the proofs turn on.                                        *)

\* The client adds one packet at the end.
LEMMA SendEffect ==
  ASSUME TypeOK, StreamInv, SendPacket
  PROVE  /\ stream' \in Seq(Byte) /\ Len(stream) < Len(stream')
         /\ \A i \in 1..Len(stream) : stream'[i] = stream[i]
         /\ starts' \in Seq(0..Len(stream')) /\ Len(starts') = Len(starts) + 1
         /\ \A k \in 1..Len(starts) : starts'[k] = starts[k]
         /\ starts'[Len(starts) + 1] = Len(stream')
         /\ Len(stream') = Len(stream) + WireSize(stream'[Len(stream) + 1])
<1>0. PICK field \in Byte :
        \E tail \in [1..WireSize(field)-1 -> Filler] :
          /\ stream' = stream \o <<field>> \o tail
          /\ starts' = Append(starts, Len(stream'))
  BY Zenon DEF SendPacket
<1>1. PICK rest \in [1..WireSize(field)-1 -> Filler] :
        /\ stream' = stream \o <<field>> \o rest
        /\ starts' = Append(starts, Len(stream'))
  BY <1>0
<1>2. mode \in Modes /\ stream \in Seq(Byte) /\ starts \in Seq(0..Len(stream)) /\ Len(stream) \in Nat
  BY LenProperties DEF TypeOK
<1> DEFINE n == WireSize(field) - 1
<1>3. n \in Nat /\ WireSize(field) = n + 1
  BY <1>2, SizeCheck, RecvAssumption
<1> HIDE DEF n
<1>4. rest \in Seq(Byte) /\ Len(rest) = n
  <2>1. rest \in [1..n -> Byte]
    BY <1>1, RecvAssumption DEF n, Byte
  <2>2. rest \in Seq(Byte)
    BY <1>3, <2>1, SeqDef
  <2> QED BY <1>3, <2>1, <2>2, LenProperties
<1> DEFINE head == stream \o <<field>>
<1>5. <<field>> \in Seq(Byte) /\ Len(<<field>>) = 1 /\ <<field>>[1] = field
  OBVIOUS
<1>6. /\ head \in Seq(Byte) /\ Len(head) = Len(stream) + 1
      /\ \A i \in 1..Len(stream) : head[i] = stream[i]
      /\ head[Len(stream) + 1] = field
  <2> DEFINE one == <<field>>
  <2>1. one \in Seq(Byte) /\ Len(one) = 1 /\ one[1] = field
    BY <1>5
  <2> HIDE DEF one
  <2>2. /\ stream \o one \in Seq(Byte) /\ Len(stream \o one) = Len(stream) + Len(one)
        /\ \A i \in 1..Len(stream) + Len(one) :
             (stream \o one)[i] = IF i <= Len(stream) THEN stream[i] ELSE one[i - Len(stream)]
    BY <1>2, <2>1, ConcatProperties
  <2>3. head = stream \o one
    BY DEF one
  <2> HIDE DEF head
  <2>4. \A i \in 1..Len(stream) : head[i] = stream[i]
    BY <1>2, <2>1, <2>2, <2>3
  <2>5. head[Len(stream) + 1] = field
    <3>1. Len(stream) + 1 \in 1..Len(stream) + Len(one) /\ Len(stream) + 1 - Len(stream) = 1
      BY <1>2, <2>1
    <3> QED BY <1>2, <2>1, <2>2, <2>3, <3>1
  <2> QED BY <2>1, <2>2, <2>3, <2>4, <2>5
<1> HIDE DEF head
<1>7. /\ stream' \in Seq(Byte) /\ Len(stream') = Len(stream) + 1 + n
      /\ \A i \in 1..Len(stream) : stream'[i] = stream[i]
      /\ stream'[Len(stream) + 1] = field
  <2>1. stream' = head \o rest
    BY <1>1 DEF head
  <2>2. /\ head \o rest \in Seq(Byte) /\ Len(head \o rest) = Len(head) + Len(rest)
        /\ \A i \in 1..Len(head) + Len(rest) :
             (head \o rest)[i] = IF i <= Len(head) THEN head[i] ELSE rest[i - Len(head)]
    BY <1>4, <1>6, ConcatProperties
  <2>3. ASSUME NEW i \in 1..Len(stream) + 1 PROVE stream'[i] = head[i]
    <3>1. i \in 1..Len(head) + Len(rest) /\ i <= Len(head)
      BY <1>2, <1>3, <1>4, <1>6
    <3> QED BY <2>1, <2>2, <3>1
  <2>4. (\A i \in 1..Len(stream) : i \in 1..Len(stream) + 1) /\ Len(stream) + 1 \in 1..Len(stream) + 1
    BY <1>2
  <2> QED BY <1>4, <1>6, <2>1, <2>2, <2>3, <2>4
<1>8. /\ starts' \in Seq(0..Len(stream')) /\ Len(starts') = Len(starts) + 1
      /\ \A k \in 1..Len(starts) : starts'[k] = starts[k]
      /\ starts'[Len(starts) + 1] = Len(stream')
  <2>1. 0..Len(stream) \subseteq 0..Len(stream') /\ Len(stream') \in 0..Len(stream')
    BY <1>2, <1>3, <1>7
  <2>2. starts \in Seq(0..Len(stream'))
    <3>1. \A k \in 1..Len(starts) : starts[k] \in 0..Len(stream')
      BY <1>2, <2>1, ElementOfSeq
    <3>2. starts \in [1..Len(starts) -> 0..Len(stream')] /\ Len(starts) \in Nat
      BY <1>2, <3>1, LenProperties
    <3> QED BY <3>2, SeqDef
  <2> QED BY <1>1, <2>1, <2>2, AppendProperties
<1> QED BY <1>2, <1>3, <1>7, <1>8

\* Where the parser stands at the end of a packet with bytes in the queue, the
\* client has sent another one, whose header is the first there.
LEMMA NextPacket ==
  ASSUME TypeOK, StreamInv, QueueInv, NEW k \in 0..Sent, ParsedExactly(k), Len(recvQ) > 0
  PROVE  /\ k < Sent /\ Field(k+1) = recvQ[1] /\ recvQ[1] \in Byte
         /\ starts[k+2] = Taken + WireSize(recvQ[1])
<1>1. /\ stream \in Seq(Byte) /\ recvQ \in Seq(Byte) /\ starts \in Seq(0..Len(stream))
      /\ arrived \in 0..Len(stream) /\ Len(stream) \in Nat /\ Len(recvQ) \in Nat /\ Len(starts) \in Nat
  BY LenProperties DEF TypeOK
<1>2. starts[k+1] = Taken /\ Taken \in 0..arrived /\ Taken < arrived /\ arrived - Taken = Len(recvQ)
  BY <1>1 DEF QueueInv, ParsedExactly, Taken
<1>3. k < Sent
  <2>1. k + 1 # Len(starts)
    BY <1>1, <1>2 DEF StreamInv
  <2> QED BY <1>1, <2>1 DEF Sent, StreamInv
<1>4. recvQ[1] = stream[Taken + 1] /\ recvQ[1] \in Byte
  <2>1. \A i \in 1..arrived - Taken : SubSeq(stream, Taken + 1, arrived)[i] = stream[Taken + i]
    BY <1>1, <1>2, Piece
  <2>2. 1 \in 1..arrived - Taken /\ 1 \in 1..Len(recvQ)
    BY <1>1, <1>2
  <2> QED BY <1>1, <2>1, <2>2, ElementOfSeq DEF QueueInv
<1>5. Field(k+1) = recvQ[1]
  BY <1>2, <1>4 DEF Field
<1>6. k + 1 \in 1..Sent /\ k + 1 + 1 = k + 2
  BY <1>1, <1>3 DEF Sent
<1>7. starts[k+1+1] = starts[k+1] + WireSize(Field(k+1))
  BY <1>6 DEF StreamInv
<1> QED BY <1>2, <1>3, <1>4, <1>5, <1>6, <1>7

\* What ParsePackets takes out is the next piece of the stream.
LEMMA ExtractEffect ==
  ASSUME TypeOK, QueueInv, NEW size \in 1..Len(recvQ), Extract(size)
  PROVE  /\ packet' = SubSeq(stream, Taken + 1, Taken + size) /\ packet' \in Seq(Byte)
         /\ recvQ' = SubSeq(stream, Taken + size + 1, arrived) /\ recvQ' \in Seq(Byte)
         /\ Len(recvQ') = Len(recvQ) - size
<1>1. /\ stream \in Seq(Byte) /\ recvQ \in Seq(Byte)
      /\ arrived \in 0..Len(stream) /\ Len(stream) \in Nat /\ Len(recvQ) \in Nat
  BY LenProperties DEF TypeOK
<1>2. /\ Taken \in 0..arrived /\ arrived - Taken = Len(recvQ) /\ size \in 0..arrived - Taken
      /\ Taken + size \in 0..arrived /\ Taken + size \in 0..Len(stream) /\ Taken \in 0..Taken + size
  BY <1>1 DEF QueueInv, Taken
<1>3. /\ SubSeq(SubSeq(stream, Taken + 1, arrived), 1, size) = SubSeq(stream, Taken + 1, Taken + size)
      /\ SubSeq(SubSeq(stream, Taken + 1, arrived), size + 1, arrived - Taken)
           = SubSeq(stream, Taken + size + 1, arrived)
  BY <1>1, <1>2, Split
<1>4. /\ packet' = SubSeq(stream, Taken + 1, Taken + size)
      /\ recvQ' = SubSeq(stream, Taken + size + 1, arrived)
  BY <1>2, <1>3 DEF Extract, QueueInv
<1>5. SubSeq(stream, Taken + 1, Taken + size) \in Seq(Byte)
  BY <1>1, <1>2, Piece
<1>6. /\ SubSeq(stream, Taken + size + 1, arrived) \in Seq(Byte)
      /\ Len(SubSeq(stream, Taken + size + 1, arrived)) = arrived - (Taken + size)
  BY <1>1, <1>2, Piece
<1>7. arrived - (Taken + size) = Len(recvQ) - size
  BY <1>1, <1>2
<1> QED BY <1>4, <1>5, <1>6, <1>7

\* One round of the parse loop.
LEMMA ParseCases ==
  ASSUME TypeOK, ParsePackets
  PROVE  /\ UNCHANGED <<client, arrived, valid, lent, filled, sendQ, handed>> /\ pc = "parse"
         /\ \/ /\ Wait
               /\ Len(recvQ) < HeaderSize \/ Len(recvQ) < PacketSize(recvQ[1])
            \/ Refuse /\ Len(recvQ) >= HeaderSize /\ ~ValidSize(PacketSize(recvQ[1]))
            \/ \E size \in 1..Len(recvQ) :
                 /\ size = PacketSize(recvQ[1]) /\ ValidSize(size) /\ Extract(size)
                 /\ Len(recvQ) >= HeaderSize
<1> DEFINE size == PacketSize(recvQ[1])
<1>1. Len(recvQ) \in Nat
  BY LenProperties DEF TypeOK
<1>2. UNCHANGED <<client, arrived, valid, lent, filled, sendQ, handed>> /\ pc = "parse"
  BY DEF ParsePackets
<1>3. CASE Len(recvQ) < HeaderSize
  BY <1>2, <1>3 DEF ParsePackets
<1>4. CASE ~(Len(recvQ) < HeaderSize)
  <2>1. recvQ[1] \in Byte /\ mode \in Modes /\ Len(recvQ) >= HeaderSize
    <3>1. 1 \in 1..Len(recvQ) /\ Len(recvQ) >= HeaderSize
      BY <1>1, <1>4, RecvAssumption
    <3> QED BY <3>1, ElementOfSeq DEF TypeOK
  <2>2. size \in 0..Width-1
    BY <2>1, SizeCheck
  <2> HIDE DEF size
  <2>3. IF ~ValidSize(size) THEN Refuse ELSE IF Len(recvQ) < size THEN Wait ELSE Extract(size)
    BY <1>4 DEF ParsePackets, size
  <2>4. CASE ~ValidSize(size)
    BY <1>2, <2>1, <2>3, <2>4 DEF size
  <2>5. CASE ValidSize(size) /\ Len(recvQ) < size
    BY <1>2, <2>1, <2>3, <2>5 DEF size
  <2>6. CASE ValidSize(size) /\ ~(Len(recvQ) < size)
    <3>1. size \in 1..Len(recvQ)
      BY <1>1, <2>2, <2>6, RecvAssumption DEF ValidSize
    <3>2. Extract(size)
      BY <2>3, <2>6
    <3> QED BY <1>2, <2>1, <2>6, <3>1, <3>2 DEF size
  <2> QED BY <2>4, <2>5, <2>6
<1> QED BY <1>3, <1>4

\* The completion adds what the kernel has received.
LEMMA ReceivedEffect ==
  ASSUME TypeOK, QueueInv, WorkerInv, ProcessRecv
  PROVE  /\ arrived' \in arrived..Len(stream) /\ recvQ' \in Seq(Byte)
         /\ Len(recvQ') < Width /\ Len(recvQ') <= arrived'
         /\ arrived' - Len(recvQ') = Taken
         /\ recvQ' = SubSeq(stream, Taken + 1, arrived')
         /\ pc' \in {"gone", "parse", "drop"}
<1>1. /\ stream \in Seq(Byte) /\ recvQ \in Seq(Byte) /\ Len(recvQ) < Width
      /\ arrived \in 0..Len(stream) /\ Len(stream) \in Nat /\ Len(recvQ) \in Nat /\ filled \in Nat
  BY LenProperties, RecvAssumption DEF TypeOK
<1>2. Taken \in 0..arrived /\ arrived - Taken = Len(recvQ)
  BY <1>1 DEF QueueInv, Taken
<1>3. CASE ~valid
  <2>1. arrived' = arrived /\ recvQ' = recvQ /\ pc' = "gone"
    BY <1>3 DEF ProcessRecv
  <2>2. arrived \in arrived..Len(stream) /\ arrived - Len(recvQ) = Taken
    BY <1>1 DEF Taken
  <2> QED BY <1>1, <2>1, <2>2 DEF QueueInv
<1>4. CASE valid
  <2>1. filled <= Free /\ arrived + filled \in arrived..Len(stream)
    BY <1>1 DEF ProcessRecv, WorkerInv
  <2>2. /\ recvQ' = recvQ \o SubSeq(stream, arrived + 1, arrived + filled)
        /\ arrived' = arrived + filled /\ pc' \in {"gone", "parse", "drop"}
    BY <1>4, <2>1 DEF ProcessRecv
  <2> DEFINE end == arrived + filled
  <2>3. end \in 0..Len(stream) /\ arrived \in 0..end /\ Taken \in 0..arrived /\ Taken \in 0..end
    BY <1>1, <1>2, <2>1
  <2> HIDE DEF end
  <2>4. SubSeq(stream, Taken + 1, arrived) \o SubSeq(stream, arrived + 1, end)
          = SubSeq(stream, Taken + 1, end)
    BY <1>1, <1>2, <2>3, Join
  <2>5. /\ SubSeq(stream, Taken + 1, end) \in Seq(Byte)
        /\ Len(SubSeq(stream, Taken + 1, end)) = end - Taken
    BY <1>1, <2>3, Piece
  <2>6. recvQ' = SubSeq(stream, Taken + 1, end) /\ arrived' = end
    BY <2>2, <2>4 DEF QueueInv, end
  <2>7. Len(recvQ') = end - Taken /\ recvQ' \in Seq(Byte)
    BY <2>5, <2>6
  <2>8. end - Taken = Len(recvQ) + filled
    BY <1>1, <1>2 DEF end
  <2>9. Len(recvQ') < Width
    BY <1>1, <2>1, <2>7, <2>8, RecvAssumption DEF Free
  <2>10. end - (end - Taken) = Taken /\ end - Taken <= end /\ end \in arrived..Len(stream)
    BY <1>1, <1>2, <2>1, <2>3 DEF end
  <2> QED BY <2>2, <2>6, <2>7, <2>9, <2>10
<1> QED BY <1>3, <1>4

-----------------------------------------------------------------------------
(* Each part of the invariant is kept.                                      *)

\* Neither queue overflows, and every packet keeps its form.
LEMMA TypeStep == TypeOK /\ StreamInv /\ QueueInv /\ WorkerInv /\ [Next]_vars => TypeOK'
<1> SUFFICES ASSUME TypeOK, StreamInv, QueueInv, WorkerInv, [Next]_vars PROVE TypeOK'
  OBVIOUS
<1>0. /\ stream \in Seq(Byte) /\ recvQ \in Seq(Byte) /\ starts \in Seq(0..Len(stream))
      /\ arrived \in 0..Len(stream) /\ Len(stream) \in Nat /\ Len(recvQ) \in Nat /\ Len(starts) \in Nat
      /\ Len(handed) \in Nat
  BY LenProperties DEF TypeOK
<1> USE RecvAssumption DEF TypeOK, client
<1>1. CASE SendPacket
  <2>1. stream' \in Seq(Byte) /\ Len(stream) < Len(stream') /\ starts' \in Seq(0..Len(stream'))
    BY <1>1, SendEffect
  <2>2. Len(stream') \in Nat
    BY <2>1, LenProperties
  <2>3. UNCHANGED <<mode, arrived, valid, recvQ, lent, filled, sendQ, handed, packet, pc>>
    BY <1>1 DEF SendPacket
  <2>4. arrived' \in 0..Len(stream')
    BY <1>0, <2>1, <2>2, <2>3
  <2> QED BY <2>1, <2>3, <2>4
<1>2. CASE PostRecv
  BY <1>0, <1>2 DEF PostRecv, Free
<1>3. CASE Receive
  BY <1>0, <1>3 DEF Receive
<1>4. CASE ReceiveFails
  BY <1>0, <1>4 DEF ReceiveFails
<1>5. CASE ProcessRecv
  <2>1. /\ arrived' \in arrived..Len(stream) /\ recvQ' \in Seq(Byte) /\ Len(recvQ') < Width
        /\ pc' \in {"gone", "parse", "drop"}
    BY <1>5, ReceivedEffect
  <2>2. UNCHANGED <<client, valid, lent, filled, sendQ, handed, packet>>
    BY <1>5 DEF ProcessRecv
  <2> QED BY <1>0, <2>1, <2>2
<1>6. CASE ParsePackets
  <2>1. UNCHANGED <<client, arrived, valid, lent, filled, sendQ, handed>>
    BY <1>6, ParseCases
  <2>2. CASE Wait \/ Refuse
    BY <2>1, <2>2 DEF Wait, Refuse
  <2>3. CASE \E size \in 1..Len(recvQ) : Extract(size)
    <3>1. PICK size \in 1..Len(recvQ) : Extract(size)
      BY <2>3
    <3>2. packet' \in Seq(Byte) /\ recvQ' \in Seq(Byte) /\ Len(recvQ') = Len(recvQ) - size
      BY <3>1, ExtractEffect
    <3>3. pc' = "dispatch" /\ Len(recvQ') < Width
      BY <1>0, <3>1, <3>2 DEF Extract
    <3> QED BY <2>1, <3>2, <3>3
  <2> QED BY <1>6, <2>2, <2>3, ParseCases
<1>7. CASE PushNetworkEvent
  <2>1. handed' \in Seq(Seq(Byte))
    BY <1>7, AppendProperties DEF PushNetworkEvent
  <2> QED BY <1>7, <2>1 DEF PushNetworkEvent
<1>8. CASE EchoTestSend
  <2>1. /\ UNCHANGED <<client, arrived, valid, recvQ, lent, filled, sendQ, handed>>
        /\ packet' \in {packet, <<>>} /\ pc' \in {"enqueue", "parse"}
    BY <1>8 DEF EchoTestSend
  <2>2. packet' \in Seq(Byte)
    <3>1. <<>> \in Seq(Byte)
      OBVIOUS
    <3> QED BY <2>1, <3>1
  <2>3. pc' \in {"post", "receiving", "completed", "parse", "dispatch", "enqueue",
                "drop", "badsize", "overflow", "gone"}
    BY <2>1
  <2> QED BY <2>1, <2>2, <2>3
<1>9. CASE EnqueueEcho
  <2>1. handed' \in Seq(Seq(Byte))
    <3>1. Append(handed, packet) \in Seq(Seq(Byte))
      BY AppendProperties
    <3>2. handed' = handed \/ handed' = Append(handed, packet)
      BY <1>9 DEF EnqueueEcho
    <3> QED BY <3>1, <3>2
  <2>2. Len(packet) \in Nat
    BY LenProperties
  <2> QED BY <1>9, <2>1, <2>2 DEF EnqueueEcho
<1>10. CASE DisconnectSessionInternal
  <2>1. valid' \in BOOLEAN /\ UNCHANGED <<client, arrived, recvQ, lent, filled, sendQ, handed, packet>>
    BY <1>10, Zenon DEF DisconnectSessionInternal, Down
  <2>2. pc' \in {"gone", "post", "parse"}
    BY <1>10 DEF DisconnectSessionInternal
  <2> QED BY <2>1, <2>2
<1>11. CASE TornDown
  <2>1. valid' \in BOOLEAN /\ UNCHANGED <<client, arrived, recvQ, lent, filled, sendQ, handed, packet, pc>>
    BY <1>11, Zenon DEF TornDown, Down
  <2> QED BY <2>1
<1>12. CASE Drain
  BY <1>0, <1>12 DEF Drain
<1>13. CASE UNCHANGED vars
  BY <1>0, <1>13 DEF vars
<1> QED
  BY <1>1, <1>2, <1>3, <1>4, <1>5, <1>6, <1>7, <1>8, <1>9, <1>10, <1>11, <1>12, <1>13
  DEF Next, Worker, Ended

\* Nothing is sent, received or parsed.
LEMMA BytesKept ==
  ASSUME StreamInv, QueueInv, CutsWhereTheClientDid, UNCHANGED <<mode, stream, starts, arrived, recvQ>>
  PROVE  StreamInv' /\ QueueInv' /\ CutsWhereTheClientDid'
BY DEF StreamInv, QueueInv, CutsWhereTheClientDid, ParsedExactly, Sent, Field, Taken, WireSize,
   WellFormed

\* Whatever is sent, received or parsed, the parser stays at the end of a packet.
LEMMA BytesStep ==
  TypeOK /\ StreamInv /\ QueueInv /\ CutsWhereTheClientDid /\ WorkerInv /\ [Next]_vars =>
    StreamInv' /\ QueueInv' /\ CutsWhereTheClientDid'
<1> SUFFICES ASSUME TypeOK, StreamInv, QueueInv, CutsWhereTheClientDid, WorkerInv, [Next]_vars
             PROVE  StreamInv' /\ QueueInv' /\ CutsWhereTheClientDid'
  OBVIOUS
<1>0. /\ stream \in Seq(Byte) /\ recvQ \in Seq(Byte) /\ starts \in Seq(0..Len(stream))
      /\ arrived \in 0..Len(stream) /\ Len(stream) \in Nat /\ Len(recvQ) \in Nat /\ Len(starts) \in Nat
      /\ Len(handed) \in Nat
  BY LenProperties DEF TypeOK
<1>20. Taken \in 0..arrived /\ arrived - Taken = Len(recvQ)
  BY <1>0 DEF QueueInv, Taken
<1>1. CASE SendPacket
  <2>1. /\ stream' \in Seq(Byte) /\ Len(stream) < Len(stream')
        /\ \A i \in 1..Len(stream) : stream'[i] = stream[i]
        /\ Len(starts') = Len(starts) + 1
        /\ \A k \in 1..Len(starts) : starts'[k] = starts[k]
        /\ starts'[Len(starts) + 1] = Len(stream')
        /\ Len(stream') = Len(stream) + WireSize(stream'[Len(stream) + 1])
    BY <1>1, SendEffect
  <2>2. mode' = mode /\ arrived' = arrived /\ recvQ' = recvQ
    BY <1>1 DEF SendPacket
  <2>3. Sent' = Sent + 1 /\ Sent = Len(starts) - 1 /\ Sent \in Nat
    BY <1>0, <2>1 DEF Sent, StreamInv
  <2>4. \A x : WireSize(x)' = WireSize(x)
    BY <2>2 DEF WireSize, WellFormed
  <2>5. ASSUME NEW k \in 1..Sent'
        PROVE  starts'[k] < starts'[k+1] /\ starts'[k+1] = starts'[k] + WireSize(stream'[starts'[k] + 1])
    <3>1. CASE k \in 1..Sent
      <4>1. starts[k] < starts[k+1] /\ starts[k+1] = starts[k] + WireSize(stream[starts[k] + 1])
        BY <3>1 DEF StreamInv, Field
      <4>2. k \in 1..Len(starts) /\ k + 1 \in 1..Len(starts)
        BY <1>0, <2>3, <3>1
      <4>3. starts[k] \in 0..Len(stream) /\ starts[k+1] \in 0..Len(stream)
        BY <1>0, <4>2, ElementOfSeq
      <4>4. starts[k] + 1 \in 1..Len(stream)
        BY <1>0, <4>1, <4>3
      <4> QED BY <2>1, <4>1, <4>2, <4>4
    <3>2. CASE k = Len(starts)
      <4>1. k \in 1..Len(starts) /\ starts'[k] = Len(stream) /\ starts'[k+1] = Len(stream')
        BY <1>0, <2>1, <2>3, <3>2 DEF StreamInv
      <4> QED BY <2>1, <4>1
    <3> QED BY <1>0, <2>3, <3>1, <3>2
  <2>6. StreamInv'
    <3>1. starts'[1] = 0 /\ Len(starts') >= 1
      <4>1. 1 \in 1..Len(starts)
        BY <1>0 DEF StreamInv
      <4> QED BY <1>0, <2>1, <4>1 DEF StreamInv
    <3> QED BY <2>1, <2>4, <2>5, <3>1 DEF StreamInv, Field
  <2>7. QueueInv'
    <3>1. SubSeq(stream', Taken + 1, arrived) = SubSeq(stream, Taken + 1, arrived)
      BY <1>0, <1>20, <2>1, Grown
    <3> QED BY <2>2, <3>1 DEF QueueInv, Taken
  <2>8. CutsWhereTheClientDid'
    <3>1. PICK k \in 0..Sent : ParsedExactly(k)
      BY DEF CutsWhereTheClientDid
    <3>2. k + 1 \in 1..Len(starts) /\ k \in 0..Sent'
      BY <1>0, <2>3
    <3>3. starts'[k+1] = arrived' - Len(recvQ')
      BY <2>1, <2>2, <3>1, <3>2 DEF ParsedExactly
    <3> QED BY <3>2, <3>3 DEF CutsWhereTheClientDid, ParsedExactly
  <2> QED BY <2>6, <2>7, <2>8
<1>2. CASE PostRecv
  <2>1. UNCHANGED <<mode, stream, starts, arrived, recvQ>>
    BY <1>2 DEF PostRecv, client
  <2> QED BY <2>1, BytesKept
<1>3. CASE Receive
  <2>1. UNCHANGED <<mode, stream, starts, arrived, recvQ>>
    BY <1>3 DEF Receive, client
  <2> QED BY <2>1, BytesKept
<1>4. CASE ReceiveFails
  <2>1. UNCHANGED <<mode, stream, starts, arrived, recvQ>>
    BY <1>4 DEF ReceiveFails, client
  <2> QED BY <2>1, BytesKept
<1>5. CASE ProcessRecv
  <2>1. /\ Len(recvQ') <= arrived' /\ arrived' - Len(recvQ') = Taken
        /\ recvQ' = SubSeq(stream, Taken + 1, arrived')
    BY <1>5, ReceivedEffect
  <2>2. mode' = mode /\ stream' = stream /\ starts' = starts
    BY <1>5 DEF ProcessRecv, client
  <2>3. Taken' = Taken
    BY <2>1 DEF Taken
  <2>4. QueueInv'
    BY <2>1, <2>2, <2>3 DEF QueueInv
  <2>5. StreamInv'
    BY <2>2 DEF StreamInv, Sent, Field, WireSize, WellFormed
  <2>6. CutsWhereTheClientDid'
    BY <2>2, <2>3 DEF CutsWhereTheClientDid, ParsedExactly, Sent, Taken
  <2> QED BY <2>4, <2>5, <2>6
<1>6. CASE ParsePackets
  <2>1. mode' = mode /\ stream' = stream /\ starts' = starts /\ arrived' = arrived
    BY <1>6, ParseCases DEF client
  <2>2. CASE Wait \/ Refuse
    <3>1. recvQ' = recvQ
      BY <2>2 DEF Wait, Refuse
    <3> QED BY <2>1, <3>1, BytesKept
  <2>3. CASE \E size \in 1..Len(recvQ) :
               /\ size = PacketSize(recvQ[1]) /\ ValidSize(size) /\ Extract(size)
    <3>1. PICK size \in 1..Len(recvQ) :
                 /\ size = PacketSize(recvQ[1]) /\ ValidSize(size) /\ Extract(size)
      BY <2>3
    <3>2. /\ recvQ' = SubSeq(stream, Taken + size + 1, arrived)
          /\ Len(recvQ') = Len(recvQ) - size
      BY <3>1, ExtractEffect
    <3>3. Taken' = Taken + size /\ Len(recvQ') <= arrived'
      <4>1. Len(recvQ') = Len(recvQ) - size /\ arrived' = arrived
        BY <2>1, <3>2
      <4> QED BY <1>0, <1>20, <4>1 DEF Taken
    <3>4. QueueInv'
      BY <2>1, <3>2, <3>3 DEF QueueInv
    <3>5. StreamInv'
      BY <2>1 DEF StreamInv, Sent, Field, WireSize, WellFormed
    <3>6. PICK k \in 0..Sent : ParsedExactly(k)
      BY DEF CutsWhereTheClientDid
    <3>7. k < Sent /\ recvQ[1] \in Byte /\ starts[k+2] = Taken + WireSize(recvQ[1])
      BY <1>0, <3>1, <3>6, NextPacket
    <3>8. WireSize(recvQ[1]) = size
      BY <3>1, <3>7, SizeCheck DEF TypeOK
    <3>9. k + 1 \in 0..Sent /\ k + 1 + 1 = k + 2
      BY <1>0, <3>7 DEF Sent
    <3>10. starts[k+1+1] = Taken'
      BY <3>3, <3>7, <3>8, <3>9
    <3>11. k + 1 \in 0..Sent' /\ starts'[k+1+1] = arrived' - Len(recvQ')
      BY <2>1, <3>9, <3>10 DEF Sent, Taken
    <3>12. CutsWhereTheClientDid'
      BY <3>11 DEF CutsWhereTheClientDid, ParsedExactly
    <3> QED BY <3>4, <3>5, <3>12
  <2> QED BY <1>6, <2>2, <2>3, ParseCases
<1>7. CASE PushNetworkEvent
  <2>1. UNCHANGED <<mode, stream, starts, arrived, recvQ>>
    BY <1>7 DEF PushNetworkEvent, client
  <2> QED BY <2>1, BytesKept
<1>8. CASE EchoTestSend
  <2>1. UNCHANGED <<mode, stream, starts, arrived, recvQ>>
    BY <1>8 DEF EchoTestSend, client
  <2> QED BY <2>1, BytesKept
<1>9. CASE EnqueueEcho
  <2>1. UNCHANGED <<mode, stream, starts, arrived, recvQ>>
    BY <1>9 DEF EnqueueEcho, client
  <2> QED BY <2>1, BytesKept
<1>10. CASE DisconnectSessionInternal
  <2>1. UNCHANGED <<mode, stream, starts, arrived, recvQ>>
    BY <1>10 DEF DisconnectSessionInternal, Down, client
  <2> QED BY <2>1, BytesKept
<1>11. CASE TornDown
  <2>1. UNCHANGED <<mode, stream, starts, arrived, recvQ>>
    BY <1>11 DEF TornDown, Down, client
  <2> QED BY <2>1, BytesKept
<1>12. CASE Drain
  <2>1. UNCHANGED <<mode, stream, starts, arrived, recvQ>>
    BY <1>12 DEF Drain, client
  <2> QED BY <2>1, BytesKept
<1>13. CASE UNCHANGED vars
  <2>1. UNCHANGED <<mode, stream, starts, arrived, recvQ>>
    BY <1>13 DEF vars, client
  <2> QED BY <2>1, BytesKept
<1> QED
  BY <1>1, <1>2, <1>3, <1>4, <1>5, <1>6, <1>7, <1>8, <1>9, <1>10, <1>11, <1>12, <1>13
  DEF Next, Worker, Ended

\* No packet is taken out or handed on.
LEMMA HandKept ==
  ASSUME HandInv, PacketsAsSent, UNCHANGED <<mode, stream, starts, handed, packet>>, Taken' = Taken,
         pc' \in {"dispatch", "enqueue"} <=> pc \in {"dispatch", "enqueue"}, Attached' => Attached
  PROVE  HandInv' /\ PacketsAsSent'
<1>1. Sent' = Sent /\ \A k : Packet(k)' = Packet(k)
  BY DEF Sent, Packet
<1>2. HandInv'
  BY <1>1 DEF HandInv
<1>3. PacketsAsSent'
  BY <1>1 DEF PacketsAsSent
<1> QED BY <1>2, <1>3

\* A packet in hand is handed on.
LEMMA HandOn ==
  ASSUME TypeOK, HandInv, PacketsAsSent, Attached, pc \in {"dispatch", "enqueue"},
         handed' = Append(handed, packet), packet' = <<>>, pc' = "parse",
         UNCHANGED <<mode, stream, starts, arrived, recvQ>>
  PROVE  HandInv' /\ PacketsAsSent'
<1>1. /\ Len(handed) + 1 <= Sent /\ starts[Len(handed) + 2] = Taken
      /\ packet = Packet(Len(handed) + 1)
  BY DEF HandInv
<1>2. Sent' = Sent /\ Taken' = Taken /\ starts' = starts /\ \A k : Packet(k)' = Packet(k)
  BY DEF Sent, Taken, Packet
<1>3. handed \in Seq(Seq(Byte)) /\ packet \in Seq(Byte) /\ Len(handed) \in Nat
  BY LenProperties DEF TypeOK
<1>4. /\ Len(handed') = Len(handed) + 1
      /\ \A k \in 1..Len(handed) : handed'[k] = handed[k]
      /\ handed'[Len(handed) + 1] = packet
  BY <1>3, AppendProperties
<1>5. HandInv'
  <2>1. Len(handed') + 1 = Len(handed) + 2
    BY <1>3, <1>4
  <2> QED BY <1>1, <1>2, <1>4, <2>1 DEF HandInv
<1>6. PacketsAsSent'
  <2>1. ASSUME NEW k \in 1..Len(handed') PROVE handed'[k] = Packet(k)
    <3>1. k \in 1..Len(handed) \/ k = Len(handed) + 1
      BY <1>3, <1>4
    <3> QED BY <1>1, <1>4, <3>1 DEF PacketsAsSent
  <2> QED BY <1>1, <1>2, <1>4, <2>1 DEF PacketsAsSent
<1> QED BY <1>5, <1>6

\* What is handed on is what was sent, as far as it goes.
LEMMA HandStep ==
  TypeOK /\ StreamInv /\ QueueInv /\ WorkerInv /\ HandInv /\ PacketsAsSent /\ [Next]_vars =>
    HandInv' /\ PacketsAsSent'
<1> SUFFICES ASSUME TypeOK, StreamInv, QueueInv, WorkerInv, HandInv, PacketsAsSent, [Next]_vars
             PROVE  HandInv' /\ PacketsAsSent'
  OBVIOUS
<1>0. /\ stream \in Seq(Byte) /\ recvQ \in Seq(Byte) /\ starts \in Seq(0..Len(stream))
      /\ arrived \in 0..Len(stream) /\ Len(stream) \in Nat /\ Len(recvQ) \in Nat /\ Len(starts) \in Nat
      /\ Len(handed) \in Nat
  BY LenProperties DEF TypeOK
<1>20. Taken \in 0..arrived /\ arrived - Taken = Len(recvQ)
  BY <1>0 DEF QueueInv, Taken
<1>1. CASE SendPacket
  <2>1. /\ stream' \in Seq(Byte) /\ Len(stream) < Len(stream')
        /\ \A i \in 1..Len(stream) : stream'[i] = stream[i]
        /\ Len(starts') = Len(starts) + 1
        /\ \A k \in 1..Len(starts) : starts'[k] = starts[k]
    BY <1>1, SendEffect
  <2>2. UNCHANGED <<mode, arrived, valid, recvQ, handed, packet, pc>>
    BY <1>1 DEF SendPacket
  <2>3. Sent' = Sent + 1 /\ Sent = Len(starts) - 1 /\ Sent \in Nat
    BY <1>0, <2>1 DEF Sent, StreamInv
  <2>4. ASSUME NEW k \in 1..Sent PROVE Packet(k)' = Packet(k)
    <3>1. k \in 1..Len(starts) /\ k + 1 \in 1..Len(starts)
      BY <1>0, <2>3
    <3>2. starts[k] \in 0..Len(stream) /\ starts[k+1] \in 0..Len(stream) /\ starts[k] < starts[k+1]
      BY <1>0, <3>1, ElementOfSeq DEF StreamInv
    <3>3. starts[k] \in 0..starts[k+1]
      BY <3>2
    <3>4. SubSeq(stream', starts[k] + 1, starts[k+1]) = SubSeq(stream, starts[k] + 1, starts[k+1])
      <4>1. \A b \in 0..Len(stream) : \A a \in 0..b :
              SubSeq(stream', a + 1, b) = SubSeq(stream, a + 1, b)
        BY <1>0, <2>1, Grown
      <4> QED BY <3>2, <3>3, <4>1
    <3> QED BY <2>1, <3>1, <3>4 DEF Packet
  <2>5. Taken' = Taken /\ (Attached' <=> Attached)
    BY <2>2 DEF Taken, Attached
  <2>6. HandInv'
    <3>1. CASE Attached /\ pc \notin {"dispatch", "enqueue"}
      <4>1. Len(handed) <= Sent /\ starts[Len(handed) + 1] = Taken
        BY <3>1 DEF HandInv
      <4>2. Len(handed) + 1 \in 1..Len(starts) /\ Len(handed) <= Sent'
        BY <1>0, <2>3, <4>1
      <4> QED BY <2>1, <2>2, <2>5, <3>1, <4>1, <4>2 DEF HandInv
    <3>2. CASE Attached /\ pc \in {"dispatch", "enqueue"}
      <4>1. /\ Len(handed) + 1 <= Sent /\ starts[Len(handed) + 2] = Taken
            /\ packet = Packet(Len(handed) + 1)
        BY <3>2 DEF HandInv
      <4>2. /\ Len(handed) + 2 \in 1..Len(starts) /\ Len(handed) + 1 \in 1..Sent
            /\ Len(handed) + 1 <= Sent'
        BY <1>0, <2>3, <4>1
      <4>3. Packet(Len(handed) + 1)' = packet
        BY <2>2, <2>4, <4>1, <4>2 DEF Packet
      <4> QED BY <2>1, <2>2, <2>5, <3>2, <4>1, <4>2, <4>3 DEF HandInv
    <3>3. CASE ~Attached
      BY <2>2, <2>5, <3>3 DEF HandInv
    <3> QED BY <3>1, <3>2, <3>3
  <2>7. PacketsAsSent'
    <3>1. \A k \in 1..Len(handed) : k \in 1..Sent
      BY <1>0, <2>3 DEF PacketsAsSent
    <3>2. Len(handed) <= Sent'
      BY <1>0, <2>3 DEF PacketsAsSent
    <3> QED BY <2>2, <2>4, <3>1, <3>2 DEF PacketsAsSent
  <2> QED BY <2>6, <2>7
<1>2. CASE PostRecv
  <2>1. UNCHANGED <<mode, stream, starts, arrived, recvQ, handed, packet>>
    BY <1>2 DEF PostRecv, client
  <2>2. /\ pc' \in {"dispatch", "enqueue"} <=> pc \in {"dispatch", "enqueue"}
        /\ Attached' => Attached
    BY <1>2 DEF PostRecv, client, Attached
  <2>3. Taken' = Taken
    BY <2>1 DEF Taken
  <2> QED BY <2>1, <2>2, <2>3, HandKept
<1>3. CASE Receive
  <2>1. UNCHANGED <<mode, stream, starts, arrived, recvQ, handed, packet>>
    BY <1>3 DEF Receive, client
  <2>2. /\ pc' \in {"dispatch", "enqueue"} <=> pc \in {"dispatch", "enqueue"}
        /\ Attached' => Attached
    BY <1>3 DEF Receive, client, Attached
  <2>3. Taken' = Taken
    BY <2>1 DEF Taken
  <2> QED BY <2>1, <2>2, <2>3, HandKept
<1>4. CASE ReceiveFails
  <2>1. UNCHANGED <<mode, stream, starts, arrived, recvQ, handed, packet>>
    BY <1>4 DEF ReceiveFails, client
  <2>2. /\ pc' \in {"dispatch", "enqueue"} <=> pc \in {"dispatch", "enqueue"}
        /\ Attached' => Attached
    BY <1>4 DEF ReceiveFails, client, Attached
  <2>3. Taken' = Taken
    BY <2>1 DEF Taken
  <2> QED BY <2>1, <2>2, <2>3, HandKept
<1>5. CASE ProcessRecv
  <2>1. arrived' - Len(recvQ') = Taken /\ pc' \in {"gone", "parse", "drop"}
    BY <1>5, ReceivedEffect
  <2>2. UNCHANGED <<mode, stream, starts, valid, handed, packet>> /\ pc = "completed"
    BY <1>5 DEF ProcessRecv, client
  <2>3. Taken' = Taken /\ (Attached' => Attached)
    BY <2>1, <2>2 DEF Taken, Attached
  <2> QED BY <2>1, <2>2, <2>3, HandKept
<1>6. CASE ParsePackets
  <2>1. UNCHANGED <<mode, stream, starts, arrived, valid, handed>> /\ pc = "parse"
    BY <1>6, ParseCases DEF client
  <2>2. CASE Wait \/ Refuse
    <3>1. recvQ' = recvQ /\ packet' = packet /\ pc' \in {"post", "badsize"}
      BY <2>2 DEF Wait, Refuse
    <3>2. Taken' = Taken /\ (Attached' => Attached)
      BY <2>1, <3>1 DEF Taken, Attached
    <3> QED BY <2>1, <3>1, <3>2, HandKept
  <2>3. CASE \E size \in 1..Len(recvQ) :
               /\ size = PacketSize(recvQ[1]) /\ ValidSize(size) /\ Extract(size)
    <3>1. PICK size \in 1..Len(recvQ) :
                 /\ size = PacketSize(recvQ[1]) /\ ValidSize(size) /\ Extract(size)
      BY <2>3
    <3>2. /\ packet' = SubSeq(stream, Taken + 1, Taken + size)
          /\ Len(recvQ') = Len(recvQ) - size
      BY <3>1, ExtractEffect
    <3>3. Taken' = Taken + size /\ pc' = "dispatch"
      <4>1. Len(recvQ') = Len(recvQ) - size /\ arrived' = arrived
        BY <2>1, <3>2
      <4>2. pc' = "dispatch"
        BY <3>1 DEF Extract
      <4> QED BY <1>0, <1>20, <4>1, <4>2 DEF Taken
    <3>4. Sent' = Sent /\ \A k : Packet(k)' = Packet(k)
      BY <2>1 DEF Sent, Packet
    <3>5. Attached' => Attached
      BY <2>1, <3>3 DEF Attached
    <3>6. ASSUME Attached
          PROVE  /\ Len(handed) + 1 <= Sent /\ starts[Len(handed) + 2] = Taken'
                 /\ packet' = Packet(Len(handed) + 1)
      <4> DEFINE k == Len(handed)
      <4>1. k <= Sent /\ starts[k + 1] = Taken
        BY <2>1, <3>6 DEF HandInv
      <4>2. k \in 0..Sent /\ ParsedExactly(k)
        BY <1>0, <4>1 DEF ParsedExactly, Taken, Sent
      <4>3. k < Sent /\ recvQ[1] \in Byte /\ starts[k+2] = Taken + WireSize(recvQ[1])
        BY <1>0, <3>1, <4>2, NextPacket
      <4>4. WireSize(recvQ[1]) = size
        BY <3>1, <4>3, SizeCheck DEF TypeOK
      <4>5. k + 1 + 1 = k + 2 /\ k + 1 <= Sent
        BY <1>0, <4>3 DEF Sent
      <4>6. packet' = Packet(k + 1)
        BY <3>2, <4>1, <4>3, <4>4, <4>5 DEF Packet
      <4> QED BY <3>3, <4>3, <4>4, <4>5, <4>6
    <3>7. HandInv'
      BY <2>1, <3>3, <3>4, <3>5, <3>6 DEF HandInv
    <3>8. PacketsAsSent'
      BY <2>1, <3>4 DEF PacketsAsSent
    <3> QED BY <3>7, <3>8
  <2> QED BY <1>6, <2>2, <2>3, ParseCases
<1>7. CASE PushNetworkEvent
  <2>1. Attached
    BY <1>7 DEF PushNetworkEvent, Attached
  <2> QED BY <1>7, <2>1, HandOn DEF PushNetworkEvent, client
<1>8. CASE EchoTestSend
  <2>1. UNCHANGED <<mode, stream, starts, arrived, valid, recvQ, handed>> /\ pc = "dispatch" /\ mode = "EchoTest"
    BY <1>8 DEF EchoTestSend, client
  <2>2. Taken' = Taken
    BY <2>1 DEF Taken
  <2>3. CASE valid
    <3>1. pc' = "enqueue" /\ packet' = packet /\ Attached
      BY <1>8, <2>1, <2>3 DEF EchoTestSend, Attached
    <3> QED BY <2>1, <2>2, <3>1, HandKept
  <2>4. CASE ~valid
    <3>1. pc' = "parse" /\ packet' = <<>>
      BY <1>8, <2>4 DEF EchoTestSend
    <3>2. ~Attached'
      BY <2>1, <2>4, <3>1 DEF Attached
    <3>3. HandInv'
      BY <3>1, <3>2 DEF HandInv
    <3>4. PacketsAsSent'
      BY <2>1 DEF PacketsAsSent, Sent, Packet
    <3> QED BY <3>3, <3>4
  <2> QED BY <2>3, <2>4
<1>9. CASE EnqueueEcho
  <2>1. /\ UNCHANGED <<mode, stream, starts, arrived, valid, recvQ>> /\ pc = "enqueue"
        /\ packet' = <<>> /\ Attached
    BY <1>9 DEF EnqueueEcho, client, Attached
  <2>2. CASE Len(packet) <= Width - 1 - sendQ
    <3>1. handed' = Append(handed, packet) /\ pc' = "parse"
      BY <1>9, <2>2 DEF EnqueueEcho
    <3> QED BY <2>1, <3>1, HandOn
  <2>3. CASE ~(Len(packet) <= Width - 1 - sendQ)
    <3>1. handed' = handed /\ pc' = "overflow"
      BY <1>9, <2>3 DEF EnqueueEcho
    <3>2. mode = "EchoTest"
      BY <2>1 DEF WorkerInv
    <3>3. ~Attached'
      BY <2>1, <3>1, <3>2 DEF Attached
    <3>4. HandInv'
      BY <2>1, <3>1, <3>3 DEF HandInv
    <3>5. PacketsAsSent'
      BY <2>1, <3>1 DEF PacketsAsSent, Sent, Packet
    <3> QED BY <3>4, <3>5
  <2> QED BY <2>2, <2>3
<1>10. CASE DisconnectSessionInternal
  <2>1. UNCHANGED <<mode, stream, starts, arrived, recvQ, handed, packet>>
    BY <1>10 DEF DisconnectSessionInternal, Down, client
  <2>2. /\ pc' \in {"dispatch", "enqueue"} <=> pc \in {"dispatch", "enqueue"}
        /\ Attached' => Attached
    BY <1>10 DEF DisconnectSessionInternal, Down, client, Attached
  <2>3. Taken' = Taken
    BY <2>1 DEF Taken
  <2> QED BY <2>1, <2>2, <2>3, HandKept
<1>11. CASE TornDown
  <2>1. UNCHANGED <<mode, stream, starts, arrived, recvQ, handed, packet>>
    BY <1>11 DEF TornDown, Down, client
  <2>2. /\ pc' \in {"dispatch", "enqueue"} <=> pc \in {"dispatch", "enqueue"}
        /\ Attached' => Attached
    BY <1>11 DEF TornDown, Down, client, Attached
  <2>3. Taken' = Taken
    BY <2>1 DEF Taken
  <2> QED BY <2>1, <2>2, <2>3, HandKept
<1>12. CASE Drain
  <2>1. UNCHANGED <<mode, stream, starts, arrived, recvQ, handed, packet>>
    BY <1>12 DEF Drain, client
  <2>2. /\ pc' \in {"dispatch", "enqueue"} <=> pc \in {"dispatch", "enqueue"}
        /\ Attached' => Attached
    BY <1>12 DEF Drain, client, Attached
  <2>3. Taken' = Taken
    BY <2>1 DEF Taken
  <2> QED BY <2>1, <2>2, <2>3, HandKept
<1>13. CASE UNCHANGED vars
  <2>1. UNCHANGED <<mode, stream, starts, arrived, recvQ, handed, packet>>
    BY <1>13 DEF vars, client
  <2>2. /\ pc' \in {"dispatch", "enqueue"} <=> pc \in {"dispatch", "enqueue"}
        /\ Attached' => Attached
    BY <1>13 DEF vars, client, Attached
  <2>3. Taken' = Taken
    BY <2>1 DEF Taken
  <2> QED BY <2>1, <2>2, <2>3, HandKept
<1> QED
  BY <1>1, <1>2, <1>3, <1>4, <1>5, <1>6, <1>7, <1>8, <1>9, <1>10, <1>11, <1>12, <1>13
  DEF Next, Worker, Ended

\* The worker's findings hold until it acts on them.
LEMMA WorkerStep ==
  TypeOK /\ StreamInv /\ QueueInv /\ WorkerInv /\ [Next]_vars => WorkerInv'
<1> SUFFICES ASSUME TypeOK, StreamInv, QueueInv, WorkerInv, [Next]_vars
             PROVE  WorkerInv'
  OBVIOUS
<1>0. /\ stream \in Seq(Byte) /\ recvQ \in Seq(Byte) /\ starts \in Seq(0..Len(stream))
      /\ arrived \in 0..Len(stream) /\ Len(stream) \in Nat /\ Len(recvQ) \in Nat /\ Len(starts) \in Nat
      /\ Len(handed) \in Nat
  BY LenProperties DEF TypeOK
<1> USE DEF WorkerInv, Free, client
<1>1. CASE SendPacket
  <2>1. stream' \in Seq(Byte) /\ Len(stream) < Len(stream')
    BY <1>1, SendEffect
  <2>2. Len(stream') \in Nat /\ filled \in Nat
    BY <2>1, LenProperties, RecvAssumption DEF TypeOK
  <2>3. UNCHANGED <<mode, arrived, valid, recvQ, lent, filled, pc>>
    BY <1>1 DEF SendPacket
  <2>4. \A x : PacketSize(x)' = PacketSize(x)
    BY <2>3 DEF PacketSize
  <2>5. arrived + filled <= Len(stream) => arrived + filled <= Len(stream')
    BY <1>0, <2>1, <2>2
  <2> QED BY <2>3, <2>4, <2>5
<1>2. CASE PostRecv
  BY <1>0, <1>2, RecvAssumption DEF PostRecv, PacketSize
<1>3. CASE Receive
  <2>1. PICK n \in 1..lent : arrived + n <= Len(stream) /\ filled' = n
    BY <1>3 DEF Receive
  <2>2. n <= lent /\ lent <= Free
    BY <1>3, RecvAssumption DEF Receive, TypeOK
  <2>3. n <= Free
    BY <1>0, <2>1, <2>2, RecvAssumption DEF TypeOK
  <2> QED BY <1>3, <2>1, <2>3 DEF Receive
<1>4. CASE ReceiveFails
  BY <1>4 DEF ReceiveFails, PacketSize
<1>5. CASE ProcessRecv
  <2>1. pc' \in {"gone", "parse", "drop"}
    BY <1>5, ReceivedEffect
  <2> QED BY <2>1
<1>6. CASE ParsePackets
  <2>1. UNCHANGED <<mode, stream, starts, arrived, valid, handed>> /\ pc = "parse"
    BY <1>6, ParseCases
  <2>2. \A x : PacketSize(x)' = PacketSize(x)
    BY <2>1 DEF PacketSize
  <2>3. CASE Wait /\ (Len(recvQ) < HeaderSize \/ Len(recvQ) < PacketSize(recvQ[1]))
    BY <2>2, <2>3 DEF Wait
  <2>4. CASE Refuse /\ Len(recvQ) >= HeaderSize /\ ~ValidSize(PacketSize(recvQ[1]))
    BY <2>2, <2>4 DEF Refuse
  <2>5. CASE \E size \in 1..Len(recvQ) : Extract(size)
    <3>1. pc' = "dispatch"
      BY <2>5 DEF Extract
    <3> QED BY <3>1
  <2> QED BY <1>6, <2>3, <2>4, <2>5, ParseCases
<1>7. CASE PushNetworkEvent
  BY <1>7 DEF PushNetworkEvent, PacketSize
<1>8. CASE EchoTestSend
  BY <1>8 DEF EchoTestSend, PacketSize
<1>9. CASE EnqueueEcho
  BY <1>9 DEF EnqueueEcho, PacketSize
<1>10. CASE DisconnectSessionInternal
  BY <1>10 DEF DisconnectSessionInternal, Down, PacketSize
<1>11. CASE TornDown
  BY <1>11 DEF TornDown, Down, PacketSize
<1>12. CASE Drain
  BY <1>12 DEF Drain, PacketSize
<1>13. CASE UNCHANGED vars
  BY <1>13 DEF vars, PacketSize
<1> QED
  BY <1>1, <1>2, <1>3, <1>4, <1>5, <1>6, <1>7, <1>8, <1>9, <1>10, <1>11, <1>12, <1>13
  DEF Next, Worker, Ended

\* Nothing has been sent, and the worker is about to post the first receive.
LEMMA Initially == Init => IInv
<1> SUFFICES ASSUME Init PROVE IInv
  OBVIOUS
<1> USE RecvAssumption DEF Init
<1>1. Sent = 0 /\ Len(stream) = 0 /\ Len(recvQ) = 0 /\ Taken = 0 /\ Len(handed) = 0
  <2>1. Len(<<0>>) = 1 /\ Len(<<>>) = 0
    OBVIOUS
  <2>2. Len(starts) = 1 /\ Len(stream) = 0 /\ Len(recvQ) = 0 /\ Len(handed) = 0
    BY <2>1, Zenon
  <2> HIDE DEF Init
  <2>3. arrived = 0
    BY DEF Init
  <2> QED BY <2>2, <2>3 DEF Sent, Taken
<1>2. TypeOK
  <2>1. <<0>> \in Seq(0..0) /\ Len(<<>>) = 0
    OBVIOUS
  <2>2. valid \in BOOLEAN
    BY Zenon
  <2> QED BY <1>1, <2>1, <2>2 DEF TypeOK
<1>3. StreamInv
  BY <1>1 DEF StreamInv
<1>4. QueueInv
  <2>1. SubSeq(<<>>, 1, 0) = <<>>
    BY SubSeqEmpty
  <2> QED BY <1>1, <2>1 DEF QueueInv
<1>5. CutsWhereTheClientDid
  <2>1. ParsedExactly(0) /\ 0 \in 0..Sent
    <3>1. <<0>>[0 + 1] = 0
      OBVIOUS
    <3> QED BY <1>1, <3>1 DEF ParsedExactly, Taken
  <2> QED BY <2>1 DEF CutsWhereTheClientDid
<1>6. HandInv /\ PacketsAsSent
  BY <1>1 DEF HandInv, PacketsAsSent
<1>7. WorkerInv
  BY <1>1 DEF WorkerInv
<1> QED BY <1>2, <1>3, <1>4, <1>5, <1>6, <1>7 DEF IInv

\* Whatever the client sends and however the kernel cuts it, the worker, the
\* client and a teardown keep the queue, the packet in hand and the packets
\* handed on consistent with the stream.
THEOREM Invariance == Spec => []IInv
<1>1. IInv /\ [Next]_vars => IInv'
  BY TypeStep, BytesStep, HandStep, WorkerStep DEF IInv
<1> QED BY <1>1, Initially, PTL DEF Spec

\* No operation on _recvQ or _sendQ goes beyond its buffer.
THEOREM TypeCorrect == Spec => []TypeOK
BY Invariance, PTL DEF IInv

\* EchoTestSend and PushNetworkEvent get the client's packets one by one, in
\* order, each complete and unchanged, and no echo follows a lost one.
THEOREM SamePackets == Spec => []PacketsAsSent
BY Invariance, PTL DEF IInv

\* ParsePackets only ever stands between two of the client's packets: its test
\* of the size lets a size pass exactly when it is what the client meant.
THEOREM SameCuts == Spec => []CutsWhereTheClientDid
BY Invariance, PTL DEF IInv

\* No byte is lost, repeated or reordered between the kernel, _recvQ and the
\* packet in hand.
THEOREM StreamKept == Spec => []StreamIntact
<1>1. IInv => StreamIntact
  <2> SUFFICES ASSUME IInv, mode = "Centralized" \/ (valid /\ pc # "overflow")
               PROVE  packet \o recvQ = SubSeq(stream, starts[Len(handed) + 1] + 1, arrived)
    BY DEF StreamIntact
  <2> USE DEF IInv
  <2>0. /\ stream \in Seq(Byte) /\ recvQ \in Seq(Byte) /\ starts \in Seq(0..Len(stream))
        /\ arrived \in 0..Len(stream) /\ Len(stream) \in Nat /\ Len(recvQ) \in Nat
        /\ Len(starts) \in Nat /\ Len(handed) \in Nat
    BY LenProperties DEF TypeOK
  <2>1. Taken \in 0..arrived /\ arrived - Taken = Len(recvQ) /\ recvQ = SubSeq(stream, Taken + 1, arrived)
    BY <2>0 DEF QueueInv, Taken
  <2>2. Attached
    BY DEF Attached
  <2>3. CASE pc \notin {"dispatch", "enqueue"}
    <3>1. packet = <<>> /\ starts[Len(handed) + 1] = Taken
      BY <2>2, <2>3 DEF HandInv
    <3>2. <<>> \o recvQ = recvQ
      BY <2>0, ConcatEmptySeq
    <3> QED BY <2>1, <3>1, <3>2
  <2>4. CASE pc \in {"dispatch", "enqueue"}
    <3> DEFINE k == Len(handed) + 1
    <3>1. k <= Sent /\ starts[k + 1] = Taken /\ packet = Packet(k)
      <4>1. k + 1 = Len(handed) + 2
        BY <2>0
      <4> QED BY <2>2, <2>4, <4>1 DEF HandInv
    <3>2. k \in 1..Sent /\ k \in 1..Len(starts)
      BY <2>0, <3>1 DEF Sent
    <3> HIDE DEF k
    <3>3. starts[k] < starts[k + 1] /\ starts[k] \in 0..Len(stream)
      BY <2>0, <3>2, ElementOfSeq DEF StreamInv
    <3>4. starts[k] \in 0..Taken
      BY <2>1, <3>1, <3>3
    <3>5. SubSeq(stream, starts[k] + 1, Taken) \o SubSeq(stream, Taken + 1, arrived)
            = SubSeq(stream, starts[k] + 1, arrived)
      BY <2>0, <2>1, <3>4, Join
    <3>6. packet \o recvQ = SubSeq(stream, starts[k] + 1, arrived)
      BY <2>1, <3>1, <3>5 DEF Packet
    <3> QED BY <3>6 DEF k
  <2> QED BY <2>3, <2>4
<1> QED BY <1>1, Invariance, PTL

\* The error branch of ParsePackets is never taken for a packet the client meant:
\* the sum that wraps around is below sizeof(MsgHeader).
THEOREM RefusesOnlyBadSizes == Spec => []OnlyBadSizesRefused
<1>1. IInv => OnlyBadSizesRefused
  <2> SUFFICES ASSUME IInv, pc = "badsize"
               PROVE  \E k \in 0..Sent-1 : ParsedExactly(k) /\ ~WellFormed(Field(k+1))
    BY DEF OnlyBadSizesRefused
  <2> USE DEF IInv
  <2>1. PICK k \in 0..Sent : ParsedExactly(k)
    BY DEF CutsWhereTheClientDid
  <2>2. Len(recvQ) >= HeaderSize /\ ~ValidSize(PacketSize(recvQ[1])) /\ Len(recvQ) \in Nat
    BY LenProperties DEF WorkerInv, TypeOK
  <2>3. k < Sent /\ Field(k+1) = recvQ[1] /\ recvQ[1] \in Byte
    <3>1. Len(recvQ) > 0
      BY <2>2, RecvAssumption
    <3> QED BY <2>1, <3>1, NextPacket
  <2>4. ~WellFormed(Field(k+1))
    BY <2>2, <2>3, SizeCheck DEF TypeOK
  <2>5. k \in 0..Sent-1
    <3>1. Sent \in Int
      BY LenProperties DEF Sent, TypeOK
    <3> QED BY <2>3, <3>1
  <2> QED BY <2>1, <2>4, <2>5
<1> QED BY <1>1, Invariance, PTL

\* PostRecv never finds _recvQ full on a session that is up: Width - 1 bytes are
\* a whole packet of the largest size or hold one.
THEOREM NeverFull == Spec => []FullBranchDead
<1>1. IInv => FullBranchDead
  <2> SUFFICES ASSUME IInv, pc = "post", valid PROVE Free > 0
    BY DEF FullBranchDead
  <2> USE DEF IInv
  <2>1. Len(recvQ) \in Nat /\ recvQ \in Seq(Byte) /\ mode \in Modes
    BY LenProperties DEF TypeOK
  <2>2. Len(recvQ) < HeaderSize \/ Len(recvQ) < PacketSize(recvQ[1])
    BY DEF WorkerInv
  <2>3. CASE Len(recvQ) < HeaderSize
    BY <2>1, <2>3, RecvAssumption DEF Free
  <2>4. CASE Len(recvQ) >= HeaderSize /\ Len(recvQ) < PacketSize(recvQ[1])
    <3>1. recvQ[1] \in Byte
      <4>1. 1 \in 1..Len(recvQ)
        BY <2>1, <2>4, RecvAssumption
      <4> QED BY <2>1, <4>1, ElementOfSeq
    <3>2. PacketSize(recvQ[1]) \in 0..Width-1
      BY <2>1, <3>1, SizeCheck
    <3> QED BY <2>1, <2>4, <3>2, RecvAssumption DEF Free
  <2> QED BY <2>1, <2>2, <2>3, <2>4, RecvAssumption
<1> QED BY <1>1, Invariance, PTL
=============================================================================

------------------------- MODULE RingBuffer_proofs -------------------------
(***************************************************************************)
(* Proofs about RingBuffer, for every capacity and any set of bytes.       *)
(***************************************************************************)
EXTENDS RingBuffer, SequenceTheorems, TLAPS

-----------------------------------------------------------------------------
(* The inductive invariant.                                                 *)

\* What was lent: of _sendQ the front of the queue, split where the buffer
\* ends, and of _recvQ all of the free cells, into which what the kernel
\* received still fits.
LentInv ==
  /\ lent # NotLent /\ queue = "_sendQ" =>
       /\ lent.at = readPos /\ lent.size \in 1..DataSize
       /\ \/ lent.direct = lent.size /\ readPos + lent.size <= Capacity
          \/ lent.direct = Capacity - readPos /\ lent.direct < lent.size
  /\ lent # NotLent /\ queue = "_recvQ" =>
       lent = Region(writePos, DirectWriteSize, FreeSize) /\ DirectWriteSize > 0
  /\ queue = "_recvQ" => Len(promised) <= lent.size
  /\ lent = NotLent => promised = <<>>

\* The bytes promised to WSASend are still the front of the queue.
PromiseInv ==
  lent # NotLent /\ queue = "_sendQ" => promised = SubSeq(Contents, 1, lent.size)

\* What the kernel received follows the queue in the buffer.
ReceivedInv ==
  queue = "_recvQ" =>
    \A i \in 1..Len(promised) : buffer[Advance(writePos, i - 1)] = promised[i]

IInv == TypeOK /\ LentInv /\ PromiseInv /\ ReceivedInv

-----------------------------------------------------------------------------
(* Arithmetic of the positions.                                             *)

\* The modulo of Advance is one subtraction at most.
LEMMA Modulo ==
  ASSUME NEW x \in 0..2 * Capacity - 1
  PROVE  x % Capacity = IF x < Capacity THEN x ELSE x - Capacity
<1>1. CASE x < Capacity
  BY <1>1, RingAssumption
<1>2. CASE x >= Capacity
  BY <1>2, RingAssumption
<1> QED BY <1>1, <1>2, RingAssumption

\* Advancing by at most one round stays inside the buffer.
LEMMA AdvanceType ==
  ASSUME NEW pos \in Cells, NEW n \in 0..Capacity
  PROVE  /\ Advance(pos, n) = IF pos + n < Capacity THEN pos + n ELSE pos + n - Capacity
         /\ Advance(pos, n) \in Cells
<1>1. pos + n \in 0..2 * Capacity - 1
  BY RingAssumption DEF Cells
<1> QED BY <1>1, Modulo, RingAssumption DEF Advance, Cells

\* The sizes the code computes from two positions.
LEMMA Sizes ==
  ASSUME readPos \in Cells, writePos \in Cells
  PROVE  /\ DataSize \in Cells
         /\ FreeSize = Capacity - 1 - DataSize /\ FreeSize \in Cells
         /\ DirectReadSize \in 0..DataSize
         /\ DirectReadSize = 0 <=> DataSize = 0
         /\ DirectReadSize < DataSize => DirectReadSize = Capacity - readPos
         /\ readPos + DirectReadSize <= Capacity
         /\ DirectWriteSize \in 0..FreeSize
         /\ DirectWriteSize = 0 <=> FreeSize = 0
         /\ DirectWriteSize < FreeSize => DirectWriteSize = Capacity - writePos
         /\ writePos + DirectWriteSize <= Capacity
BY RingAssumption
   DEF Cells, DataSize, FreeSize, DirectReadSize, DirectWriteSize

\* Where the queue stands after bytes were added or taken.
LEMMA SizeAfterPut ==
  ASSUME readPos \in Cells, writePos \in Cells, NEW n \in 0..FreeSize,
         readPos' = readPos, writePos' = Advance(writePos, n)
  PROVE  writePos' \in Cells /\ DataSize' = DataSize + n
<1>1. FreeSize \in Cells /\ FreeSize = Capacity - 1 - DataSize
  BY Sizes
<1>2. n \in 0..Capacity
  BY <1>1, RingAssumption DEF Cells
<1>3. /\ writePos' = IF writePos + n < Capacity THEN writePos + n ELSE writePos + n - Capacity
      /\ writePos' \in Cells
  BY <1>2, AdvanceType
<1>4. DataSize' = IF writePos' >= readPos' THEN writePos' - readPos'
                                          ELSE Capacity - readPos' + writePos'
  BY DEF DataSize
<1> QED BY <1>1, <1>3, <1>4, RingAssumption DEF Cells, DataSize

LEMMA SizeAfterTake ==
  ASSUME readPos \in Cells, writePos \in Cells, NEW n \in 0..DataSize,
         writePos' = writePos, readPos' = Advance(readPos, n)
  PROVE  readPos' \in Cells /\ DataSize' = DataSize - n
<1>1. DataSize \in Cells
  BY Sizes
<1>2. n \in 0..Capacity
  BY <1>1, RingAssumption DEF Cells
<1>3. /\ readPos' = IF readPos + n < Capacity THEN readPos + n ELSE readPos + n - Capacity
      /\ readPos' \in Cells
  BY <1>2, AdvanceType
<1>4. DataSize' = IF writePos' >= readPos' THEN writePos' - readPos'
                                          ELSE Capacity - readPos' + writePos'
  BY DEF DataSize
<1> QED BY <1>1, <1>3, <1>4, RingAssumption DEF Cells, DataSize

-----------------------------------------------------------------------------
(* Types.                                                                   *)

\* A message is a sequence of bytes that is not empty.
LEMMA InputType ==
  ASSUME NEW d \in Inputs
  PROVE  d \in Seq(Bytes) /\ Len(d) \in 1..Capacity /\ d \in [1..Len(d) -> Bytes]
<1>1. PICK n \in 1..Capacity : d \in [1..n -> Bytes]
  BY DEF Inputs
<1>2. n \in Nat
  BY RingAssumption
<1>3. d \in Seq(Bytes) /\ Len(d) = n
  BY <1>1, <1>2
<1> QED BY <1>1, <1>2, <1>3

\* Writing into a region keeps the buffer a buffer.
LEMMA FilledType ==
  ASSUME buffer \in [Cells -> Bytes], NEW d \in Seq(Bytes),
         NEW at \in Cells, NEW direct \in Nat, NEW size,
         Len(d) <= direct + Capacity
  PROVE  Filled(Region(at, direct, size), d) \in [Cells -> Bytes]
<1>1. Len(d) \in Nat /\ d \in [1..Len(d) -> Bytes]
  BY LenProperties
<1> DEFINE r == Region(at, direct, size)
<1>2. r.at = at /\ r.direct = direct
  BY DEF Region
<1>3. ASSUME NEW c \in Cells
      PROVE  Filled(r, d)[c] \in Bytes
  <2>1. CASE c >= at /\ c < at + direct /\ c - at < Len(d)
    <3>1. c - at + 1 \in 1..Len(d)
      BY <1>1, <2>1, RingAssumption DEF Cells
    <3> QED BY <1>1, <1>2, <2>1, <3>1 DEF Filled
  <2>2. CASE ~(c >= at /\ c < at + direct /\ c - at < Len(d)) /\ c < Len(d) - direct
    <3>1. direct + c + 1 \in 1..Len(d)
      BY <1>1, <2>2, RingAssumption DEF Cells
    <3> QED BY <1>1, <1>2, <2>2, <3>1 DEF Filled
  <2>3. CASE ~(c >= at /\ c < at + direct /\ c - at < Len(d)) /\ ~(c < Len(d) - direct)
    BY <1>2, <2>3 DEF Filled
  <2> QED BY <2>1, <2>2, <2>3
<1> QED BY <1>2, <1>3 DEF Filled

-----------------------------------------------------------------------------
(* The queue as a sequence.                                                 *)

\* The cell of a byte of the queue, without the modulo.
LEMMA CellOf ==
  ASSUME readPos \in Cells, writePos \in Cells, NEW i \in 1..DataSize
  PROVE  /\ (readPos + i - 1) % Capacity =
              IF readPos + i - 1 < Capacity THEN readPos + i - 1
                                            ELSE readPos + i - 1 - Capacity
         /\ (readPos + i - 1) % Capacity \in Cells
<1>1. DataSize \in Cells
  BY Sizes
<1>2. readPos + i - 1 \in 0..2 * Capacity - 1
  BY <1>1, RingAssumption DEF Cells
<1>3. (readPos + i - 1) % Capacity =
        IF readPos + i - 1 < Capacity THEN readPos + i - 1
                                      ELSE readPos + i - 1 - Capacity
  <2> DEFINE x == readPos + i - 1
  <2> HIDE DEF x
  <2>1. x \in 0..2 * Capacity - 1
    BY <1>2 DEF x
  <2>2. x % Capacity = IF x < Capacity THEN x ELSE x - Capacity
    BY <2>1, Modulo
  <2> QED BY <1>1, <2>2, RingAssumption DEF x, Cells
<1> QED BY <1>1, <1>3, RingAssumption DEF Cells

\* The queue is a sequence of DataSize bytes.
LEMMA ContentsType ==
  ASSUME TypeOK
  PROVE  /\ Contents \in Seq(Bytes) /\ Len(Contents) = DataSize
         /\ \A i \in 1..DataSize : Contents[i] = buffer[(readPos + i - 1) % Capacity]
<1>1. DataSize \in Nat
  BY RingAssumption DEF TypeOK, Cells
<1>2. \A i \in 1..DataSize : buffer[(readPos + i - 1) % Capacity] \in Bytes
  BY CellOf DEF TypeOK
<1>3. Contents \in [1..DataSize -> Bytes]
  BY <1>2 DEF Contents
<1> QED BY <1>1, <1>3 DEF Contents

\* Bytes written behind the queue, split where the buffer ends, go into free
\* cells, in order.
LEMMA FilledBehind ==
  ASSUME TypeOK, NEW d \in Seq(Bytes), Len(d) \in 0..FreeSize,
         NEW direct \in Nat, NEW size, writePos + direct <= Capacity,
         direct = Capacity - writePos \/ Len(d) <= direct
  PROVE  /\ Filled(Region(writePos, direct, size), d) \in [Cells -> Bytes]
         /\ \A i \in 1..DataSize :
              Filled(Region(writePos, direct, size), d)[(readPos + i - 1) % Capacity] =
                buffer[(readPos + i - 1) % Capacity]
         /\ \A i \in 1..Len(d) :
              Filled(Region(writePos, direct, size), d)[Advance(writePos, i - 1)] = d[i]
<1> DEFINE r == Region(writePos, direct, size)
           b == Filled(r, d)
<1>1. /\ r.at = writePos /\ r.direct = direct /\ writePos \in Cells /\ readPos \in Cells
      /\ DataSize \in Cells /\ FreeSize = Capacity - 1 - DataSize
      /\ Capacity \in Nat \ {0} /\ Len(d) \in Nat
  BY Sizes, RingAssumption DEF TypeOK, Region, Cells
<1>2. \A c \in Cells :
        b[c] = IF c >= writePos /\ c < writePos + direct /\ c - writePos < Len(d)
               THEN d[c - writePos + 1]
               ELSE IF c < Len(d) - direct THEN d[direct + c + 1]
               ELSE buffer[c]
  BY <1>1 DEF Filled
<1> HIDE DEF b, r
<1>3. b \in [Cells -> Bytes]
  BY <1>1, FilledType DEF TypeOK, Cells, b, r
<1>4. ASSUME NEW i \in 1..DataSize
      PROVE  b[(readPos + i - 1) % Capacity] = buffer[(readPos + i - 1) % Capacity]
  <2> DEFINE c == (readPos + i - 1) % Capacity
  <2>1. /\ c = IF readPos + i - 1 < Capacity THEN readPos + i - 1
                                             ELSE readPos + i - 1 - Capacity
        /\ c \in Cells
    BY <1>1, <1>4, CellOf
  <2> HIDE DEF c
  <2>2. ~(c >= writePos /\ c < writePos + direct /\ c - writePos < Len(d))
    BY <1>1, <1>4, <2>1 DEF Cells, DataSize
  <2>3. ~(c < Len(d) - direct)
    BY <1>1, <1>4, <2>1 DEF Cells, DataSize
  <2>4. b[c] = buffer[c]
    BY <1>2, <2>1, <2>2, <2>3
  <2> QED BY <2>4 DEF c
<1>5. ASSUME NEW i \in 1..Len(d)
      PROVE  b[Advance(writePos, i - 1)] = d[i]
  <2> DEFINE c == Advance(writePos, i - 1)
  <2>1. i - 1 \in 0..Capacity
    BY <1>1, <1>5 DEF Cells
  <2>2. /\ c = IF writePos + (i - 1) < Capacity THEN writePos + (i - 1)
                                               ELSE writePos + (i - 1) - Capacity
        /\ c \in Cells
    BY <1>1, <2>1, AdvanceType
  <2> HIDE DEF c
  <2>3. CASE writePos + (i - 1) < Capacity
    <3>1. /\ c >= writePos /\ c < writePos + direct /\ c - writePos < Len(d)
          /\ c - writePos + 1 = i
      BY <1>1, <1>5, <2>2, <2>3 DEF Cells
    <3> QED BY <1>2, <2>2, <3>1 DEF c
  <2>4. CASE writePos + (i - 1) >= Capacity
    <3>1. /\ c < writePos /\ direct = Capacity - writePos
          /\ c < Len(d) - direct /\ direct + c + 1 = i
      BY <1>1, <1>5, <2>2, <2>4 DEF Cells
    <3>2. ~(c >= writePos)
      BY <1>1, <2>2, <3>1 DEF Cells
    <3> QED BY <1>2, <2>2, <3>1, <3>2 DEF c
  <2> QED BY <1>1, <1>5, <2>3, <2>4 DEF Cells
<1> QED BY <1>3, <1>4, <1>5 DEF b, r

\* Bytes that follow the queue in the buffer are appended to it when _writePos
\* moves over them.
LEMMA Appended ==
  ASSUME TypeOK, NEW d \in Seq(Bytes), Len(d) \in 0..FreeSize,
         buffer' \in [Cells -> Bytes], readPos' = readPos,
         writePos' = Advance(writePos, Len(d)),
         \A i \in 1..DataSize :
           buffer'[(readPos + i - 1) % Capacity] = buffer[(readPos + i - 1) % Capacity],
         \A i \in 1..Len(d) : buffer'[Advance(writePos, i - 1)] = d[i]
  PROVE  /\ writePos' \in Cells /\ DataSize' = DataSize + Len(d)
         /\ Contents' = Contents \o d
<1>1. /\ writePos \in Cells /\ readPos \in Cells
      /\ DataSize \in Cells /\ FreeSize = Capacity - 1 - DataSize
      /\ Capacity \in Nat \ {0} /\ Len(d) \in Nat
  BY Sizes, RingAssumption DEF TypeOK, Cells
<1>2. writePos' \in Cells /\ DataSize' = DataSize + Len(d)
  BY <1>1, SizeAfterPut
<1>3. Contents' = [i \in 1..DataSize + Len(d) |-> buffer'[(readPos + i - 1) % Capacity]]
  BY <1>2 DEF Contents
<1>4. Contents \in Seq(Bytes) /\ Len(Contents) = DataSize
      /\ \A i \in 1..DataSize : Contents[i] = buffer[(readPos + i - 1) % Capacity]
  BY ContentsType
<1>5. /\ Contents \o d \in Seq(Bytes) /\ Len(Contents \o d) = DataSize + Len(d)
      /\ \A i \in 1..DataSize + Len(d) :
           (Contents \o d)[i] = IF i <= DataSize THEN Contents[i] ELSE d[i - DataSize]
  BY <1>1, <1>4, ConcatProperties DEF Cells
<1>6. ASSUME NEW i \in 1..DataSize + Len(d)
      PROVE  buffer'[(readPos + i - 1) % Capacity] = (Contents \o d)[i]
  <2>1. CASE i <= DataSize
    <3>1. i \in 1..DataSize
      BY <1>1, <1>6, <2>1 DEF Cells
    <3>2. (Contents \o d)[i] = Contents[i]
      BY <1>5, <1>6, <2>1
    <3> QED BY <1>4, <3>1, <3>2
  <2>2. CASE i > DataSize
    <3> DEFINE j == i - DataSize
    <3>1. j \in 1..Len(d) /\ i = DataSize + j /\ ~(i <= DataSize)
      BY <1>1, <1>6, <2>2 DEF Cells
    <3> HIDE DEF j
    <3>2. i \in 1..DataSize' /\ readPos' \in Cells
      BY <1>1, <1>2, <1>6
    <3>3. (readPos + i - 1) % Capacity =
            IF readPos + i - 1 < Capacity THEN readPos + i - 1
                                          ELSE readPos + i - 1 - Capacity
      <4> DEFINE x == readPos + i - 1
      <4>1. x \in 0..2 * Capacity - 1
        BY <1>1, <3>1 DEF Cells
      <4> HIDE DEF x
      <4>2. x % Capacity = IF x < Capacity THEN x ELSE x - Capacity
        BY <4>1, Modulo
      <4> QED BY <1>1, <1>6, <4>2 DEF x, Cells
    <3>4. Advance(writePos, j - 1) =
            IF writePos + (j - 1) < Capacity THEN writePos + (j - 1)
                                             ELSE writePos + (j - 1) - Capacity
      <4>1. j - 1 \in 0..Capacity
        BY <1>1, <3>1 DEF Cells
      <4> QED BY <1>1, <4>1, AdvanceType
    <3>5. (readPos + i - 1) % Capacity = Advance(writePos, j - 1)
      BY <1>1, <3>1, <3>3, <3>4 DEF Cells, DataSize
    <3>6. buffer'[Advance(writePos, j - 1)] = d[j]
      BY <3>1
    <3>7. (Contents \o d)[i] = d[j]
      BY <1>5, <3>1 DEF j
    <3> QED BY <3>5, <3>6, <3>7
  <2>3. i <= DataSize \/ i > DataSize
    BY <1>1, <1>6 DEF Cells
  <2> QED BY <2>1, <2>2, <2>3
<1>7. Contents \o d \in [1..DataSize + Len(d) -> Bytes]
  BY <1>5, LenProperties
<1>8. Contents \o d = [i \in 1..DataSize + Len(d) |-> (Contents \o d)[i]]
  BY <1>7
<1> QED BY <1>2, <1>3, <1>6, <1>8

\* Dropping n bytes moves _readPos over the front of the queue.
LEMMA Taken ==
  ASSUME TypeOK, NEW n \in 0..DataSize,
         buffer' = buffer, writePos' = writePos, readPos' = Advance(readPos, n)
  PROVE  /\ readPos' \in Cells /\ DataSize' = DataSize - n
         /\ Contents' = SubSeq(Contents, n + 1, Len(Contents))
<1>1. /\ writePos \in Cells /\ readPos \in Cells /\ DataSize \in Cells
      /\ Capacity \in Nat \ {0} /\ n \in 0..Capacity
  BY RingAssumption DEF TypeOK, Cells
<1>2. readPos' \in Cells /\ DataSize' = DataSize - n
  BY <1>1, SizeAfterTake
<1>3. Contents' = [i \in 1..DataSize - n |-> buffer[(readPos' + i - 1) % Capacity]]
  BY <1>2 DEF Contents
<1>4. Contents \in Seq(Bytes) /\ Len(Contents) = DataSize
      /\ \A i \in 1..DataSize : Contents[i] = buffer[(readPos + i - 1) % Capacity]
  BY ContentsType
<1>5. SubSeq(Contents, n + 1, Len(Contents)) = [i \in 1..DataSize - n |-> Contents[n + i]]
  BY <1>1, <1>4 DEF Cells
<1>6. ASSUME NEW i \in 1..DataSize - n
      PROVE  buffer[(readPos' + i - 1) % Capacity] = Contents[n + i]
  <2>1. n + i \in 1..DataSize
    BY <1>1, <1>6 DEF Cells
  <2>2. readPos' = IF readPos + n < Capacity THEN readPos + n ELSE readPos + n - Capacity
    BY <1>1, AdvanceType
  <2>3. (readPos + (n + i) - 1) % Capacity =
          IF readPos + (n + i) - 1 < Capacity THEN readPos + (n + i) - 1
                                              ELSE readPos + (n + i) - 1 - Capacity
    BY <1>1, <2>1, CellOf
  <2>4. (readPos' + i - 1) % Capacity =
          IF readPos' + i - 1 < Capacity THEN readPos' + i - 1
                                         ELSE readPos' + i - 1 - Capacity
    <3> DEFINE x == readPos' + i - 1
    <3>1. x \in 0..2 * Capacity - 1
      BY <1>1, <1>2, <1>6 DEF Cells
    <3> HIDE DEF x
    <3>2. x % Capacity = IF x < Capacity THEN x ELSE x - Capacity
      BY <3>1, Modulo
    <3> QED BY <1>1, <1>2, <1>6, <3>2 DEF x, Cells
  <2>5. (readPos' + i - 1) % Capacity = (readPos + (n + i) - 1) % Capacity
    BY <1>1, <1>6, <2>2, <2>3, <2>4 DEF Cells
  <2> QED BY <1>4, <2>1, <2>5
<1> QED BY <1>2, <1>3, <1>5, <1>6

\* Copying from the front of the queue, split where the buffer ends.
LEMMA GatheredFront ==
  ASSUME TypeOK, NEW n \in 0..DataSize, NEW direct \in Nat, NEW size,
         readPos + direct <= Capacity,
         direct = Capacity - readPos \/ n <= direct
  PROVE  Gathered(Region(readPos, direct, size), n) = SubSeq(Contents, 1, n)
<1>1. /\ readPos \in Cells /\ writePos \in Cells /\ DataSize \in Cells
      /\ Capacity \in Nat \ {0} /\ n \in Nat
  BY RingAssumption DEF TypeOK, Cells
<1>2. Gathered(Region(readPos, direct, size), n) =
        [i \in 1..n |-> IF i <= direct THEN buffer[readPos + i - 1]
                                       ELSE buffer[i - direct - 1]]
  BY DEF Gathered, Region
<1>3. Contents \in Seq(Bytes) /\ Len(Contents) = DataSize
      /\ \A i \in 1..DataSize : Contents[i] = buffer[(readPos + i - 1) % Capacity]
  BY ContentsType
<1>4. SubSeq(Contents, 1, n) = [i \in 1..n |-> Contents[i]]
  BY <1>1, <1>3 DEF Cells
<1>5. ASSUME NEW i \in 1..n
      PROVE  Contents[i] = IF i <= direct THEN buffer[readPos + i - 1]
                                          ELSE buffer[i - direct - 1]
  <2>1. i \in 1..DataSize
    BY <1>1, <1>5 DEF Cells
  <2>2. (readPos + i - 1) % Capacity =
          IF readPos + i - 1 < Capacity THEN readPos + i - 1
                                        ELSE readPos + i - 1 - Capacity
    BY <1>1, <2>1, CellOf
  <2>3. (readPos + i - 1) % Capacity = IF i <= direct THEN readPos + i - 1
                                                      ELSE i - direct - 1
    BY <1>1, <1>5, <2>2 DEF Cells
  <2> QED BY <1>3, <2>1, <2>3
<1> QED BY <1>2, <1>4, <1>5

\* The front of the queue is untouched by what is appended.
LEMMA FrontOfAppended ==
  ASSUME TypeOK, NEW d \in Seq(Bytes), NEW n \in 0..DataSize
  PROVE  SubSeq(Contents \o d, 1, n) = SubSeq(Contents, 1, n)
<1>1. /\ DataSize \in Nat /\ n \in Nat
      /\ Contents \in Seq(Bytes) /\ Len(Contents) = DataSize
  BY ContentsType, RingAssumption DEF TypeOK, Cells
<1> Len(d) \in Nat
  BY LenProperties
<1>2. /\ Contents \o d \in Seq(Bytes) /\ Len(Contents \o d) = DataSize + Len(d)
      /\ \A i \in 1..DataSize + Len(d) :
           (Contents \o d)[i] = IF i <= DataSize THEN Contents[i] ELSE d[i - DataSize]
  BY <1>1, ConcatProperties
<1>3. SubSeq(Contents, 1, n) = [i \in 1..n |-> Contents[i]]
  BY <1>1
<1>4. SubSeq(Contents \o d, 1, n) = [i \in 1..n |-> (Contents \o d)[i]]
  BY <1>1, <1>2
<1>5. \A i \in 1..n : (Contents \o d)[i] = Contents[i]
  BY <1>1, <1>2
<1> QED BY <1>3, <1>4, <1>5

-----------------------------------------------------------------------------
(* What each operation does to the queue.                                   *)

\* The facts about the sizes that every step below uses.
LEMMA Basic ==
  ASSUME TypeOK
  PROVE  /\ readPos \in Cells /\ writePos \in Cells /\ 0 \in Cells
         /\ DataSize \in Cells /\ DataSize \in Nat
         /\ FreeSize = Capacity - 1 - DataSize /\ FreeSize \in Nat
         /\ Capacity \in Nat \ {0} /\ Cells = 0..Capacity - 1
BY Sizes, RingAssumption DEF TypeOK, Cells

\* Enqueue appends its data or changes nothing.
LEMMA EnqueueStep ==
  ASSUME TypeOK, NEW d \in Inputs, Enqueue(d)
  PROVE  /\ buffer' \in [Cells -> Bytes] /\ writePos' \in Cells
         /\ DataSize' = IF Len(d) <= FreeSize THEN DataSize + Len(d) ELSE DataSize
         /\ Contents' = IF Len(d) <= FreeSize THEN Contents \o d ELSE Contents
<1>1. d \in Seq(Bytes) /\ Len(d) \in 1..Capacity
  BY InputType
<1>2. CASE Len(d) <= FreeSize
  <2>1. /\ Len(d) \in 0..FreeSize /\ Capacity - writePos \in Nat
        /\ writePos + (Capacity - writePos) <= Capacity
    BY <1>1, <1>2, Basic
  <2>2. /\ buffer' = Filled(Region(writePos, Capacity - writePos, Capacity), d)
        /\ writePos' = Advance(writePos, Len(d)) /\ readPos' = readPos
    BY <1>2 DEF Enqueue, FromEnd
  <2>3. /\ buffer' \in [Cells -> Bytes]
        /\ \A i \in 1..DataSize :
             buffer'[(readPos + i - 1) % Capacity] = buffer[(readPos + i - 1) % Capacity]
        /\ \A i \in 1..Len(d) : buffer'[Advance(writePos, i - 1)] = d[i]
    BY <1>1, <2>1, <2>2, FilledBehind
  <2> QED BY <1>1, <1>2, <2>1, <2>2, <2>3, Appended
<1>3. CASE ~(Len(d) <= FreeSize)
  BY <1>3 DEF Enqueue, TypeOK, DataSize, Contents
<1> QED BY <1>2, <1>3

\* Consume and Dequeue drop the front of the queue or change nothing.
LEMMA TakeStep ==
  ASSUME TypeOK, NEW n \in 1..Capacity, UNCHANGED <<buffer, writePos>>,
         readPos' = IF n <= DataSize THEN Advance(readPos, n) ELSE readPos
  PROVE  /\ readPos' \in Cells
         /\ DataSize' = IF n <= DataSize THEN DataSize - n ELSE DataSize
         /\ Contents' = IF n <= DataSize THEN SubSeq(Contents, n + 1, Len(Contents))
                                         ELSE Contents
<1>1. CASE n <= DataSize
  <2>1. n \in 0..DataSize
    BY <1>1, Basic
  <2> QED BY <1>1, <2>1, Taken
<1>2. CASE ~(n <= DataSize)
  BY <1>2 DEF TypeOK, DataSize, Contents
<1> QED BY <1>1, <1>2

\* The kernel writes behind the queue and not into it.
LEMMA KernelStep ==
  ASSUME TypeOK, LentInv, queue = "_recvQ", NEW d \in Inputs, KernelWrites(d)
  PROVE  /\ lent # NotLent /\ Len(d) <= FreeSize /\ d \in Seq(Bytes)
         /\ buffer' \in [Cells -> Bytes]
         /\ DataSize' = DataSize /\ Contents' = Contents
         /\ \A i \in 1..Len(d) : buffer'[Advance(writePos, i - 1)] = d[i]
<1>1. d \in Seq(Bytes) /\ Len(d) \in 1..Capacity /\ Len(d) <= lent.size
  BY InputType DEF KernelWrites
<1>2. lent # NotLent
  BY <1>1, Basic DEF NotLent, Region
<1>3. /\ lent = Region(writePos, DirectWriteSize, FreeSize)
      /\ lent.size = FreeSize
  BY <1>2 DEF LentInv, Region
<1>4. /\ Len(d) \in 0..FreeSize /\ DirectWriteSize \in Nat
      /\ writePos + DirectWriteSize <= Capacity
      /\ DirectWriteSize = Capacity - writePos \/ Len(d) <= DirectWriteSize
  BY <1>1, <1>3, Basic, Sizes
<1>5. buffer' = Filled(Region(writePos, DirectWriteSize, FreeSize), d)
      /\ readPos' = readPos /\ writePos' = writePos
  BY <1>3 DEF KernelWrites
<1>6. /\ buffer' \in [Cells -> Bytes]
      /\ \A i \in 1..DataSize :
           buffer'[(readPos + i - 1) % Capacity] = buffer[(readPos + i - 1) % Capacity]
      /\ \A i \in 1..Len(d) : buffer'[Advance(writePos, i - 1)] = d[i]
  BY <1>1, <1>4, <1>5, FilledBehind
<1>7. DataSize' = DataSize
  BY <1>5 DEF DataSize
<1>8. Contents' = Contents
  BY <1>5, <1>6, <1>7 DEF Contents
<1> QED BY <1>1, <1>2, <1>3, <1>6, <1>7, <1>8

\* MoveWritePtr appends what the kernel wrote, all of it.
LEMMA MoveStep ==
  ASSUME IInv, queue = "_recvQ", MoveWritePtr
  PROVE  /\ writePos' \in Cells /\ Len(promised) <= FreeSize
         /\ DataSize' = DataSize + Len(promised)
         /\ Contents' = Contents \o promised
<1>1. promised \in Seq(Bytes) /\ promised # <<>> /\ Len(promised) \in Nat
  BY DEF IInv, TypeOK, MoveWritePtr
<1>2. lent # NotLent
  BY <1>1 DEF IInv, LentInv
<1>3. lent.size = FreeSize /\ Len(promised) <= lent.size
  BY <1>2 DEF IInv, LentInv, Region
<1>4. Len(promised) \in 0..FreeSize
  BY <1>1, <1>3, Basic DEF IInv
<1>5. /\ writePos' = Advance(writePos, Len(promised))
      /\ readPos' = readPos /\ buffer' = buffer
  BY <1>1, <1>3 DEF MoveWritePtr
<1>6. \A i \in 1..Len(promised) : buffer'[Advance(writePos, i - 1)] = promised[i]
  BY <1>5 DEF IInv, ReceivedInv
<1> QED BY <1>1, <1>3, <1>4, <1>5, <1>6, Appended DEF IInv, TypeOK

-----------------------------------------------------------------------------
(* The invariant.                                                           *)

LEMMA IInvInit == Init => IInv
<1> SUFFICES ASSUME Init PROVE IInv
  OBVIOUS
<1>1. 0 \in Cells /\ Capacity \in Nat \ {0}
  BY RingAssumption DEF Cells
<1>2. DataSize = 0
  BY <1>1 DEF Init, DataSize
<1>3. lent = NotLent /\ promised = <<>> /\ NotLent.size = 0
  BY DEF Init, NotLent, Region
<1>4. lent \in [at : Cells, direct : 0..Capacity, size : Cells]
  BY <1>1, <1>3 DEF NotLent, Region
<1>5. TypeOK
  BY <1>1, <1>2, <1>3, <1>4 DEF Init, TypeOK
<1>6. LentInv /\ PromiseInv /\ ReceivedInv
  BY <1>3 DEF LentInv, PromiseInv, ReceivedInv
<1> QED BY <1>5, <1>6 DEF IInv

\* Returning what was lent leaves only the types to show.
LEMMA NothingLent ==
  ASSUME IInv, queue' = queue, lent' = NotLent, promised' = <<>>,
         buffer' \in [Cells -> Bytes], readPos' \in Cells, writePos' \in Cells
  PROVE  IInv'
<1>1. 0 \in Cells /\ Capacity \in Nat \ {0} /\ NotLent.size = 0
  BY RingAssumption DEF Cells, NotLent, Region
<1>2. lent' \in [at : Cells, direct : 0..Capacity, size : Cells]
  BY <1>1 DEF NotLent, Region
<1>3. DataSize' \in Cells
  <2>1. DataSize' = IF writePos' >= readPos' THEN writePos' - readPos'
                                            ELSE Capacity - readPos' + writePos'
    BY DEF DataSize
  <2> DEFINE r == readPos'
             w == writePos'
  <2>2. r \in 0..Capacity - 1 /\ w \in 0..Capacity - 1
    BY DEF Cells
  <2> HIDE DEF r, w
  <2>3. (IF w >= r THEN w - r ELSE Capacity - r + w) \in 0..Capacity - 1
    BY <1>1, <2>2
  <2> QED BY <2>1, <2>3 DEF Cells, r, w
<1>4. TypeOK'
  BY <1>2, <1>3 DEF IInv, TypeOK
<1>5. LentInv' /\ PromiseInv' /\ ReceivedInv'
  BY <1>1 DEF LentInv, PromiseInv, ReceivedInv, NotLent
<1> QED BY <1>4, <1>5 DEF IInv

\* Every step preserves the invariant, one action after another.
LEMMA IInvStep == IInv /\ [Next]_vars => IInv'
<1> SUFFICES ASSUME IInv, [Next]_vars PROVE IInv'
  OBVIOUS
<1>0. TypeOK /\ LentInv /\ PromiseInv /\ ReceivedInv
  BY DEF IInv
<1>1. ASSUME queue = "_sendQ", queue' = queue, NEW d \in Inputs, Enqueue(d)
      PROVE  IInv'
  <2>1. /\ readPos' = readPos /\ lent' = lent /\ promised' = promised
    BY <1>1 DEF Enqueue
  <2>2. d \in Seq(Bytes) /\ Len(d) \in Nat
    BY <1>1, InputType, Basic, <1>0
  <2>3. /\ buffer' \in [Cells -> Bytes] /\ writePos' \in Cells
        /\ DataSize' = IF Len(d) <= FreeSize THEN DataSize + Len(d) ELSE DataSize
        /\ Contents' = IF Len(d) <= FreeSize THEN Contents \o d ELSE Contents
    BY <1>0, <1>1, EnqueueStep
  <2>4. DataSize' \in Cells /\ DataSize <= DataSize'
    BY <1>0, <2>2, <2>3, Basic
  <2>5. TypeOK'
    BY <1>0, <1>1, <2>1, <2>3, <2>4 DEF TypeOK
  <2>6. LentInv'
    BY <1>0, <1>1, <2>1, <2>4, Basic DEF LentInv
  <2>7. PromiseInv'
    <3> SUFFICES ASSUME lent # NotLent
                 PROVE  promised = SubSeq(Contents', 1, lent.size)
      BY <1>1, <2>1 DEF PromiseInv
    <3>1. lent.size \in 0..DataSize /\ promised = SubSeq(Contents, 1, lent.size)
      BY <1>0, <1>1, Basic DEF LentInv, PromiseInv
    <3> QED BY <1>0, <2>2, <2>3, <3>1, FrontOfAppended
  <2>8. ReceivedInv'
    BY <1>1 DEF ReceivedInv
  <2> QED BY <2>5, <2>6, <2>7, <2>8 DEF IInv
<1>2. ASSUME queue = "_sendQ", queue' = queue, GetSendInfo
      PROVE  IInv'
  <2>1. /\ lent' = Region(readPos, DirectReadSize, DataSize)
        /\ promised' = Peek(DataSize) /\ DataSize > 0
        /\ buffer' = buffer /\ readPos' = readPos /\ writePos' = writePos
    BY <1>2 DEF GetSendInfo
  <2>2. /\ lent'.at = readPos /\ lent'.direct = DirectReadSize /\ lent'.size = DataSize
        /\ DataSize' = DataSize /\ Contents' = Contents
    BY <2>1 DEF Region, DataSize, Contents
  <2>3. /\ DirectReadSize \in 0..DataSize /\ readPos + DirectReadSize <= Capacity
        /\ DirectReadSize < DataSize => DirectReadSize = Capacity - readPos
    BY <1>0, Basic, Sizes
  <2>4. promised' = SubSeq(Contents, 1, DataSize)
    <3>1. /\ DataSize \in 0..DataSize /\ Capacity - readPos \in Nat
          /\ readPos + (Capacity - readPos) <= Capacity
      BY <1>0, Basic
    <3>2. promised' = Gathered(Region(readPos, Capacity - readPos, Capacity), DataSize)
      BY <1>0, <2>1, <3>1, Basic DEF Peek, FromEnd
    <3> QED BY <1>0, <3>1, <3>2, GatheredFront
  <2>5. promised' \in Seq(Bytes)
    BY <1>0, <2>4, ContentsType, Basic
  <2>6. lent' \in [at : Cells, direct : 0..Capacity, size : Cells]
    BY <1>0, <2>1, <2>3, Basic DEF Region
  <2>7. TypeOK'
    BY <1>0, <1>2, <2>1, <2>2, <2>5, <2>6 DEF TypeOK
  <2>8. lent' # NotLent
    BY <1>0, <2>1, <2>2, Basic DEF NotLent, Region
  <2>9. LentInv'
    BY <1>0, <1>2, <2>1, <2>2, <2>3, <2>8, Basic DEF LentInv
  <2>10. PromiseInv' /\ ReceivedInv'
    BY <1>2, <2>2, <2>4 DEF PromiseInv, ReceivedInv
  <2> QED BY <2>7, <2>9, <2>10 DEF IInv
<1>3. ASSUME queue' = queue, NEW n \in 1..Capacity, Consume(n)
      PROVE  IInv'
  <2>1. readPos' \in Cells /\ writePos' \in Cells /\ buffer' \in [Cells -> Bytes]
    BY <1>0, <1>3, TakeStep DEF Consume, TypeOK
  <2> QED BY <1>3, <2>1, NothingLent DEF Consume
<1>4. ASSUME queue = "_recvQ", queue' = queue, PostRecv
      PROVE  IInv'
  <2>1. /\ lent' = Region(writePos, DirectWriteSize, FreeSize) /\ DirectWriteSize > 0
        /\ promised = <<>> /\ promised' = promised
        /\ buffer' = buffer /\ readPos' = readPos /\ writePos' = writePos
    BY <1>4 DEF PostRecv
  <2>2. /\ DataSize' = DataSize /\ FreeSize' = FreeSize
        /\ DirectWriteSize' = DirectWriteSize /\ lent'.size = FreeSize
    BY <2>1 DEF Region, DataSize, FreeSize, DirectWriteSize
  <2>3. DirectWriteSize \in 0..FreeSize /\ FreeSize \in Cells
    BY <1>0, Basic, Sizes
  <2>4. lent' \in [at : Cells, direct : 0..Capacity, size : Cells]
    BY <1>0, <2>1, <2>3, Basic DEF Region
  <2>5. TypeOK'
    BY <1>0, <1>4, <2>1, <2>2, <2>4 DEF TypeOK
  <2>6. LentInv'
    BY <1>0, <1>4, <2>1, <2>2, Basic DEF LentInv
  <2>7. PromiseInv' /\ ReceivedInv'
    BY <1>4, <2>1 DEF PromiseInv, ReceivedInv
  <2> QED BY <2>5, <2>6, <2>7 DEF IInv
<1>5. ASSUME queue = "_recvQ", queue' = queue, NEW d \in Inputs, KernelWrites(d)
      PROVE  IInv'
  <2>1. /\ promised' = d /\ readPos' = readPos /\ writePos' = writePos /\ lent' = lent
        /\ Len(d) <= lent.size
    BY <1>5 DEF KernelWrites
  <2>2. /\ lent # NotLent /\ d \in Seq(Bytes) /\ buffer' \in [Cells -> Bytes]
        /\ DataSize' = DataSize
        /\ \A i \in 1..Len(d) : buffer'[Advance(writePos, i - 1)] = d[i]
    BY <1>0, <1>5, KernelStep
  <2>3. FreeSize' = FreeSize /\ DirectWriteSize' = DirectWriteSize
    BY <2>1 DEF DataSize, FreeSize, DirectWriteSize
  <2>4. TypeOK'
    BY <1>0, <1>5, <2>1, <2>2 DEF TypeOK
  <2>5. LentInv'
    BY <1>0, <1>5, <2>1, <2>2, <2>3 DEF LentInv
  <2>6. PromiseInv' /\ ReceivedInv'
    BY <1>5, <2>1, <2>2 DEF PromiseInv, ReceivedInv, Advance
  <2> QED BY <2>4, <2>5, <2>6 DEF IInv
<1>6. ASSUME queue = "_recvQ", queue' = queue, MoveWritePtr
      PROVE  IInv'
  <2>1. readPos' \in Cells /\ writePos' \in Cells /\ buffer' \in [Cells -> Bytes]
    BY <1>0, <1>6, MoveStep DEF MoveWritePtr, TypeOK
  <2> QED BY <1>6, <2>1, NothingLent DEF MoveWritePtr
<1>7. ASSUME queue' = queue, lent = NotLent, NEW n \in 1..Capacity, Dequeue(n)
      PROVE  IInv'
  <2>1. readPos' \in Cells /\ writePos' \in Cells /\ buffer' \in [Cells -> Bytes]
    BY <1>0, <1>7, TakeStep DEF Dequeue, TypeOK
  <2>2. lent' = NotLent /\ promised' = <<>>
    BY <1>0, <1>7 DEF Dequeue, LentInv
  <2> QED BY <1>7, <2>1, <2>2, NothingLent
<1>8. ASSUME queue' = queue, Clear
      PROVE  IInv'
  <2>1. readPos' \in Cells /\ writePos' \in Cells /\ buffer' \in [Cells -> Bytes]
    BY <1>0, <1>8, Basic DEF Clear, TypeOK
  <2> QED BY <1>8, <2>1, NothingLent DEF Clear
<1>9. ASSUME UNCHANGED vars
      PROVE  IInv'
  BY <1>9 DEF vars, IInv, TypeOK, LentInv, PromiseInv, ReceivedInv, Contents, DataSize,
              FreeSize, DirectWriteSize
<1> QED
  BY <1>1, <1>2, <1>3, <1>4, <1>5, <1>6, <1>7, <1>8, <1>9 DEF Next, SendNext, RecvNext

LEMMA Invariance == Spec => []IInv
BY IInvInit, IInvStep, PTL DEF Spec

-----------------------------------------------------------------------------
(* Theorems.                                                                *)

\* Types: positions never leave the buffer, whatever it is asked to do.
THEOREM TypeCorrect == Spec => []TypeOK
BY Invariance, PTL DEF IInv

\* The defensive branch of PostSend is dead: a queue with data always has a
\* first segment to send.
THEOREM DefensiveDead == Spec => []DefensiveBranchDead
<1>1. IInv => DefensiveBranchDead
  <2> SUFFICES ASSUME TypeOK PROVE DefensiveBranchDead
    BY DEF IInv
  <2> QED BY Sizes, Basic DEF DefensiveBranchDead
<1> QED BY <1>1, Invariance, PTL

\* PostRecv lends every free cell, and none of the cells of unread data.
THEOREM FreeCellsLent == Spec => []LendsFreeCellsOnly
<1>1. IInv => LendsFreeCellsOnly
  <2> SUFFICES ASSUME TypeOK PROVE LendsFreeCellsOnly
    BY DEF IInv
  <2> QED BY Sizes, Basic DEF LendsFreeCellsOnly
<1> QED BY <1>1, Invariance, PTL

\* ProcessRecv never finds that the bytes of a completion do not fit.
THEOREM NoRecvOverflow == Spec => []ReceivedFits
<1>1. IInv => ReceivedFits
  <2> SUFFICES ASSUME IInv, queue = "_recvQ"
               PROVE  Len(promised) <= FreeSize /\ lent.size <= FreeSize
    BY DEF ReceivedFits
  <2>1. FreeSize \in Nat /\ promised \in Seq(Bytes) /\ Len(promised) \in Nat
    BY Basic DEF IInv, TypeOK
  <2>2. CASE lent = NotLent
    BY <2>1, <2>2 DEF IInv, LentInv, NotLent, Region
  <2>3. CASE lent # NotLent
    BY <2>1, <2>3 DEF IInv, LentInv, Region
  <2> QED BY <2>2, <2>3
<1> QED BY <1>1, Invariance, PTL

\* Peek, which copies in two parts, returns the front of the queue.
THEOREM PeekCorrect == Spec => []PeekReturnsFront
<1>1. IInv => PeekReturnsFront
  <2> SUFFICES ASSUME TypeOK, NEW n \in 1..Capacity
               PROVE  Peek(n) = IF n <= DataSize THEN SubSeq(Contents, 1, n) ELSE <<>>
    BY DEF IInv, PeekReturnsFront
  <2>1. CASE n <= DataSize
    <3>1. /\ n \in 0..DataSize /\ Capacity - readPos \in Nat
          /\ readPos + (Capacity - readPos) <= Capacity
      BY <2>1, Basic
    <3>2. Gathered(Region(readPos, Capacity - readPos, Capacity), n) = SubSeq(Contents, 1, n)
      BY <3>1, GatheredFront
    <3> QED BY <2>1, <3>2 DEF Peek, FromEnd
  <2>2. CASE ~(n <= DataSize)
    BY <2>2 DEF Peek
  <2> QED BY <2>1, <2>2
<1> QED BY <1>1, Invariance, PTL

\* What the kernel reads of the cells it was lent is what GetSendInfo saw, and
\* is still the front of the queue, whatever was enqueued in the meantime.
THEOREM LentStays == Spec => []LentBytesStay
<1>1. IInv => LentBytesStay
  <2> SUFFICES ASSUME IInv, queue = "_sendQ", lent.size > 0
               PROVE  /\ Gathered(lent, lent.size) = promised
                      /\ lent.size <= DataSize
                      /\ SubSeq(Contents, 1, lent.size) = promised
    BY DEF LentBytesStay
  <2>1. lent # NotLent
    BY DEF NotLent, Region
  <2>2. /\ lent.at = readPos /\ lent.size \in 1..DataSize
        /\ promised = SubSeq(Contents, 1, lent.size)
    BY <2>1 DEF IInv, LentInv, PromiseInv
  <2>3. /\ lent.size \in 0..DataSize /\ lent.direct \in Nat
        /\ readPos + lent.direct <= Capacity
        /\ lent.direct = Capacity - readPos \/ lent.size <= lent.direct
    BY <2>1, <2>2, Basic DEF IInv, TypeOK, LentInv
  <2>4. Gathered(Region(readPos, lent.direct, lent.size), lent.size) =
          SubSeq(Contents, 1, lent.size)
    BY <2>3, GatheredFront DEF IInv
  <2>5. Gathered(lent, lent.size) =
          Gathered(Region(readPos, lent.direct, lent.size), lent.size)
    BY <2>2 DEF Gathered, Region
  <2> QED BY <2>2, <2>4, <2>5, Basic DEF IInv
<1> QED BY <1>1, Invariance, PTL

\* A message is queued whole or not at all.
THEOREM AllOrNothing == Spec => EnqueueAddsAllOrNothing
<1>1. IInv => [\A d \in Inputs : queue = "_sendQ" /\ Enqueue(d) =>
                 Contents' = IF Len(Contents) + Len(d) < Capacity
                             THEN Contents \o d ELSE Contents]_vars
  <2> SUFFICES ASSUME TypeOK, NEW d \in Inputs, Enqueue(d)
               PROVE  Contents' = IF Len(Contents) + Len(d) < Capacity
                                  THEN Contents \o d ELSE Contents
    BY DEF IInv
  <2>1. Len(Contents) + Len(d) < Capacity <=> Len(d) <= FreeSize
    BY ContentsType, InputType, Basic
  <2> QED BY <2>1, EnqueueStep
<1> QED BY <1>1, Invariance, PTL DEF EnqueueAddsAllOrNothing

\* The bytes the kernel wrote join the queue in the order they arrived.
THEOREM ReceivesAll == Spec => ReceivesWhatArrived
<1>1. IInv => [queue = "_recvQ" /\ MoveWritePtr => Contents' = Contents \o promised]_vars
  BY MoveStep
<1> QED BY <1>1, Invariance, PTL DEF ReceivesWhatArrived

\* A longer queue with the same front is a Put.
LEMMA AppendIsPut ==
  ASSUME TypeOK, NEW d \in Seq(Bytes), Len(d) <= FreeSize, Contents' = Contents \o d
  PROVE  Fifo!Put
<1>1. Len(d) \in Nat /\ Contents \in Seq(Bytes) /\ Len(Contents) = DataSize
  BY LenProperties, ContentsType
<1>2. /\ Contents \o d \in Seq(Bytes) /\ Len(Contents \o d) = DataSize + Len(d)
      /\ \A i \in 1..DataSize + Len(d) :
           (Contents \o d)[i] = IF i <= DataSize THEN Contents[i] ELSE d[i - DataSize]
  BY <1>1, ConcatProperties
<1>3. Len(Contents') \in Len(Contents)..Capacity - 1
  BY <1>1, <1>2, Basic
<1>4. \A i \in 1..Len(Contents) : Contents'[i] = Contents[i]
  BY <1>1, <1>2, Basic
<1> QED BY <1>2, <1>3, <1>4 DEF Fifo!Put

\* Segments and sizes, for every capacity.
THEOREM SegmentsCorrect == Spec => []SegmentsFit
BY DefensiveDead, FreeCellsLent, NoRecvOverflow, PTL DEF SegmentsFit

\* What joins the queue, for every capacity.
THEOREM AddsCorrect == Spec => AddsWhatItWasGiven
BY AllOrNothing, ReceivesAll DEF AddsWhatItWasGiven

\* The ring buffer is a bounded FIFO: every operation is one of its steps or
\* none.
THEOREM Refinement == Spec => ImplementsFifo
<1>1. Init => Fifo!Init
  <2> SUFFICES ASSUME Init PROVE Contents = <<>>
    BY DEF Fifo!Init
  <2>1. TypeOK /\ DataSize = 0
    BY IInvInit, RingAssumption DEF IInv, Init, DataSize
  <2> QED BY <2>1, ContentsType, EmptySeq
<1>2. IInv /\ [Next]_vars => [Fifo!Next]_Contents
  <2> SUFFICES ASSUME IInv, [Next]_vars, Contents' # Contents
               PROVE  Fifo!Next
    OBVIOUS
  <2>0. TypeOK /\ Contents \in Seq(Bytes) /\ Len(Contents) = DataSize
    BY ContentsType DEF IInv
  <2>1. ASSUME NEW d \in Inputs, Enqueue(d) PROVE Fifo!Next
    <3>1. d \in Seq(Bytes) /\ Len(d) <= FreeSize /\ Contents' = Contents \o d
      BY <2>0, <2>1, InputType, EnqueueStep
    <3> QED BY <2>0, <3>1, AppendIsPut DEF Fifo!Next
  <2>2. ASSUME NEW n \in 1..Capacity, UNCHANGED <<buffer, writePos>>,
               readPos' = IF n <= DataSize THEN Advance(readPos, n) ELSE readPos
        PROVE  Fifo!Next
    <3>1. n <= DataSize /\ Contents' = SubSeq(Contents, n + 1, Len(Contents))
      BY <2>0, <2>2, TakeStep
    <3>2. n \in 1..Len(Contents)
      BY <2>0, <3>1, Basic
    <3> QED BY <3>1, <3>2 DEF Fifo!Next, Fifo!Take
  <2>3. ASSUME NEW n \in 1..Capacity, Consume(n) \/ Dequeue(n) PROVE Fifo!Next
    BY <2>2, <2>3 DEF Consume, Dequeue
  <2>4. ASSUME GetSendInfo \/ PostRecv \/ UNCHANGED vars PROVE FALSE
    BY <2>4 DEF GetSendInfo, PostRecv, vars, Contents, DataSize
  <2>5. ASSUME queue = "_recvQ", NEW d \in Inputs, KernelWrites(d) PROVE FALSE
    BY <2>5, KernelStep DEF IInv
  <2>6. ASSUME queue = "_recvQ", MoveWritePtr PROVE Fifo!Next
    <3>1. /\ promised \in Seq(Bytes) /\ Len(promised) <= FreeSize
          /\ Contents' = Contents \o promised
      BY <2>0, <2>6, MoveStep DEF TypeOK
    <3> QED BY <2>0, <3>1, AppendIsPut DEF Fifo!Next
  <2>7. ASSUME Clear PROVE Fifo!Next
    <3>1. DataSize' = 0
      BY <2>7, RingAssumption DEF Clear, DataSize
    <3>2. Contents' = <<>>
      BY <3>1 DEF Contents
    <3> QED BY <3>2 DEF Fifo!Next, Fifo!Empty
  <2> QED BY <2>1, <2>3, <2>4, <2>5, <2>6, <2>7 DEF Next, SendNext, RecvNext
<1> QED BY <1>1, <1>2, Invariance, PTL DEF Spec, Fifo!Spec, ImplementsFifo
=============================================================================

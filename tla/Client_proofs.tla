--------------------------- MODULE Client_proofs ---------------------------
(***************************************************************************)
(* Proofs about Client, for any number of requests.                        *)
(***************************************************************************)
EXTENDS Client, SequenceTheorems, TLAPS

-----------------------------------------------------------------------------
(* The inductive invariant.                                                 *)

\* The receive thread and the std::thread that stands for it.  While nobody
\* has begun to disconnect, it only stops because the connection ended.
ThreadInv ==
  /\ main \in {"menu", "port", "connect"} => ~joinable /\ thread = "none"
  /\ joinable => thread # "none"
  /\ ~joinable => thread \in {"none", "exited"}
  /\ joinable /\ ~lost /\ main \in {"loop", "lobby", "room", "creating", "shutdown"}
       => connected /\ netRunning /\ thread \in {"test", "recv", "handle"}
  /\ main = "destroy" /\ joinable => lost
  /\ ConnectedAbortsOnlyWhenLost

\* What is on its way: the request to create a room, and its answer, name the
\* room whose title is pending; the room somebody joins is another's.
Asked(r) ==
  /\ r.type = "CREATE" => r.room \in Rooms /\ (overlapped \/ r.room = pendingTitle)
  /\ r.type = "JOIN"   => r.room = 0
Answered(p) ==
  /\ p.msg.type = "CREATED" => p.msg.room \in Rooms /\ (overlapped \/ p.msg.room = pendingTitle)
  /\ p.msg.type = "JOINED"  => p.msg.room = 0

WireInv ==
  /\ \A r \in Range(toServer) : Asked(r)
  /\ \A p \in Range(toClient) \cup Range(chunk) : Answered(p)
  /\ main = "creating" /\ ~overlapped => ~CreateUnanswered
  /\ TitleOfItsOwnRoom

\* Nothing was sent before Connect, and the receive thread has a buffer to handle
\* only after recv.
StartInv ==
  /\ main \in {"menu", "port", "connect"} =>
       thread = "none" /\ ~connected /\ toServer = <<>> /\ toClient = <<>>
  /\ thread # "handle" => chunk = <<>>

\* The room a player is in after a reply that changes it.
Outcome(p) == IF p.msg.type = "LEFT" THEN NoRoom ELSE p.msg.room

\* No reply in s changes the room; the i-th part of s is the last that does.
Silent(s) == \A i \in 1..Len(s) : ~Matters(s[i])
LastWord(s, i) ==
  /\ i \in 1..Len(s) /\ Matters(s[i])
  /\ \A j \in 1..Len(s) : j > i => ~Matters(s[j])

\* The last word on the room, in what is on its way, then in the buffer, then
\* in what the client believes, is the server's.
TruthInv ==
  peerUp /\ ~missed /\ ~misread =>
    /\ \A i \in 1..Len(toClient) : LastWord(toClient, i) => Outcome(toClient[i]) = srvRoom
    /\ Silent(toClient) =>
         /\ \A i \in 1..Len(chunk) : LastWord(chunk, i) => Outcome(chunk[i]) = srvRoom
         /\ Silent(chunk) => roomId = srvRoom

\* t ends with a reply after which the player is in room; t is s without a new
\* word on the room.
NewWord(t, room) ==
  ~Silent(t) /\ \A i \in 1..Len(t) : LastWord(t, i) => Outcome(t[i]) = room
SameWord(s, t) ==
  /\ Silent(t) => Silent(s)
  /\ \A i \in 1..Len(t) :
       LastWord(t, i) => i \in 1..Len(s) /\ LastWord(s, i) /\ t[i] = s[i]

IInv == TypeOK /\ ThreadInv /\ WireInv /\ StartInv /\ TruthInv

Request == [type : {"LIST", "CREATE", "JOIN", "LEAVE"}, room : Rooms \cup {NoRoom}]

-----------------------------------------------------------------------------
(* What the sequences of messages hold after each kind of change.           *)

\* send appends one request.
LEMMA Appended ==
  ASSUME NEW S, NEW s \in Seq(S), NEW e \in S
  PROVE  Append(s, e) \in Seq(S) /\ Range(Append(s, e)) = Range(s) \cup {e}
<1>1. Append(s, e) = s \o <<e>> /\ Append(s, e) \in Seq(S)
  BY AppendIsConcat, AppendProperties
<1>2. <<e>> \in Seq(S) /\ Range(<<e>>) = {e}
  <2>1. <<e>> \in Seq(S)
    OBVIOUS
  <2>2. DOMAIN <<e>> = {1} /\ <<e>>[1] = e
    OBVIOUS
  <2> QED BY <2>1, <2>2 DEF Range
<1>3. Range(s \o <<e>>) = Range(s) \cup Range(<<e>>)
  BY <1>2, RangeConcatenation
<1> QED BY <1>1, <1>2, <1>3

\* recv takes the front of what has arrived.
LEMMA Cut ==
  ASSUME NEW S, NEW s \in Seq(S), NEW m \in 1..Len(s)+1, NEW n \in 0..Len(s)
  PROVE  SubSeq(s, m, n) \in Seq(S) /\ Range(SubSeq(s, m, n)) \subseteq Range(s)
<1> DEFINE t == SubSeq(s, m, n)
<1>1. Len(s) \in Nat /\ \A i \in 1..Len(s) : s[i] \in S
  BY LenProperties, ElementOfSeq
<1>2. /\ t \in Seq(S) /\ Len(t) = IF m <= n THEN n-m+1 ELSE 0
      /\ \A i \in 1..n-m+1 : t[i] = s[m+i-1]
  BY <1>1, SubSeqProperties, Z3
<1>3. Range(t) = {t[i] : i \in 1..Len(t)} /\ Range(s) = {s[i] : i \in 1..Len(s)}
  BY <1>2, RangeEquality
<1> HIDE DEF t
<1>4. ASSUME NEW i \in 1..Len(t) PROVE t[i] \in Range(s)
  <2>1. m + i - 1 \in 1..Len(s) /\ i \in 1..n-m+1
    BY <1>1, <1>2
  <2> QED BY <1>2, <1>3, <2>1
<1> QED BY <1>2, <1>3, <1>4 DEF t

\* A reply is two parts of one message.
LEMMA SentParts ==
  ASSUME NEW type \in {"LIST", "CREATED", "JOINED", "LEFT", "ERROR"},
         NEW room \in Rooms \cup {NoRoom}, NEW ok \in BOOLEAN
  PROVE  /\ Sent(type, room, ok) \in Seq(Parts)
         /\ \A p \in Range(Sent(type, room, ok)) : p.msg.type = type /\ p.msg.room = room
<1> DEFINE m == [type |-> type, room |-> room, ok |-> ok]
           a == [msg |-> m, first |-> TRUE]
           b == [msg |-> m, first |-> FALSE]
<1>1. Sent(type, room, ok) = <<a, b>>
  BY DEF Sent
<1>2. m \in Replies /\ m.type = type /\ m.room = room
  BY DEF Replies
<1> HIDE DEF m
<1>3. a \in Parts /\ b \in Parts /\ a.msg = m /\ b.msg = m
  BY <1>2 DEF Parts
<1> HIDE DEF a, b
<1>4. <<a, b>> \in Seq(Parts) /\ Range(<<a, b>>) = {a, b}
  BY <1>3 DEF Range
<1> QED BY <1>1, <1>2, <1>3, <1>4
-----------------------------------------------------------------------------
(* The two operations on the wire that move messages.                       *)

\* A reply that is appended carries what it was sent with.
LEMMA ReplyParts ==
  ASSUME NEW s \in Seq(Parts), NEW type \in {"LIST", "CREATED", "JOINED", "LEFT", "ERROR"},
         NEW room \in Rooms \cup {NoRoom}, NEW ok \in BOOLEAN
  PROVE  /\ s \o Sent(type, room, ok) \in Seq(Parts)
         /\ \A p \in Range(s \o Sent(type, room, ok)) :
              p \in Range(s) \/ (p.msg.type = type /\ p.msg.room = room)
<1> DEFINE sent == Sent(type, room, ok)
<1>1. sent \in Seq(Parts) /\ \A p \in Range(sent) : p.msg.type = type /\ p.msg.room = room
  BY SentParts
<1> HIDE DEF sent
<1>2. s \o sent \in Seq(Parts) /\ Range(s \o sent) = Range(s) \cup Range(sent)
  BY <1>1, ConcatProperties, RangeConcatenation
<1> QED BY <1>1, <1>2 DEF sent

\* A refusal is the reply that names what was asked, and an error message.
LEMMA RefusalParts ==
  ASSUME NEW s \in Seq(Parts), NEW type \in {"LIST", "CREATED", "JOINED", "LEFT", "ERROR"},
         NEW room \in Rooms \cup {NoRoom}, NEW no \in BOOLEAN, NEW yes \in BOOLEAN
  PROVE  /\ s \o (Sent(type, room, no) \o Sent("ERROR", NoRoom, yes)) \in Seq(Parts)
         /\ \A p \in Range(s \o (Sent(type, room, no) \o Sent("ERROR", NoRoom, yes))) :
              p \in Range(s) \/ (p.msg.type = type /\ p.msg.room = room) \/ p.msg.type = "ERROR"
<1> DEFINE a == Sent(type, room, no)
           b == Sent("ERROR", NoRoom, yes)
<1>1. a \in Seq(Parts) /\ \A p \in Range(a) : p.msg.type = type /\ p.msg.room = room
  BY SentParts
<1>2. b \in Seq(Parts) /\ \A p \in Range(b) : p.msg.type = "ERROR"
  <2>1. /\ "ERROR" \in {"LIST", "CREATED", "JOINED", "LEFT", "ERROR"}
        /\ NoRoom \in Rooms \cup {NoRoom}
    OBVIOUS
  <2> QED BY <2>1, SentParts, Zenon
<1> HIDE DEF a, b
<1>3. a \o b \in Seq(Parts) /\ Range(a \o b) = Range(a) \cup Range(b)
  BY <1>1, <1>2, ConcatProperties, RangeConcatenation
<1> DEFINE c == a \o b
<1> HIDE DEF c
<1>4. s \o c \in Seq(Parts) /\ Range(s \o c) = Range(s) \cup Range(c)
  <2>1. c \in Seq(Parts)
    BY <1>3 DEF c
  <2> QED BY <2>1, ConcatProperties, RangeConcatenation
<1>5. \A p \in Range(s \o (a \o b)) :
        p \in Range(s) \/ (p.msg.type = type /\ p.msg.room = room) \/ p.msg.type = "ERROR"
  BY <1>1, <1>2, <1>3, <1>4 DEF c
<1> QED BY <1>4, <1>5 DEF a, b, c

\* A request is answered by what it asked for.
Answers(r, p) ==
  /\ p.msg.type = "CREATED" => r.type = "CREATE" /\ p.msg.room = r.room
  /\ p.msg.type = "JOINED"  => r.type = "JOIN" /\ p.msg.room = r.room

\* The server takes the first request and answers it.
LEMMA ServeOne ==
  ASSUME TypeOK, WireInv, Serve
  PROVE  \E r \in Range(toServer) :
           /\ toServer' \in Seq(Request) /\ Range(toServer') \subseteq Range(toServer)
           /\ toClient' \in Seq(Parts) /\ srvRoom' \in Rooms \cup {NoRoom}
           /\ \A p \in Range(toClient') : p \in Range(toClient) \/ Answers(r, p)
<1> DEFINE r == Head(toServer)
<1>1. toServer \in Seq(Request) /\ toServer # <<>> /\ toServer' = Tail(toServer)
  BY DEF TypeOK, Request, Serve
<1>2. Len(toServer) \in Nat \ {0} /\ r = toServer[1] /\ r \in Request
  BY <1>1, LenProperties, HeadTailProperties, EmptySeq
<1>3. r \in Range(toServer)
  BY <1>1, <1>2, RangeEquality
<1>4. toServer' \in Seq(Request) /\ Range(toServer') \subseteq Range(toServer)
  <2>1. Tail(toServer) = SubSeq(toServer, 2, Len(toServer))
    BY <1>1, TailIsSubSeq
  <2>2. 2 \in 1..Len(toServer)+1 /\ Len(toServer) \in 0..Len(toServer)
    BY <1>2
  <2> QED BY <1>1, <2>1, <2>2, Cut
<1>5. PICK room \in Rooms \cup {NoRoom} : room = r.room
  BY <1>2 DEF Request
<1>6. toClient \in Seq(Parts) /\ srvRoom \in Rooms \cup {NoRoom}
  BY DEF TypeOK
<1> DEFINE Good == /\ toClient' \in Seq(Parts) /\ srvRoom' \in Rooms \cup {NoRoom}
                   /\ \A p \in Range(toClient') : p \in Range(toClient) \/ Answers(r, p)
<1> HIDE DEF r
<1>7. ASSUME r.type = "LIST" /\ toClient' = toClient \o Sent("LIST", NoRoom, TRUE) /\ srvRoom' = srvRoom
      PROVE  Good
  BY <1>5, <1>6, <1>7, ReplyParts DEF Answers
<1>8. ASSUME r.type = "CREATE" /\ toClient' = toClient \o Sent("CREATED", room, TRUE) /\ srvRoom' = room
      PROVE  Good
  <2>1. /\ toClient \o Sent("CREATED", room, TRUE) \in Seq(Parts)
        /\ \A p \in Range(toClient \o Sent("CREATED", room, TRUE)) :
             p \in Range(toClient) \/ (p.msg.type = "CREATED" /\ p.msg.room = room)
    BY <1>6, ReplyParts, Zenon
  <2> QED BY <1>5, <1>8, <2>1 DEF Answers
<1>9. ASSUME r.type = "JOIN" /\ toClient' = toClient \o Sent("JOINED", room, TRUE) /\ srvRoom' = room
      PROVE  Good
  <2>1. /\ toClient \o Sent("JOINED", room, TRUE) \in Seq(Parts)
        /\ \A p \in Range(toClient \o Sent("JOINED", room, TRUE)) :
             p \in Range(toClient) \/ (p.msg.type = "JOINED" /\ p.msg.room = room)
    BY <1>6, ReplyParts, Zenon
  <2> QED BY <1>5, <1>9, <2>1 DEF Answers
<1>10. ASSUME r.type = "CREATE" /\ srvRoom' = srvRoom,
              toClient' = toClient \o (Sent("CREATED", room, FALSE) \o Sent("ERROR", NoRoom, TRUE))
       PROVE  Good
  <2> DEFINE refusal == Sent("CREATED", room, FALSE) \o Sent("ERROR", NoRoom, TRUE)
  <2>1. FALSE \in BOOLEAN /\ TRUE \in BOOLEAN
    OBVIOUS
  <2>2. /\ toClient \o refusal \in Seq(Parts)
        /\ \A p \in Range(toClient \o refusal) :
             p \in Range(toClient) \/ (p.msg.type = "CREATED" /\ p.msg.room = room)
               \/ p.msg.type = "ERROR"
    BY <1>6, <2>1, RefusalParts, Zenon
  <2> HIDE DEF refusal
  <2>3. toClient' = toClient \o refusal
    BY <1>10 DEF refusal
  <2> QED BY <1>5, <1>6, <1>10, <2>2, <2>3 DEF Answers
<1>11. ASSUME r.type = "JOIN" /\ srvRoom' = srvRoom,
              toClient' = toClient \o (Sent("JOINED", room, FALSE) \o Sent("ERROR", NoRoom, TRUE))
       PROVE  Good
  <2> DEFINE refusal == Sent("JOINED", room, FALSE) \o Sent("ERROR", NoRoom, TRUE)
  <2>1. FALSE \in BOOLEAN /\ TRUE \in BOOLEAN
    OBVIOUS
  <2>2. /\ toClient \o refusal \in Seq(Parts)
        /\ \A p \in Range(toClient \o refusal) :
             p \in Range(toClient) \/ (p.msg.type = "JOINED" /\ p.msg.room = room)
               \/ p.msg.type = "ERROR"
    BY <1>6, <2>1, RefusalParts, Zenon
  <2> HIDE DEF refusal
  <2>3. toClient' = toClient \o refusal
    BY <1>11 DEF refusal
  <2> QED BY <1>5, <1>6, <1>11, <2>2, <2>3 DEF Answers
<1>12. ASSUME r.type = "LEAVE" /\ srvRoom' = NoRoom
              /\ toClient' = toClient \o Sent("LEFT", NoRoom, srvRoom # NoRoom)
       PROVE  Good
  <2>1. PICK left \in BOOLEAN : left = (srvRoom # NoRoom)
    OBVIOUS
  <2> DEFINE sent == Sent("LEFT", NoRoom, left)
  <2>2. sent \in Seq(Parts) /\ \A p \in Range(sent) : p.msg.type = "LEFT"
    BY SentParts
  <2>3. toClient' = toClient \o sent /\ srvRoom' = NoRoom
    BY <1>12, <2>1, ZenonT(60)
  <2> HIDE DEF sent
  <2>4. toClient \o sent \in Seq(Parts) /\ Range(toClient \o sent) = Range(toClient) \cup Range(sent)
    BY <1>6, <2>2, ConcatProperties, RangeConcatenation
  <2> QED BY <1>12, <2>2, <2>3, <2>4 DEF Answers
<1>13. Good
  <2>1. \/ r.type = "LIST" /\ toClient' = toClient \o Sent("LIST", NoRoom, TRUE) /\ srvRoom' = srvRoom
        \/ r.type = "CREATE" /\ toClient' = toClient \o Sent("CREATED", room, TRUE) /\ srvRoom' = room
        \/ r.type = "JOIN" /\ toClient' = toClient \o Sent("JOINED", room, TRUE) /\ srvRoom' = room
        \/ /\ r.type = "CREATE" /\ srvRoom' = srvRoom
           /\ toClient' = toClient \o (Sent("CREATED", room, FALSE) \o Sent("ERROR", NoRoom, TRUE))
        \/ /\ r.type = "JOIN" /\ srvRoom' = srvRoom
           /\ toClient' = toClient \o (Sent("JOINED", room, FALSE) \o Sent("ERROR", NoRoom, TRUE))
        \/ /\ r.type = "LEAVE" /\ srvRoom' = NoRoom
           /\ toClient' = toClient \o Sent("LEFT", NoRoom, srvRoom # NoRoom)
    BY <1>5, Zenon DEF Serve, r
  <2> QED BY <1>7, <1>8, <1>9, <1>10, <1>11, <1>12, <2>1
<1> QED BY <1>3, <1>4, <1>13

\* recv moves some of what has arrived into the buffer.
LEMMA RecvCuts ==
  ASSUME TypeOK, Recv
  PROVE  /\ chunk' \in Seq(Parts) /\ toClient' \in Seq(Parts)
         /\ Range(chunk') \cup Range(toClient') \subseteq Range(toClient)
<1>1. PICK n \in 1..Len(toClient) : /\ chunk' = SubSeq(toClient, 1, n)
                                   /\ toClient' = SubSeq(toClient, n + 1, Len(toClient))
  BY DEF Recv
<1>2. toClient \in Seq(Parts) /\ Len(toClient) \in Nat
  BY LenProperties DEF TypeOK
<1>3. /\ 1 \in 1..Len(toClient)+1 /\ n \in 0..Len(toClient)
      /\ n + 1 \in 1..Len(toClient)+1 /\ Len(toClient) \in 0..Len(toClient)
  BY <1>1, <1>2
<1> QED BY <1>1, <1>2, <1>3, Cut

\* A message that HandleServerMessage sees in full is one that has arrived.
LEMMA WholeArrived ==
  ASSUME TypeOK, Whole
  PROVE  chunk[1] \in Range(chunk) /\ chunk[1] \in Parts
<1>1. Len(chunk) >= 2 /\ chunk \in Seq(Parts)
  BY DEF Whole, TypeOK
<1>2. 1 \in 1..Len(chunk)
  BY <1>1, LenProperties
<1> QED BY <1>1, <1>2, RangeEquality, ElementOfSeq

-----------------------------------------------------------------------------
(* Each part of the invariant is kept.                                      *)

\* Nobody runs or is waited for before Connect, and nothing was asked.
LEMMA InitInv == Init => IInv
<1> SUFFICES ASSUME Init PROVE IInv
  OBVIOUS
<1>1. TypeOK
  <2>1. 0 \in Rooms
    BY ClientAssumption DEF Rooms
  <2>2. chunk \in Seq(Parts) /\ toClient \in Seq(Parts) /\ toServer \in Seq(Request)
    BY DEF Init
  <2>3. /\ running \in BOOLEAN /\ connected \in BOOLEAN /\ netRunning \in BOOLEAN
        /\ joinable \in BOOLEAN /\ inRoom \in BOOLEAN /\ peerUp \in BOOLEAN
        /\ lost \in BOOLEAN /\ missed \in BOOLEAN /\ overlapped \in BOOLEAN
        /\ misread \in BOOLEAN
    BY Zenon DEF Init
  <2>4. inRoom = (roomId # NoRoom)
    BY Zenon DEF Init
  <2>5. requests \in 0..MaxRequests
    BY ClientAssumption DEF Init
  <2> QED BY <2>1, <2>2, <2>3, <2>4, <2>5, Zenon DEF Init, TypeOK, Request
<1>2. ThreadInv
  BY DEF Init, ThreadInv, ConnectedAbortsOnlyWhenLost
<1>3. WireInv
  BY DEF Init, WireInv, TitleOfItsOwnRoom, Range, NoRoom
<1>4. StartInv
  BY DEF Init, StartInv
<1>5. TruthInv
  BY DEF Init, TruthInv
<1> QED BY <1>1, <1>2, <1>3, <1>4, <1>5 DEF IInv

\* The two threads against each other: connected is only cleared by Disconnect,
\* which joins, or by the receive thread when it saw the connection end.
LEMMA ThreadStep == TypeOK /\ ThreadInv /\ [Next]_vars => ThreadInv'
<1> SUFFICES ASSUME TypeOK, ThreadInv, [Next]_vars PROVE ThreadInv'
  OBVIOUS
<1> USE DEF TypeOK, ThreadInv, ConnectedAbortsOnlyWhenLost, Alive, net, belief, wire, history, Main, Thread
<1>1. CASE ShowMainMenu
  BY <1>1 DEF ShowMainMenu
<1>2. CASE Connect
  BY <1>2 DEF Connect
<1>3. CASE ConnectFails
  BY <1>3 DEF ConnectFails
<1>4. CASE Run
  BY <1>4 DEF Run
<1>5. CASE BeginCreate
  BY <1>5 DEF BeginCreate
<1>6. CASE RequestCreateRoom
  BY <1>6 DEF RequestCreateRoom
<1>7. CASE RequestJoinRoom
  BY <1>7 DEF RequestJoinRoom
<1>8. CASE RequestRoomList
  BY <1>8 DEF RequestRoomList
<1>9. CASE RequestLeaveRoom
  BY <1>9 DEF RequestLeaveRoom
<1>10. CASE ChooseNothing
  BY <1>10 DEF ChooseNothing
<1>11. CASE Shutdown
  BY <1>11 DEF Shutdown
<1>12. CASE Disconnect
  BY <1>12 DEF Disconnect
<1>13. CASE CloseSocket
  BY <1>13 DEF CloseSocket
<1>14. CASE JoinThread
  BY <1>14 DEF JoinThread
<1>15. CASE Destroy
  BY <1>15 DEF Destroy
<1>16. CASE RecvThread
  BY <1>16 DEF RecvThread
<1>17. CASE Recv
  BY <1>17 DEF Recv
<1>18. CASE RecvEnds
  BY <1>18 DEF RecvEnds
<1>19. CASE ClearConnected
  BY <1>19 DEF ClearConnected
<1>20. CASE HandleServerMessage
  BY <1>20 DEF HandleServerMessage
<1>21. CASE Serve
  BY <1>21 DEF Serve
<1>22. CASE PeerGoes
  BY <1>22 DEF PeerGoes
<1>24. CASE EnterPort
  BY <1>24 DEF EnterPort
<1>25. CASE ReadPastBuffer
  BY <1>25 DEF ReadPastBuffer
<1>23. CASE UNCHANGED vars
  BY <1>23 DEF vars
<1> QED
  BY <1>1, <1>2, <1>3, <1>4, <1>5, <1>6, <1>7, <1>8, <1>9, <1>10, <1>11,
     <1>12, <1>13, <1>14, <1>15, <1>16, <1>17, <1>18, <1>19, <1>20,
     <1>21, <1>22, <1>23, <1>24, <1>25
  DEF Next, User, MainThread, RecvLoop, Ended

\* Messages and beliefs keep their types.
LEMMA TypeStep == TypeOK /\ WireInv /\ [Next]_vars => TypeOK'
<1> SUFFICES ASSUME TypeOK, WireInv, [Next]_vars PROVE TypeOK'
  OBVIOUS
<1> USE DEF TypeOK, net, belief, wire, history, Main, Thread
<1>1. CASE ShowMainMenu
  BY <1>1 DEF ShowMainMenu
<1>2. CASE Connect
  <2>1. Sent("LIST", NoRoom, TRUE) \in Seq(Parts)
    BY SentParts
  <2>2. connected' \in BOOLEAN /\ netRunning' \in BOOLEAN /\ joinable' \in BOOLEAN
    BY <1>2, Zenon DEF Connect
  <2>3. /\ main' = "loop" /\ thread' = "test" /\ socket' = "open" /\ toClient' \in Seq(Parts)
        /\ UNCHANGED <<running, belief, pendingTitle, chunk, requests, toServer, peerUp,
                       srvRoom, history>>
    BY <1>2, <2>1 DEF Connect
  <2> QED BY <2>2, <2>3
<1>3. CASE ConnectFails
  BY <1>3 DEF ConnectFails
<1>4. CASE Run
  BY <1>4 DEF Run
<1>5. CASE BeginCreate
  BY <1>5, ClientAssumption DEF BeginCreate
<1>6. CASE RequestCreateRoom
  <2>1. [type |-> "CREATE", room |-> requests] \in Request
    BY ClientAssumption DEF Request, Rooms
  <2>2. toServer' \in Seq(Request)
    BY <1>6, <2>1, Appended DEF RequestCreateRoom, SendPacket, Request
  <2> QED BY <1>6, <2>2, ClientAssumption DEF RequestCreateRoom, SendPacket, Request, Rooms
<1>7. CASE RequestJoinRoom
  <2>1. [type |-> "JOIN", room |-> 0] \in Request
    BY ClientAssumption DEF Request, Rooms
  <2>2. toServer' \in Seq(Request)
    BY <1>7, <2>1, Appended DEF RequestJoinRoom, SendPacket, Request
  <2> QED BY <1>7, <2>2, ClientAssumption DEF RequestJoinRoom, SendPacket, Request, Rooms
<1>8. CASE RequestRoomList
  <2>1. [type |-> "LIST", room |-> NoRoom] \in Request
    BY ClientAssumption DEF Request, Rooms
  <2>2. toServer' \in Seq(Request)
    BY <1>8, <2>1, Appended DEF RequestRoomList, SendPacket, Request
  <2> QED BY <1>8, <2>2, ClientAssumption DEF RequestRoomList, SendPacket, Request, Rooms
<1>9. CASE RequestLeaveRoom
  <2>1. [type |-> "LEAVE", room |-> NoRoom] \in Request
    BY ClientAssumption DEF Request, Rooms
  <2>2. toServer' \in Seq(Request)
    BY <1>9, <2>1, Appended DEF RequestLeaveRoom, SendPacket, Request
  <2> QED BY <1>9, <2>2, ClientAssumption DEF RequestLeaveRoom, SendPacket, Request, Rooms
<1>10. CASE ChooseNothing
  <2>1. running' \in BOOLEAN
    BY <1>10, Zenon DEF ChooseNothing
  <2> QED BY <1>10, <2>1 DEF ChooseNothing
<1>11. CASE Shutdown
  <2>1. running' \in BOOLEAN
    BY <1>11, Zenon DEF Shutdown
  <2> QED BY <1>11, <2>1 DEF Shutdown
<1>12. CASE Disconnect
  <2>1. connected' \in BOOLEAN /\ netRunning' \in BOOLEAN
    BY <1>12, Zenon DEF Disconnect
  <2> QED BY <1>12, <2>1 DEF Disconnect
<1>13. CASE CloseSocket
  BY <1>13 DEF CloseSocket
<1>14. CASE JoinThread
  <2>1. joinable' \in BOOLEAN
    BY <1>14, Zenon DEF JoinThread
  <2> QED BY <1>14, <2>1 DEF JoinThread
<1>15. CASE Destroy
  BY <1>15 DEF Destroy
<1>16. CASE RecvThread
  BY <1>16 DEF RecvThread
<1>17. CASE Recv
  BY <1>17, RecvCuts DEF Recv
<1>18. CASE RecvEnds
  BY <1>18 DEF RecvEnds
<1>19. CASE ClearConnected
  <2>1. connected' \in BOOLEAN /\ netRunning' \in BOOLEAN
    BY <1>19, Zenon DEF ClearConnected
  <2> QED BY <1>19, <2>1 DEF ClearConnected
<1>20. CASE HandleServerMessage
  <2>1. chunk' \in Seq(Parts)
    BY <1>20 DEF HandleServerMessage
  <2>2. \A n \in Rooms : n # NoRoom
    BY DEF Rooms, NoRoom
  <2>3. /\ inRoom' \in BOOLEAN /\ roomId' \in Rooms \cup {NoRoom} /\ misread' \in BOOLEAN
        /\ title' \in Rooms \cup {Torn} /\ (~misread' => inRoom' = (roomId' # NoRoom))
    <3>0. 0 \in Rooms
      BY ClientAssumption DEF Rooms
    <3>1. CASE ~Whole /\ UNCHANGED <<belief, misread>>
      BY <3>1
    <3>2. CASE Whole /\ OnMessage(chunk[1].msg) /\ UNCHANGED misread
      <4> DEFINE m == chunk[1].msg
      <4>1. m.room \in Rooms \cup {NoRoom} /\ (m.type \in {"CREATED", "JOINED"} => m.room \in Rooms)
        BY <3>0, <3>2, WholeArrived DEF WireInv, Answered, Parts, Replies
      <4>2. OnMessage(m)
        BY <3>2
      <4> HIDE DEF m
      <4> QED BY <2>2, <3>0, <3>2, <4>1, <4>2 DEF OnMessage, OnRoomCreated, OnRoomJoined, OnRoomLeft
    <3>3. ASSUME NEW m \in Replies, OnMessage(m), misread' = (misread \/ ChangesRoom(m))
          PROVE  <2>3
      <4>1. m.room \in Rooms \cup {NoRoom}
        BY DEF Replies
      <4>2. /\ inRoom' \in BOOLEAN /\ roomId' \in Rooms \cup {NoRoom} /\ title' \in Rooms \cup {Torn}
            /\ ChangesRoom(m) \/ UNCHANGED belief
        BY <3>0, <3>3, <4>1 DEF OnMessage, OnRoomCreated, OnRoomJoined, OnRoomLeft, ChangesRoom
      <4>3. misread' \in BOOLEAN /\ (~misread' => ~misread /\ ~ChangesRoom(m))
        BY <3>3
      <4> QED BY <4>2, <4>3
    <3> QED BY <1>20, <3>1, <3>2, <3>3 DEF HandleServerMessage
  <2> QED BY <1>20, <2>1, <2>3 DEF HandleServerMessage
<1>21. CASE Serve
  <2>1. /\ toServer' \in Seq(Request) /\ toClient' \in Seq(Parts)
        /\ srvRoom' \in Rooms \cup {NoRoom}
    BY <1>21, ServeOne
  <2>2. UNCHANGED <<running, net, belief, pendingTitle, main, thread, chunk, requests,
                    peerUp, history>>
    BY <1>21 DEF Serve
  <2> QED BY <2>1, <2>2 DEF Request
<1>22. CASE PeerGoes
  <2>1. peerUp' \in BOOLEAN
    BY <1>22, Zenon DEF PeerGoes
  <2>2. toServer' = <<>> /\ (toClient' = toClient \/ toClient' = <<>>) /\ srvRoom' = NoRoom
    BY <1>22 DEF PeerGoes
  <2>3. <<>> \in Seq(Request) /\ <<>> \in Seq(Parts)
    OBVIOUS
  <2>4. toServer' \in Seq(Request) /\ toClient' \in Seq(Parts) /\ srvRoom' \in Rooms \cup {NoRoom}
    BY <2>2, <2>3
  <2>5. UNCHANGED <<running, net, belief, pendingTitle, main, thread, chunk, requests, history>>
    BY <1>22 DEF PeerGoes
  <2> QED BY <2>1, <2>4, <2>5 DEF Request
<1>24. CASE EnterPort
  BY <1>24 DEF EnterPort
<1>25. CASE ReadPastBuffer
  BY <1>25 DEF ReadPastBuffer
<1>23. CASE UNCHANGED vars
  BY <1>23 DEF vars
<1> QED
  BY <1>1, <1>2, <1>3, <1>4, <1>5, <1>6, <1>7, <1>8, <1>9, <1>10, <1>11,
     <1>12, <1>13, <1>14, <1>15, <1>16, <1>17, <1>18, <1>19, <1>20,
     <1>21, <1>22, <1>23, <1>24, <1>25
  DEF Next, User, MainThread, RecvLoop, Ended

\* While no answer is outstanding, nothing on the wire is about a new room.
LEMMA NothingAsked ==
  ASSUME TypeOK, WireInv, ~CreateUnanswered
  PROVE  /\ \A r \in Range(toServer) : r.type # "CREATE"
         /\ \A p \in Range(toClient) \cup Range(chunk) : p.msg.type # "CREATED"
<1>1. toServer \in Seq(Request)
  BY DEF TypeOK, Request
<1>2. Range(toServer) = {toServer[i] : i \in 1..Len(toServer)}
  BY <1>1, RangeEquality
<1> QED BY <1>2 DEF CreateUnanswered

\* A step that leaves the messages, the belief and the titles alone.
LEMMA WireKept ==
  ASSUME WireInv, main' # "creating" \/ main' = main, ~misread' => ~misread,
         UNCHANGED <<toServer, toClient, chunk, inRoom, roomId, title, pendingTitle, overlapped>>
  PROVE  WireInv'
<1>1. \A r : Asked(r)' <=> Asked(r)
  BY DEF Asked
<1>2. \A p : Answered(p)' <=> Answered(p)
  BY DEF Answered
<1>3. CreateUnanswered' <=> CreateUnanswered
  BY DEF CreateUnanswered
<1>4. TitleOfItsOwnRoom'
  BY DEF WireInv, TitleOfItsOwnRoom
<1>5. \A r \in Range(toServer') : Asked(r)'
  BY <1>1 DEF WireInv
<1>6. \A p \in Range(toClient') \cup Range(chunk') : Answered(p)'
  BY <1>2 DEF WireInv
<1>7. main' = "creating" /\ ~overlapped' => ~CreateUnanswered'
  BY <1>3 DEF WireInv
<1> QED BY <1>4, <1>5, <1>6, <1>7 DEF WireInv

\* Another request goes out.
LEMMA WireAsked ==
  ASSUME TypeOK, WireInv, NEW req \in Request, Asked(req), main' # "creating",
         toServer' = Append(toServer, req) \/ toServer' = toServer,
         UNCHANGED <<toClient, chunk, inRoom, roomId, title, pendingTitle, overlapped, misread>>
  PROVE  WireInv'
<1>1. toServer \in Seq(Request)
  BY DEF TypeOK, Request
<1>2. Range(Append(toServer, req)) = Range(toServer) \cup {req}
  BY <1>1, Appended
<1>3. \A r \in Range(toServer') : Asked(r)
  BY <1>2 DEF WireInv
<1>4. \A r : Asked(r)' <=> Asked(r)
  BY DEF Asked
<1>5. \A p : Answered(p)' <=> Answered(p)
  BY DEF Answered
<1>6. \A p \in Range(toClient') \cup Range(chunk') : Answered(p)'
  BY <1>5 DEF WireInv
<1>7. TitleOfItsOwnRoom' <=> TitleOfItsOwnRoom
  BY DEF TitleOfItsOwnRoom
<1> QED BY <1>3, <1>4, <1>6, <1>7 DEF WireInv

\* The pending title against the requests and answers on their way.
LEMMA WireStep == TypeOK /\ WireInv /\ [Next]_vars => WireInv'
<1> SUFFICES ASSUME TypeOK, WireInv, [Next]_vars PROVE WireInv'
  OBVIOUS
<1> USE DEF net, belief, wire, history, Main, Thread
<1>1. CASE ShowMainMenu
  <2>1. /\ UNCHANGED <<toServer, toClient, chunk, inRoom, roomId, title, pendingTitle, overlapped, misread>>
        /\ main' # "creating" \/ main' = main
    BY <1>1 DEF ShowMainMenu
  <2> QED BY <2>1, WireKept
<1>2. CASE Connect
  <2>1. \A p \in Range(toClient') : p.msg.type = "LIST"
    BY <1>2, SentParts DEF Connect
  <2>2. /\ UNCHANGED <<toServer, chunk, inRoom, roomId, title, pendingTitle, overlapped, misread>>
        /\ main' = "loop"
    BY <1>2 DEF Connect
  <2>3. \A r : Asked(r)' <=> Asked(r)
    BY <2>2 DEF Asked
  <2>4. \A p : Answered(p)' <=> Answered(p)
    BY <2>2 DEF Answered
  <2>5. \A p \in Range(toClient') : Answered(p)'
    BY <2>1 DEF Answered
  <2>6. \A p \in Range(chunk') : Answered(p)'
    BY <2>2, <2>4 DEF WireInv
  <2>7. TitleOfItsOwnRoom'
    BY <2>2 DEF WireInv, TitleOfItsOwnRoom
  <2> QED BY <2>2, <2>3, <2>5, <2>6, <2>7 DEF WireInv
<1>3. CASE ConnectFails
  <2>1. /\ UNCHANGED <<toServer, toClient, chunk, inRoom, roomId, title, pendingTitle, overlapped, misread>>
        /\ main' # "creating" \/ main' = main
    BY <1>3 DEF ConnectFails
  <2> QED BY <2>1, WireKept
<1>4. CASE Run
  <2>1. /\ UNCHANGED <<toServer, toClient, chunk, inRoom, roomId, title, pendingTitle, overlapped, misread>>
        /\ main' # "creating" \/ main' = main
    BY <1>4 DEF Run
  <2> QED BY <2>1, WireKept
<1>5. CASE BeginCreate
  <2>1. ~overlapped' => ~overlapped /\ ~CreateUnanswered
    BY <1>5 DEF BeginCreate
  <2>2. UNCHANGED <<toServer, toClient, chunk, inRoom, roomId, title, misread>>
    BY <1>5 DEF BeginCreate
  <2>3. CreateUnanswered' <=> CreateUnanswered
    BY <2>2 DEF CreateUnanswered
  <2>4. \A r \in Range(toServer') : Asked(r)'
    <3>1. CASE overlapped'
      BY <2>2, <3>1 DEF WireInv, Asked
    <3>2. CASE ~overlapped'
      BY <2>1, <2>2, <3>2, NothingAsked DEF WireInv, Asked
    <3> QED BY <3>1, <3>2
  <2>5. \A p \in Range(toClient') \cup Range(chunk') : Answered(p)'
    <3>1. CASE overlapped'
      BY <2>2, <3>1 DEF WireInv, Answered
    <3>2. CASE ~overlapped'
      BY <2>1, <2>2, <3>2, NothingAsked DEF WireInv, Answered
    <3> QED BY <3>1, <3>2
  <2>6. TitleOfItsOwnRoom'
    BY <2>1, <2>2 DEF WireInv, TitleOfItsOwnRoom
  <2> QED BY <2>1, <2>3, <2>4, <2>5, <2>6 DEF WireInv
<1>6. CASE RequestCreateRoom
  <2> DEFINE req == [type |-> "CREATE", room |-> requests]
  <2>1. requests \in Rooms
    BY DEF TypeOK, Rooms
  <2>2. req \in Request /\ req.type = "CREATE" /\ req.room = requests
    BY <2>1 DEF Request
  <2>3. /\ main = "creating" /\ main' = "loop" /\ pendingTitle' = requests
        /\ UNCHANGED <<toClient, chunk, inRoom, roomId, title, overlapped, misread>>
        /\ toServer' = Append(toServer, req) \/ toServer' = toServer
    BY <1>6 DEF RequestCreateRoom, SendPacket
  <2> HIDE DEF req
  <2>4. Range(toServer') \subseteq Range(toServer) \cup {req}
    <3>1. toServer \in Seq(Request)
      BY DEF TypeOK, Request
    <3>2. Range(Append(toServer, req)) = Range(toServer) \cup {req}
      BY <2>2, <3>1, Appended
    <3> QED BY <2>3, <3>2
  <2>5. overlapped \/ ~CreateUnanswered
    BY <2>3 DEF WireInv
  <2>6. \A r \in Range(toServer') : Asked(r)'
    <3>1. CASE overlapped
      BY <2>1, <2>2, <2>3, <2>4, <3>1 DEF WireInv, Asked
    <3>2. CASE ~overlapped
      BY <2>1, <2>2, <2>3, <2>4, <2>5, <3>2, NothingAsked DEF WireInv, Asked
    <3> QED BY <3>1, <3>2
  <2>7. \A p \in Range(toClient') \cup Range(chunk') : Answered(p)'
    <3>1. CASE overlapped
      BY <2>3, <3>1 DEF WireInv, Answered
    <3>2. CASE ~overlapped
      BY <2>3, <2>5, <3>2, NothingAsked DEF WireInv, Answered
    <3> QED BY <3>1, <3>2
  <2>8. TitleOfItsOwnRoom'
    BY <2>3 DEF WireInv, TitleOfItsOwnRoom
  <2> QED BY <2>3, <2>6, <2>7, <2>8 DEF WireInv
<1>7. CASE RequestJoinRoom
  <2> DEFINE req == [type |-> "JOIN", room |-> 0]
  <2>1. req \in Request /\ req.type = "JOIN" /\ req.room = 0
    BY ClientAssumption DEF Request, Rooms
  <2>2. /\ toServer' = Append(toServer, req) \/ toServer' = toServer
        /\ UNCHANGED <<toClient, chunk, inRoom, roomId, title, pendingTitle, overlapped, misread>>
        /\ main' = "loop"
    BY <1>7 DEF RequestJoinRoom, SendPacket
  <2> HIDE DEF req
  <2>3. Asked(req)
    BY <2>1 DEF Asked
  <2> QED BY <2>1, <2>2, <2>3, WireAsked
<1>8. CASE RequestRoomList
  <2> DEFINE req == [type |-> "LIST", room |-> NoRoom]
  <2>1. req \in Request /\ req.type = "LIST" /\ req.room = NoRoom
    BY ClientAssumption DEF Request, Rooms
  <2>2. /\ toServer' = Append(toServer, req) \/ toServer' = toServer
        /\ UNCHANGED <<toClient, chunk, inRoom, roomId, title, pendingTitle, overlapped, misread>>
        /\ main' = "loop"
    BY <1>8 DEF RequestRoomList, SendPacket
  <2> HIDE DEF req
  <2>3. Asked(req)
    BY <2>1 DEF Asked
  <2> QED BY <2>1, <2>2, <2>3, WireAsked
<1>9. CASE RequestLeaveRoom
  <2> DEFINE req == [type |-> "LEAVE", room |-> NoRoom]
  <2>1. req \in Request /\ req.type = "LEAVE" /\ req.room = NoRoom
    BY ClientAssumption DEF Request, Rooms
  <2>2. /\ toServer' = Append(toServer, req) \/ toServer' = toServer
        /\ UNCHANGED <<toClient, chunk, inRoom, roomId, title, pendingTitle, overlapped, misread>>
        /\ main' = "loop"
    BY <1>9 DEF RequestLeaveRoom, SendPacket
  <2> HIDE DEF req
  <2>3. Asked(req)
    BY <2>1 DEF Asked
  <2> QED BY <2>1, <2>2, <2>3, WireAsked
<1>10. CASE ChooseNothing
  <2>1. /\ UNCHANGED <<toServer, toClient, chunk, inRoom, roomId, title, pendingTitle, overlapped, misread>>
        /\ main' # "creating" \/ main' = main
    BY <1>10 DEF ChooseNothing
  <2> QED BY <2>1, WireKept
<1>11. CASE Shutdown
  <2>1. /\ UNCHANGED <<toServer, toClient, chunk, inRoom, roomId, title, pendingTitle, overlapped, misread>>
        /\ main' # "creating" \/ main' = main
    BY <1>11 DEF Shutdown
  <2> QED BY <2>1, WireKept
<1>12. CASE Disconnect
  <2>1. /\ UNCHANGED <<toServer, toClient, chunk, inRoom, roomId, title, pendingTitle, overlapped, misread>>
        /\ main' # "creating" \/ main' = main
    BY <1>12 DEF Disconnect
  <2> QED BY <2>1, WireKept
<1>13. CASE CloseSocket
  <2>1. /\ UNCHANGED <<toServer, toClient, chunk, inRoom, roomId, title, pendingTitle, overlapped, misread>>
        /\ main' # "creating" \/ main' = main
    BY <1>13 DEF CloseSocket
  <2> QED BY <2>1, WireKept
<1>14. CASE JoinThread
  <2>1. /\ UNCHANGED <<toServer, toClient, chunk, inRoom, roomId, title, pendingTitle, overlapped, misread>>
        /\ main' # "creating" \/ main' = main
    BY <1>14 DEF JoinThread
  <2> QED BY <2>1, WireKept
<1>15. CASE Destroy
  <2>1. /\ UNCHANGED <<toServer, toClient, chunk, inRoom, roomId, title, pendingTitle, overlapped, misread>>
        /\ main' # "creating" \/ main' = main
    BY <1>15 DEF Destroy
  <2> QED BY <2>1, WireKept
<1>16. CASE RecvThread
  <2>1. /\ UNCHANGED <<toServer, toClient, chunk, inRoom, roomId, title, pendingTitle, overlapped, misread>>
        /\ main' # "creating" \/ main' = main
    BY <1>16 DEF RecvThread
  <2> QED BY <2>1, WireKept
<1>17. CASE Recv
  <2>1. Range(chunk') \cup Range(toClient') \subseteq Range(toClient)
    BY <1>17, RecvCuts
  <2>2. /\ UNCHANGED <<toServer, inRoom, roomId, title, pendingTitle, overlapped, misread>>
        /\ main' = main
    BY <1>17 DEF Recv
  <2>3. \A r \in Range(toServer') : Asked(r)'
    BY <2>2 DEF WireInv, Asked
  <2>4. \A p \in Range(toClient') \cup Range(chunk') : Answered(p)'
    BY <2>1, <2>2 DEF WireInv, Answered
  <2>5. CreateUnanswered' => CreateUnanswered
    BY <2>1, <2>2 DEF CreateUnanswered
  <2>6. TitleOfItsOwnRoom'
    BY <2>2 DEF WireInv, TitleOfItsOwnRoom
  <2> QED BY <2>2, <2>3, <2>4, <2>5, <2>6 DEF WireInv
<1>18. CASE RecvEnds
  <2>1. /\ UNCHANGED <<toServer, toClient, chunk, inRoom, roomId, title, pendingTitle, overlapped, misread>>
        /\ main' # "creating" \/ main' = main
    BY <1>18 DEF RecvEnds
  <2> QED BY <2>1, WireKept
<1>19. CASE ClearConnected
  <2>1. /\ UNCHANGED <<toServer, toClient, chunk, inRoom, roomId, title, pendingTitle, overlapped, misread>>
        /\ main' # "creating" \/ main' = main
    BY <1>19 DEF ClearConnected
  <2> QED BY <2>1, WireKept
<1>20. CASE HandleServerMessage
  <2>1. /\ chunk' = <<>> /\ main' = main
        /\ UNCHANGED <<toServer, toClient, pendingTitle, overlapped>>
    BY <1>20 DEF HandleServerMessage
  <2>2. Range(chunk') = {}
    BY <2>1 DEF Range
  <2>3. TitleOfItsOwnRoom'
    <3>1. ASSUME UNCHANGED <<belief, misread>> PROVE TitleOfItsOwnRoom'
      BY <2>1, <3>1 DEF WireInv, TitleOfItsOwnRoom
    <3>2. CASE Whole /\ OnMessage(chunk[1].msg) /\ UNCHANGED misread
      <4> DEFINE m == chunk[1].msg
      <4>1. Answered(chunk[1])
        BY <3>2, WholeArrived DEF WireInv
      <4>2. CASE m.ok /\ m.type = "CREATED"
        <5>1. roomId' = m.room /\ title' = pendingTitle
          BY <3>2, <4>2 DEF OnMessage, OnRoomCreated
        <5>2. overlapped \/ m.room = pendingTitle
          BY <4>1, <4>2 DEF Answered
        <5> QED BY <2>1, <5>1, <5>2 DEF TitleOfItsOwnRoom
      <4>3. CASE m.ok /\ m.type = "JOINED"
        <5>1. roomId' = m.room
          BY <3>2, <4>3 DEF OnMessage, OnRoomJoined
        <5>2. m.room = 0
          BY <4>1, <4>3 DEF Answered
        <5> QED BY <5>1, <5>2 DEF TitleOfItsOwnRoom
      <4>4. CASE m.ok /\ m.type = "LEFT"
        <5>1. roomId' = NoRoom
          BY <3>2, <4>4 DEF OnMessage, OnRoomLeft
        <5> QED BY <5>1 DEF TitleOfItsOwnRoom, NoRoom
      <4>5. CASE ~ChangesRoom(m)
        <5>1. UNCHANGED belief
          BY <3>2, <4>5 DEF OnMessage, ChangesRoom
        <5> QED BY <3>1, <3>2, <5>1
      <4> QED BY <4>2, <4>3, <4>4, <4>5 DEF ChangesRoom
    <3>3. ASSUME NEW m \in Replies, OnMessage(m), misread' = (misread \/ ChangesRoom(m))
          PROVE  TitleOfItsOwnRoom'
      <4>1. CASE misread'
        BY <4>1 DEF TitleOfItsOwnRoom
      <4>2. CASE ~misread'
        <5>1. ~ChangesRoom(m) /\ ~misread
          BY <3>3, <4>2
        <5>2. UNCHANGED belief
          BY <3>3, <5>1 DEF OnMessage, ChangesRoom
        <5> QED BY <2>1, <4>2, <5>1, <5>2 DEF WireInv, TitleOfItsOwnRoom
      <4> QED BY <4>1, <4>2
    <3> QED BY <1>20, <3>1, <3>2, <3>3 DEF HandleServerMessage
  <2>4. \A r \in Range(toServer') : Asked(r)'
    BY <2>1 DEF WireInv, Asked
  <2>5. \A p \in Range(toClient') \cup Range(chunk') : Answered(p)'
    BY <2>1, <2>2 DEF WireInv, Answered
  <2>6. CreateUnanswered' => CreateUnanswered
    BY <2>1, <2>2 DEF CreateUnanswered
  <2> QED BY <2>1, <2>3, <2>4, <2>5, <2>6 DEF WireInv
<1>21. CASE Serve
  <2>1. PICK r \in Range(toServer) :
          /\ toServer' \in Seq(Request) /\ Range(toServer') \subseteq Range(toServer)
          /\ \A p \in Range(toClient') : p \in Range(toClient) \/ Answers(r, p)
    BY <1>21, ServeOne
  <2>2. /\ UNCHANGED <<chunk, inRoom, roomId, title, pendingTitle, overlapped, misread>>
        /\ main' = main
    BY <1>21 DEF Serve
  <2>3. Asked(r)
    BY DEF WireInv
  <2>4. \A p \in Range(toClient') \cup Range(chunk') : Answered(p)'
    <3>1. \A p \in Range(toClient) \cup Range(chunk) : Answered(p)
      BY DEF WireInv
    <3>2. ASSUME NEW p, Answers(r, p) PROVE Answered(p)
      BY <2>3, <3>2 DEF Answers, Answered, Asked
    <3>3. \A p : Answered(p)' <=> Answered(p)
      BY <2>2 DEF Answered
    <3> QED BY <2>1, <2>2, <3>1, <3>2, <3>3
  <2>5. \A q \in Range(toServer') : Asked(q)'
    BY <2>1, <2>2 DEF WireInv, Asked
  <2>6. main' = "creating" /\ ~overlapped' => ~CreateUnanswered'
    <3> SUFFICES ASSUME main = "creating", ~overlapped PROVE ~CreateUnanswered'
      BY <2>2
    <3>1. ~CreateUnanswered
      BY DEF WireInv
    <3>2. \A q \in Range(toServer) : q.type # "CREATE"
      BY <3>1, NothingAsked
    <3>3. \A p \in Range(toClient) \cup Range(chunk) : p.msg.type # "CREATED"
      BY <3>1, NothingAsked
    <3>4. \A p \in Range(toClient') \cup Range(chunk') : p.msg.type # "CREATED"
      BY <2>1, <2>2, <3>2, <3>3 DEF Answers
    <3>5. \A i \in 1..Len(toServer') : toServer'[i] \in Range(toServer)
      BY <2>1, RangeEquality
    <3> QED BY <3>2, <3>4, <3>5 DEF CreateUnanswered
  <2>7. TitleOfItsOwnRoom'
    BY <2>2 DEF WireInv, TitleOfItsOwnRoom
  <2> QED BY <2>4, <2>5, <2>6, <2>7 DEF WireInv
<1>22. CASE PeerGoes
  <2>1. /\ toServer' = <<>> /\ main' = main
        /\ toClient' = toClient \/ toClient' = <<>>
        /\ UNCHANGED <<chunk, inRoom, roomId, title, pendingTitle, overlapped, misread>>
    BY <1>22 DEF PeerGoes
  <2>2. Range(<<>>) = {} /\ Len(<<>>) = 0
    BY DEF Range
  <2>3. Range(toServer') = {} /\ Range(toClient') \subseteq Range(toClient)
    BY <2>1, <2>2
  <2>4. \A p \in Range(toClient') \cup Range(chunk') : Answered(p)'
    BY <2>1, <2>3 DEF WireInv, Answered
  <2>5. CreateUnanswered' => CreateUnanswered
    BY <2>1, <2>2, <2>3 DEF CreateUnanswered
  <2>6. TitleOfItsOwnRoom'
    BY <2>1 DEF WireInv, TitleOfItsOwnRoom
  <2> QED BY <2>1, <2>3, <2>4, <2>5, <2>6 DEF WireInv
<1>24. CASE EnterPort
  <2>1. /\ UNCHANGED <<toServer, toClient, chunk, inRoom, roomId, title, pendingTitle, overlapped, misread>>
        /\ main' # "creating" \/ main' = main
    BY <1>24 DEF EnterPort
  <2> QED BY <2>1, WireKept
<1>25. CASE ReadPastBuffer
  <2>1. /\ UNCHANGED <<toServer, toClient, chunk, inRoom, roomId, title, pendingTitle, overlapped>>
        /\ main' # "creating" /\ (~misread' => ~misread)
    BY <1>25 DEF ReadPastBuffer
  <2> QED BY <2>1, WireKept
<1>23. CASE UNCHANGED vars
  <2>1. /\ UNCHANGED <<toServer, toClient, chunk, inRoom, roomId, title, pendingTitle, overlapped, misread>>
        /\ main' # "creating" \/ main' = main
    BY <1>23 DEF vars
  <2> QED BY <2>1, WireKept
<1> QED
  BY <1>1, <1>2, <1>3, <1>4, <1>5, <1>6, <1>7, <1>8, <1>9, <1>10, <1>11,
     <1>12, <1>13, <1>14, <1>15, <1>16, <1>17, <1>18, <1>19, <1>20,
     <1>21, <1>22, <1>23, <1>24, <1>25
  DEF Next, User, MainThread, RecvLoop, Ended

-----------------------------------------------------------------------------
(* The last word on the room.                                               *)

\* Nothing is sent before Connect.
LEMMA StartStep == TypeOK /\ ThreadInv /\ StartInv /\ [Next]_vars => StartInv'
<1> SUFFICES ASSUME TypeOK, ThreadInv, StartInv, [Next]_vars PROVE StartInv'
  OBVIOUS
<1> USE DEF ThreadInv, StartInv, Alive, net, wire, Main, Thread
<1>1. CASE ShowMainMenu
  BY <1>1 DEF ShowMainMenu
<1>2. CASE Connect
  BY <1>2 DEF Connect
<1>3. CASE ConnectFails
  BY <1>3 DEF ConnectFails
<1>4. CASE Run
  BY <1>4 DEF Run
<1>5. CASE BeginCreate
  BY <1>5 DEF BeginCreate
<1>6. CASE RequestCreateRoom
  BY <1>6 DEF RequestCreateRoom, SendPacket
<1>7. CASE RequestJoinRoom
  BY <1>7 DEF RequestJoinRoom, SendPacket
<1>8. CASE RequestRoomList
  BY <1>8 DEF RequestRoomList, SendPacket
<1>9. CASE RequestLeaveRoom
  BY <1>9 DEF RequestLeaveRoom, SendPacket
<1>10. CASE ChooseNothing
  BY <1>10 DEF ChooseNothing
<1>11. CASE Shutdown
  BY <1>11 DEF Shutdown
<1>12. CASE Disconnect
  BY <1>12 DEF Disconnect
<1>13. CASE CloseSocket
  BY <1>13 DEF CloseSocket
<1>14. CASE JoinThread
  BY <1>14 DEF JoinThread
<1>15. CASE Destroy
  BY <1>15 DEF Destroy
<1>16. CASE RecvThread
  BY <1>16 DEF RecvThread
<1>17. CASE Recv
  <2>1. main \notin {"menu", "port", "connect"} /\ main' = main /\ thread' = "handle"
    BY <1>17 DEF Recv
  <2> QED BY <2>1
<1>18. CASE RecvEnds
  BY <1>18 DEF RecvEnds
<1>19. CASE ClearConnected
  BY <1>19 DEF ClearConnected
<1>20. CASE HandleServerMessage
  BY <1>20 DEF HandleServerMessage
<1>21. CASE Serve
  BY <1>21 DEF Serve
<1>22. CASE PeerGoes
  BY <1>22 DEF PeerGoes
<1>24. CASE EnterPort
  BY <1>24 DEF EnterPort
<1>25. CASE ReadPastBuffer
  BY <1>25 DEF ReadPastBuffer
<1>23. CASE UNCHANGED vars
  BY <1>23 DEF vars
<1> QED
  BY <1>1, <1>2, <1>3, <1>4, <1>5, <1>6, <1>7, <1>8, <1>9, <1>10, <1>11,
     <1>12, <1>13, <1>14, <1>15, <1>16, <1>17, <1>18, <1>19, <1>20,
     <1>21, <1>22, <1>23, <1>24, <1>25
  DEF Next, User, MainThread, RecvLoop, Ended

\* A reply that is appended is the last word on the room if it changes the room,
\* and else leaves the last word to what was there.
LEMMA Spoken ==
  ASSUME NEW s \in Seq(Parts), NEW type \in {"LIST", "CREATED", "JOINED", "LEFT", "ERROR"},
         NEW room \in Rooms \cup {NoRoom}, NEW ok \in BOOLEAN
  PROVE  /\ s \o Sent(type, room, ok) \in Seq(Parts)
         /\ ok /\ type \in {"CREATED", "JOINED", "LEFT"} =>
              NewWord(s \o Sent(type, room, ok), IF type = "LEFT" THEN NoRoom ELSE room)
         /\ ~(ok /\ type \in {"CREATED", "JOINED", "LEFT"}) =>
              SameWord(s, s \o Sent(type, room, ok))
<1> DEFINE m == [type |-> type, room |-> room, ok |-> ok]
           a == [msg |-> m, first |-> TRUE]
           b == [msg |-> m, first |-> FALSE]
           u == <<a, b>>
           t == s \o u
<1>1. Sent(type, room, ok) = u
  BY DEF Sent
<1>2. m \in Replies /\ m.type = type /\ m.room = room /\ m.ok = ok
  BY DEF Replies
<1> HIDE DEF m
<1>3. a \in Parts /\ b \in Parts /\ a.msg = m /\ b.msg = m /\ a.first = TRUE /\ b.first = FALSE
  BY <1>2 DEF Parts
<1>4. /\ ~Matters(b)
      /\ Matters(a) <=> ok /\ type \in {"CREATED", "JOINED", "LEFT"}
  BY <1>2, <1>3 DEF Matters, ChangesRoom
<1>5. Outcome(a) = IF type = "LEFT" THEN NoRoom ELSE room
  BY <1>2, <1>3 DEF Outcome
<1> HIDE DEF a, b
<1>6. u \in Seq(Parts) /\ Len(u) = 2 /\ u[1] = a /\ u[2] = b
  BY <1>3
<1> HIDE DEF u
<1>7. /\ t \in Seq(Parts) /\ Len(t) = Len(s) + 2 /\ Len(s) \in Nat
      /\ \A i \in 1..Len(s) + 2 : t[i] = IF i <= Len(s) THEN s[i] ELSE u[i - Len(s)]
  <2>1. /\ t \in Seq(Parts) /\ Len(t) = Len(s) + Len(u)
        /\ \A i \in 1..Len(s) + Len(u) : t[i] = IF i <= Len(s) THEN s[i] ELSE u[i - Len(s)]
    BY <1>6, ConcatProperties
  <2>2. Len(s) \in Nat
    BY LenProperties
  <2> HIDE DEF t
  <2> QED BY <1>6, <2>1, <2>2
<1> HIDE DEF t
<1>8. /\ \A i \in 1..Len(s) : t[i] = s[i]
      /\ t[Len(s) + 1] = a /\ t[Len(s) + 2] = b
  <2>1. /\ Len(s) + 1 \in 1..Len(s) + 2 /\ ~(Len(s) + 1 <= Len(s)) /\ Len(s) + 1 - Len(s) = 1
        /\ Len(s) + 2 \in 1..Len(s) + 2 /\ ~(Len(s) + 2 <= Len(s)) /\ Len(s) + 2 - Len(s) = 2
        /\ \A i \in 1..Len(s) : i \in 1..Len(s) + 2 /\ i <= Len(s)
    BY <1>7
  <2> QED BY <1>6, <1>7, <2>1
<1>9. /\ \A i \in 1..Len(t) : i \in 1..Len(s) \/ i = Len(s) + 1 \/ i = Len(s) + 2
      /\ \A i \in 1..Len(s) : i \in 1..Len(t) /\ Len(s) + 1 > i
      /\ Len(s) + 1 \in 1..Len(t)
  BY <1>7
<1>10. ASSUME ok /\ type \in {"CREATED", "JOINED", "LEFT"}
       PROVE  /\ ~Silent(t)
              /\ \A i \in 1..Len(t) : LastWord(t, i) => Outcome(t[i]) = Outcome(a)
  <2>1. Matters(t[Len(s) + 1])
    BY <1>4, <1>8, <1>10
  <2>2. ASSUME NEW i \in 1..Len(t), LastWord(t, i) PROVE t[i] = a
    <3>1. Matters(t[i]) /\ ~(Len(s) + 1 > i)
      BY <1>9, <2>1, <2>2 DEF LastWord
    <3>2. i # Len(s) + 2
      BY <1>4, <1>8, <3>1
    <3> QED BY <1>8, <1>9, <3>1, <3>2
  <2> QED BY <1>9, <2>1, <2>2 DEF Silent
<1>11. ASSUME ~(ok /\ type \in {"CREATED", "JOINED", "LEFT"})
       PROVE  /\ Silent(t) => Silent(s)
              /\ \A i \in 1..Len(t) :
                   LastWord(t, i) => i \in 1..Len(s) /\ LastWord(s, i) /\ t[i] = s[i]
  <2>1. ~Matters(t[Len(s) + 1]) /\ ~Matters(t[Len(s) + 2])
    BY <1>4, <1>8, <1>11
  <2>2. Silent(t) => Silent(s)
    BY <1>8, <1>9 DEF Silent
  <2>3. ASSUME NEW i \in 1..Len(t), LastWord(t, i)
        PROVE  i \in 1..Len(s) /\ LastWord(s, i) /\ t[i] = s[i]
    <3>1. i \in 1..Len(s)
      BY <1>9, <2>1, <2>3 DEF LastWord
    <3> QED BY <1>8, <1>9, <2>3, <3>1 DEF LastWord
  <2> QED BY <2>2, <2>3
<1>12. /\ ok /\ type \in {"CREATED", "JOINED", "LEFT"} =>
            NewWord(t, IF type = "LEFT" THEN NoRoom ELSE room)
       /\ ~(ok /\ type \in {"CREATED", "JOINED", "LEFT"}) => SameWord(s, t)
  BY <1>5, <1>10, <1>11 DEF NewWord, SameWord
<1> QED BY <1>1, <1>7, <1>12 DEF t

\* The same for a refusal, which never changes the room.
LEMMA Refused ==
  ASSUME NEW s \in Seq(Parts), NEW type \in {"CREATED", "JOINED"},
         NEW room \in Rooms \cup {NoRoom}
  PROVE  SameWord(s, s \o (Sent(type, room, FALSE) \o Sent("ERROR", NoRoom, TRUE)))
<1> DEFINE no == Sent(type, room, FALSE)
           error == Sent("ERROR", NoRoom, TRUE)
           r == s \o no
<1>1. /\ "ERROR" \in {"LIST", "CREATED", "JOINED", "LEFT", "ERROR"}
      /\ type \in {"LIST", "CREATED", "JOINED", "LEFT", "ERROR"}
      /\ NoRoom \in Rooms \cup {NoRoom} /\ TRUE \in BOOLEAN /\ FALSE \in BOOLEAN
  OBVIOUS
<1>2. no \in Seq(Parts) /\ error \in Seq(Parts)
  BY <1>1, SentParts, Zenon
<1>3. r \in Seq(Parts) /\ SameWord(s, r)
  BY <1>1, Spoken
<1>4. ASSUME NEW q \in Seq(Parts) PROVE SameWord(q, q \o error)
  BY <1>1, Spoken
<1> HIDE DEF no, error
<1>5. s \o (no \o error) = r \o error
  BY <1>2, ConcatAssociative
<1> HIDE DEF r
<1>6. SameWord(r, r \o error)
  BY <1>3, <1>4
<1>7. SameWord(s, r \o error)
  BY <1>3, <1>6 DEF SameWord
<1> QED BY <1>5, <1>7 DEF no, error

\* What changes neither the room nor what is on its way.
LEMMA TruthKept ==
  ASSUME TruthInv, UNCHANGED <<toClient, chunk, roomId, srvRoom>>,
         peerUp' => peerUp, ~missed' => ~missed, ~misread' => ~misread
  PROVE  TruthInv'
<1>1. toClient' = toClient /\ chunk' = chunk /\ roomId' = roomId /\ srvRoom' = srvRoom
  OBVIOUS
<1>2. (Silent(toClient)' <=> Silent(toClient)) /\ (Silent(chunk)' <=> Silent(chunk))
  BY <1>1 DEF Silent
<1>3. \A i : /\ LastWord(toClient, i)' <=> LastWord(toClient, i)
             /\ LastWord(chunk, i)' <=> LastWord(chunk, i)
  BY <1>1 DEF LastWord
<1> QED BY <1>1, <1>2, <1>3 DEF TruthInv, Outcome

\* What is added to what is on its way without a word on the room.
LEMMA TruthAfter ==
  ASSUME TruthInv, UNCHANGED <<chunk, roomId, srvRoom, peerUp, missed, misread>>,
         SameWord(toClient, toClient')
  PROVE  TruthInv'
<1> DEFINE t == toClient'
<1>1. chunk' = chunk /\ roomId' = roomId /\ srvRoom' = srvRoom /\ peerUp' = peerUp /\ missed' = missed
      /\ misread' = misread
  OBVIOUS
<1>2. peerUp /\ ~missed /\ ~misread =>
        /\ \A i \in 1..Len(t) : LastWord(t, i) => Outcome(t[i]) = srvRoom
        /\ Silent(t) =>
             /\ \A i \in 1..Len(chunk) : LastWord(chunk, i) => Outcome(chunk[i]) = srvRoom
             /\ Silent(chunk) => roomId = srvRoom
  BY DEF TruthInv, SameWord
<1> QED BY <1>1, <1>2 DEF TruthInv, Silent, LastWord, Outcome

\* The server's answer and its record of the room change in one step; what recv
\* takes out is handled before the next recv.
LEMMA TruthStep == TypeOK /\ StartInv /\ TruthInv /\ [Next]_vars => TruthInv'
<1> SUFFICES ASSUME TypeOK, StartInv, TruthInv, [Next]_vars PROVE TruthInv'
  OBVIOUS
<1> USE DEF net, belief, wire, history, Main, Thread
<1>0. /\ toClient \in Seq(Parts) /\ chunk \in Seq(Parts)
      /\ Len(toClient) \in Nat /\ Len(chunk) \in Nat /\ srvRoom \in Rooms \cup {NoRoom}
  BY LenProperties DEF TypeOK
<1>1. CASE ShowMainMenu
  <2>1. UNCHANGED <<toClient, chunk, roomId, srvRoom, peerUp, missed, misread>>
    BY <1>1 DEF ShowMainMenu
  <2> QED BY <2>1, TruthKept
<1>2. CASE Connect
  <2>1. /\ toClient' = Sent("LIST", NoRoom, TRUE) /\ toClient = <<>> /\ chunk = <<>>
        /\ UNCHANGED <<chunk, roomId, srvRoom, peerUp, missed, misread>>
    BY <1>2 DEF Connect, StartInv
  <2>2. toClient' = toClient \o Sent("LIST", NoRoom, TRUE)
    BY <2>1, SentParts, ConcatEmptySeq
  <2>3. SameWord(toClient, toClient')
    BY <1>0, <2>2, Spoken
  <2> QED BY <2>1, <2>3, TruthAfter
<1>3. CASE ConnectFails
  <2>1. UNCHANGED <<toClient, chunk, roomId, srvRoom, peerUp, missed, misread>>
    BY <1>3 DEF ConnectFails
  <2> QED BY <2>1, TruthKept
<1>4. CASE Run
  <2>1. UNCHANGED <<toClient, chunk, roomId, srvRoom, peerUp, missed, misread>>
    BY <1>4 DEF Run
  <2> QED BY <2>1, TruthKept
<1>5. CASE BeginCreate
  <2>1. UNCHANGED <<toClient, chunk, roomId, srvRoom, peerUp, missed, misread>>
    BY <1>5 DEF BeginCreate
  <2> QED BY <2>1, TruthKept
<1>6. CASE RequestCreateRoom
  <2>1. UNCHANGED <<toClient, chunk, roomId, srvRoom, peerUp, missed, misread>>
    BY <1>6 DEF RequestCreateRoom, SendPacket
  <2> QED BY <2>1, TruthKept
<1>7. CASE RequestJoinRoom
  <2>1. UNCHANGED <<toClient, chunk, roomId, srvRoom, peerUp, missed, misread>>
    BY <1>7 DEF RequestJoinRoom, SendPacket
  <2> QED BY <2>1, TruthKept
<1>8. CASE RequestRoomList
  <2>1. UNCHANGED <<toClient, chunk, roomId, srvRoom, peerUp, missed, misread>>
    BY <1>8 DEF RequestRoomList, SendPacket
  <2> QED BY <2>1, TruthKept
<1>9. CASE RequestLeaveRoom
  <2>1. UNCHANGED <<toClient, chunk, roomId, srvRoom, peerUp, missed, misread>>
    BY <1>9 DEF RequestLeaveRoom, SendPacket
  <2> QED BY <2>1, TruthKept
<1>10. CASE ChooseNothing
  <2>1. UNCHANGED <<toClient, chunk, roomId, srvRoom, peerUp, missed, misread>>
    BY <1>10 DEF ChooseNothing
  <2> QED BY <2>1, TruthKept
<1>11. CASE Shutdown
  <2>1. UNCHANGED <<toClient, chunk, roomId, srvRoom, peerUp, missed, misread>>
    BY <1>11 DEF Shutdown
  <2> QED BY <2>1, TruthKept
<1>12. CASE Disconnect
  <2>1. UNCHANGED <<toClient, chunk, roomId, srvRoom, peerUp, missed, misread>>
    BY <1>12 DEF Disconnect
  <2> QED BY <2>1, TruthKept
<1>13. CASE CloseSocket
  <2>1. UNCHANGED <<toClient, chunk, roomId, srvRoom, peerUp, missed, misread>>
    BY <1>13 DEF CloseSocket
  <2> QED BY <2>1, TruthKept
<1>14. CASE JoinThread
  <2>1. UNCHANGED <<toClient, chunk, roomId, srvRoom, peerUp, missed, misread>>
    BY <1>14 DEF JoinThread
  <2> QED BY <2>1, TruthKept
<1>15. CASE Destroy
  <2>1. UNCHANGED <<toClient, chunk, roomId, srvRoom, peerUp, missed, misread>>
    BY <1>15 DEF Destroy
  <2> QED BY <2>1, TruthKept
<1>16. CASE RecvThread
  <2>1. UNCHANGED <<toClient, chunk, roomId, srvRoom, peerUp, missed, misread>>
    BY <1>16 DEF RecvThread
  <2> QED BY <2>1, TruthKept
<1>17. CASE Recv
  <2>1. PICK n \in 1..Len(toClient) : /\ chunk' = SubSeq(toClient, 1, n)
                                     /\ toClient' = SubSeq(toClient, n + 1, Len(toClient))
    BY <1>17 DEF Recv
  <2>2. UNCHANGED <<roomId, srvRoom, peerUp, missed, misread>> /\ chunk = <<>>
    BY <1>17 DEF Recv, StartInv
  <2> DEFINE s == toClient
             c == chunk'
             t == toClient'
  <2>3. \A i \in 1..Len(s) : s[i] \in Parts
    BY <1>0, ElementOfSeq
  <2>4. /\ Len(c) = n /\ Len(t) = Len(s) - n
        /\ \A i \in 1..n : c[i] = s[i]
        /\ \A i \in 1..Len(s) - n : t[i] = s[n + i]
    <3>1. /\ Len(c) = (IF 1 <= n THEN n - 1 + 1 ELSE 0)
          /\ \A i \in 1..n - 1 + 1 : c[i] = s[1 + i - 1]
      BY <1>0, <2>1, <2>3, SubSeqProperties
    <3>2. /\ Len(t) = (IF n + 1 <= Len(s) THEN Len(s) - (n + 1) + 1 ELSE 0)
          /\ \A i \in 1..Len(s) - (n + 1) + 1 : t[i] = s[n + 1 + i - 1]
      BY <1>0, <2>1, <2>3, SubSeqProperties
    <3> HIDE DEF c, t, s
    <3>3. Len(s) \in Nat /\ n \in 1..Len(s)
      BY <1>0 DEF s
    <3>4. Len(c) = n /\ Len(t) = Len(s) - n
      BY <3>1, <3>2, <3>3
    <3>5. ASSUME NEW i \in 1..n PROVE c[i] = s[i]
      BY <3>1, <3>3
    <3>6. ASSUME NEW i \in 1..Len(s) - n PROVE t[i] = s[n + i]
      <4>1. n + 1 + i - 1 = n + i /\ i \in 1..Len(s) - (n + 1) + 1
        BY <3>3
      <4> QED BY <3>2, <4>1
    <3> QED BY <3>4, <3>5, <3>6
  <2> HIDE DEF c, t, s
  <2>5. Len(s) \in Nat /\ n \in 1..Len(s)
    BY <1>0 DEF s
  <2>6. ASSUME NEW j \in 1..Len(s) PROVE j \in 1..n \/ (j - n \in 1..Len(t) /\ t[j - n] = s[j])
    <3>1. j \notin 1..n => j - n \in 1..Len(s) - n /\ n + (j - n) = j
      BY <2>5
    <3> QED BY <2>4, <3>1
  <2>7. ASSUME NEW i \in 1..Len(t), LastWord(t, i) PROVE n + i \in 1..Len(s) /\ LastWord(s, n + i)
    <3>1. n + i \in 1..Len(s) /\ Matters(s[n + i])
      BY <2>4, <2>5, <2>7 DEF LastWord
    <3>2. ASSUME NEW j \in 1..Len(s), j > n + i PROVE ~Matters(s[j])
      <4>1. j \notin 1..n /\ j - n > i
        BY <2>5, <3>2
      <4> QED BY <2>6, <2>7, <4>1 DEF LastWord
    <3> QED BY <3>1, <3>2 DEF LastWord
  <2>8. ASSUME Silent(t), NEW i \in 1..Len(c), LastWord(c, i) PROVE i \in 1..Len(s) /\ LastWord(s, i)
    <3>1. i \in 1..Len(s) /\ Matters(s[i])
      BY <2>4, <2>5, <2>8 DEF LastWord
    <3>2. ASSUME NEW j \in 1..Len(s), j > i PROVE ~Matters(s[j])
      BY <2>4, <2>6, <2>8, <3>2 DEF LastWord, Silent
    <3> QED BY <3>1, <3>2 DEF LastWord
  <2>9. Silent(t) /\ Silent(c) => Silent(s)
    BY <2>4, <2>6 DEF Silent
  <2>10. Silent(<<>>) /\ Len(<<>>) = 0
    BY DEF Silent
  <2>11. peerUp /\ ~missed /\ ~misread =>
           /\ \A i \in 1..Len(t) : LastWord(t, i) => Outcome(t[i]) = srvRoom
           /\ Silent(t) =>
                /\ \A i \in 1..Len(c) : LastWord(c, i) => Outcome(c[i]) = srvRoom
                /\ Silent(c) => roomId = srvRoom
    <3> SUFFICES ASSUME peerUp /\ ~missed /\ ~misread
                 PROVE  /\ \A i \in 1..Len(t) : LastWord(t, i) => Outcome(t[i]) = srvRoom
                        /\ Silent(t) =>
                             /\ \A i \in 1..Len(c) : LastWord(c, i) => Outcome(c[i]) = srvRoom
                             /\ Silent(c) => roomId = srvRoom
      OBVIOUS
    <3>1. \A i \in 1..Len(s) : LastWord(s, i) => Outcome(s[i]) = srvRoom
      BY DEF TruthInv, s
    <3>2. Silent(s) => roomId = srvRoom
      BY <2>2, <2>10 DEF TruthInv, s
    <3>3. ASSUME NEW i \in 1..Len(t), LastWord(t, i) PROVE Outcome(t[i]) = srvRoom
      BY <2>4, <2>7, <3>1, <3>3
    <3>4. ASSUME Silent(t), NEW i \in 1..Len(c), LastWord(c, i) PROVE Outcome(c[i]) = srvRoom
      BY <2>4, <2>8, <3>1, <3>4
    <3> QED BY <2>9, <3>2, <3>3, <3>4
  <2> QED
    <3> USE DEF c, t
    <3> QED BY <2>2, <2>11 DEF TruthInv, Silent, LastWord, Outcome
<1>18. CASE RecvEnds
  <2>1. UNCHANGED <<toClient, chunk, roomId, srvRoom, peerUp, missed, misread>>
    BY <1>18 DEF RecvEnds
  <2> QED BY <2>1, TruthKept
<1>19. CASE ClearConnected
  <2>1. UNCHANGED <<toClient, chunk, roomId, srvRoom, peerUp, missed, misread>>
    BY <1>19 DEF ClearConnected
  <2> QED BY <2>1, TruthKept
<1>20. CASE HandleServerMessage
  <2>1. /\ chunk' = <<>> /\ UNCHANGED <<toClient, srvRoom, peerUp>>
        /\ ~missed' => ~missed /\ Unseen = {}
    BY <1>20 DEF HandleServerMessage
  <2>2. ~misread' => ~misread
    BY <1>20 DEF HandleServerMessage
  <2> SUFFICES ASSUME peerUp, ~missed, ~misread, ~misread', Unseen = {}, Silent(toClient)
               PROVE  roomId' = srvRoom
    <3>1. (Silent(toClient)' <=> Silent(toClient)) /\ Len(chunk') = 0
      BY <2>1 DEF Silent
    <3>2. \A i : LastWord(toClient, i)' <=> LastWord(toClient, i)
      BY <2>1 DEF LastWord
    <3> QED BY <2>1, <2>2, <3>1, <3>2 DEF TruthInv, Outcome
  <2>3. \A i \in 1..Len(chunk) : Matters(chunk[i]) => i = 1 /\ Whole
    BY DEF Unseen
  <2>4. ASSUME ~(Whole /\ Matters(chunk[1])), UNCHANGED roomId PROVE roomId' = srvRoom
    <3>1. Silent(chunk)
      BY <2>3, <2>4 DEF Silent
    <3> QED BY <2>4, <3>1 DEF TruthInv
  <2>5. CASE Whole /\ OnMessage(chunk[1].msg)
    <3> DEFINE m == chunk[1].msg
    <3>1. CASE ChangesRoom(m)
      <4>1. Matters(chunk[1]) /\ Len(chunk) >= 2
        BY <2>5, <3>1 DEF Whole, Matters
      <4>2. 1 \in 1..Len(chunk) /\ LastWord(chunk, 1)
        BY <1>0, <2>3, <4>1 DEF LastWord
      <4>3. Outcome(chunk[1]) = srvRoom
        BY <4>2 DEF TruthInv
      <4>4. roomId' = IF m.type = "LEFT" THEN NoRoom ELSE m.room
        BY <2>5, <3>1 DEF ChangesRoom, OnMessage, OnRoomCreated, OnRoomJoined, OnRoomLeft
      <4> QED BY <4>3, <4>4 DEF Outcome
    <3>2. CASE ~ChangesRoom(m)
      <4>1. roomId' = roomId
        BY <2>5, <3>2 DEF OnMessage, ChangesRoom
      <4> QED BY <2>4, <3>2, <4>1 DEF Matters
    <3> QED BY <3>1, <3>2
  <2>6. CASE ~Whole /\ UNCHANGED belief
    BY <2>4, <2>6
  <2>7. ASSUME ~chunk[1].first, NEW m \in Replies, OnMessage(m), ~ChangesRoom(m)
        PROVE  roomId' = srvRoom
    <3>1. roomId' = roomId
      BY <2>7 DEF OnMessage, ChangesRoom
    <3> QED BY <2>4, <2>7, <3>1 DEF Whole
  <2> QED BY <1>20, <2>5, <2>6, <2>7 DEF HandleServerMessage
<1>21. CASE Serve
  <2> DEFINE r == Head(toServer)
             Same == srvRoom' = srvRoom /\ SameWord(toClient, toClient')
             Word == NewWord(toClient', srvRoom')
  <2>1. UNCHANGED <<chunk, roomId, peerUp, missed, misread>>
    BY <1>21 DEF Serve
  <2>2. toServer \in Seq(Request) /\ toServer # <<>>
    BY <1>21 DEF Serve, TypeOK, Request
  <2>3. r \in Request
    BY <2>2, HeadTailProperties
  <2>4. r.room \in Rooms \cup {NoRoom} /\ NoRoom \in Rooms \cup {NoRoom}
    BY <2>3 DEF Request
  <2> HIDE DEF r
  <2>5. CASE toClient' = toClient \o Sent("LIST", NoRoom, TRUE) /\ srvRoom' = srvRoom
    <3>1. Same
      BY <1>0, <2>4, <2>5, Spoken
    <3> QED BY <2>1, <3>1, TruthAfter
  <2>6. CASE toClient' = toClient \o Sent("CREATED", r.room, TRUE) /\ srvRoom' = r.room
    <3>1. Word
      BY <1>0, <2>4, <2>6, Spoken
    <3> QED BY <2>1, <3>1 DEF TruthInv, NewWord, LastWord, Silent, Outcome
  <2>7. CASE toClient' = toClient \o Sent("JOINED", r.room, TRUE) /\ srvRoom' = r.room
    <3>1. Word
      BY <1>0, <2>4, <2>7, Spoken
    <3> QED BY <2>1, <3>1 DEF TruthInv, NewWord, LastWord, Silent, Outcome
  <2>8. CASE /\ toClient' = toClient \o (Sent("CREATED", r.room, FALSE) \o Sent("ERROR", NoRoom, TRUE))
             /\ srvRoom' = srvRoom
    <3>1. Same
      BY <1>0, <2>4, <2>8, Refused
    <3> QED BY <2>1, <3>1, TruthAfter
  <2>9. CASE /\ toClient' = toClient \o (Sent("JOINED", r.room, FALSE) \o Sent("ERROR", NoRoom, TRUE))
             /\ srvRoom' = srvRoom
    <3>1. Same
      BY <1>0, <2>4, <2>9, Refused
    <3> QED BY <2>1, <3>1, TruthAfter
  <2>10. CASE toClient' = toClient \o Sent("LEFT", NoRoom, srvRoom # NoRoom) /\ srvRoom' = NoRoom
    <3>1. CASE srvRoom # NoRoom
      <4>1. toClient' = toClient \o Sent("LEFT", NoRoom, TRUE)
        <5>1. (srvRoom # NoRoom) = TRUE
          BY <3>1
        <5> QED BY <2>10, <5>1
      <4>2. Word
        BY <1>0, <2>4, <2>10, <4>1, Spoken
      <4> QED BY <2>1, <4>2 DEF TruthInv, NewWord, LastWord, Silent, Outcome
    <3>2. CASE srvRoom = NoRoom
      <4>1. toClient' = toClient \o Sent("LEFT", NoRoom, FALSE) /\ srvRoom' = srvRoom
        <5>1. (srvRoom # NoRoom) = FALSE
          BY <3>2
        <5> QED BY <2>10, <3>2, <5>1
      <4>2. Same
        BY <1>0, <2>4, <4>1, Spoken
      <4> QED BY <2>1, <4>2, TruthAfter
    <3> QED BY <3>1, <3>2
  <2>11. \/ toClient' = toClient \o Sent("LIST", NoRoom, TRUE) /\ srvRoom' = srvRoom
         \/ toClient' = toClient \o Sent("CREATED", r.room, TRUE) /\ srvRoom' = r.room
         \/ toClient' = toClient \o Sent("JOINED", r.room, TRUE) /\ srvRoom' = r.room
         \/ /\ toClient' = toClient \o (Sent("CREATED", r.room, FALSE) \o Sent("ERROR", NoRoom, TRUE))
            /\ srvRoom' = srvRoom
         \/ /\ toClient' = toClient \o (Sent("JOINED", r.room, FALSE) \o Sent("ERROR", NoRoom, TRUE))
            /\ srvRoom' = srvRoom
         \/ toClient' = toClient \o Sent("LEFT", NoRoom, srvRoom # NoRoom) /\ srvRoom' = NoRoom
    BY <1>21, Zenon DEF Serve, r
  <2> QED BY <2>5, <2>6, <2>7, <2>8, <2>9, <2>10, <2>11
<1>22. CASE PeerGoes
  <2>1. peerUp' = FALSE
    BY <1>22 DEF PeerGoes
  <2> QED BY <2>1 DEF TruthInv
<1>24. CASE EnterPort
  <2>1. UNCHANGED <<toClient, chunk, roomId, srvRoom, peerUp, missed, misread>>
    BY <1>24 DEF EnterPort
  <2> QED BY <2>1, TruthKept
<1>25. CASE ReadPastBuffer
  <2>1. misread'
    BY <1>25 DEF ReadPastBuffer
  <2> QED BY <2>1 DEF TruthInv
<1>23. CASE UNCHANGED vars
  <2>1. UNCHANGED <<toClient, chunk, roomId, srvRoom, peerUp, missed, misread>>
    BY <1>23 DEF vars
  <2> QED BY <2>1, TruthKept
<1> QED
  BY <1>1, <1>2, <1>3, <1>4, <1>5, <1>6, <1>7, <1>8, <1>9, <1>10, <1>11,
     <1>12, <1>13, <1>14, <1>15, <1>16, <1>17, <1>18, <1>19, <1>20,
     <1>21, <1>22, <1>23, <1>24, <1>25
  DEF Next, User, MainThread, RecvLoop, Ended

\* What the threads do and what is on the wire stays consistent.
THEOREM Invariance == Spec => []IInv
<1>1. IInv /\ [Next]_vars => IInv'
  BY ThreadStep, TypeStep, WireStep, StartStep, TruthStep DEF IInv
<1> QED BY <1>1, InitInv, PTL DEF Spec

\* CRoom believes to be in a room exactly when it has the id of one, unless the rest
\* of a message was taken for a reply, and every message keeps its form.
THEOREM TypeCorrect == Spec => []TypeOK
BY Invariance, PTL DEF IInv

\* CRoom::OnRoomCreated takes the title that was asked for, unless the rest of a
\* message was taken for its reply, because at most one
\* request to create a room is unanswered and the title is noted before it is sent.
THEOREM OwnTitle == Spec => []TitleOfItsOwnRoom
BY Invariance, PTL DEF IInv, WireInv

\* Once connected, std::terminate needs a receive thread that cleared _connected,
\* or one that handled the rest of a message as one of its own: the early return of
\* CClientNetwork::Disconnect skips the join in no other case.
THEOREM OnlyLossAborts == Spec => []ConnectedAbortsOnlyWhenLost
BY Invariance, PTL DEF IInv, ThreadInv

\* CRoom believes what the server has recorded once nothing is on its way, because
\* answers are handled in the order they were sent, provided recv returns each
\* reply that changes the room in full and alone, and none that begins within one.
THEOREM BelievesTruth == Spec => []BelievesTheTruth
<1>1. IInv => BelievesTheTruth
  <2> SUFFICES ASSUME IInv, Settled, ~missed, ~misread
               PROVE  inRoom = (srvRoom # NoRoom) /\ (inRoom => roomId = srvRoom)
    BY DEF BelievesTheTruth
  <2>1. peerUp /\ Silent(toClient) /\ Silent(chunk)
    BY DEF Settled, Silent
  <2>2. roomId = srvRoom
    BY <2>1 DEF IInv, TruthInv
  <2>3. inRoom = (roomId # NoRoom)
    BY DEF IInv, TypeOK
  <2> QED BY <2>2, <2>3, Zenon
<1> QED BY <1>1, Invariance, PTL
=============================================================================

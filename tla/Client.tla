------------------------------- MODULE Client -------------------------------
(***************************************************************************)
(* The client program: the main thread of mainClient.cpp and               *)
(* CGameInstance::Run, the receive thread of CClientNetwork, and CRoom,    *)
(* what the client believes about its room.  The server appears as the     *)
(* room it has this player in and the replies it sends.                    *)
(*                                                                         *)
(* The n-th request of the user names room n and title n when it creates a *)
(* room; room 0 is somebody else's.  A message travels as two parts, the   *)
(* first of which has the header, and recv returns any number of parts.    *)
(* A buffer that begins within a message may be taken for any message.     *)
(***************************************************************************)
EXTENDS Integers, Sequences, SequencesExt

CONSTANT MaxRequests   \* bound: requests the user makes

ASSUME ClientAssumption == MaxRequests \in Nat

Rooms  == 0..MaxRequests
NoRoom == -1
Torn   == -1   \* a std::string another thread is assigning to
Replies == [type : {"LIST", "CREATED", "JOINED", "LEFT", "ERROR"},
            room : Rooms \cup {NoRoom}, ok : BOOLEAN]
Parts   == [msg : Replies, first : BOOLEAN]

VARIABLES
  running,      \* CGameInstance::_running
  connected,    \* CClientNetwork::_connected
  netRunning,   \* CClientNetwork::_running
  socket,       \* "none", "open", "closed"
  inRoom, roomId, title,   \* CRoom::_inRoom, _roomId, _title with _maxPlayers
  pendingTitle, \* CRoom::_pendingTitle with _pendingMaxPlayers
  main,         \* next step of the main thread
  thread,       \* next step of the receive thread
  joinable,     \* _recvThread.joinable()
  chunk,        \* what recv has put into buffer
  requests,     \* requests made so far
  toServer, toClient,      \* the two directions of the connection
  peerUp,       \* the other end has not gone away
  srvRoom,      \* the room in which the server has this player
  lost,         \* history: the receive thread saw the connection end
  missed,       \* history: a reply that changes the room was not handled
  misread,      \* history: the inside of a message was taken for such a reply
  overlapped    \* history: a room was asked for before the last answer

net     == <<connected, netRunning, socket, joinable>>
belief  == <<inRoom, roomId, title>>
wire    == <<toServer, toClient, peerUp, srvRoom>>
history == <<lost, missed, misread, overlapped>>
vars    == <<running, net, belief, pendingTitle, main, thread, chunk, requests,
             wire, history>>

Init ==
  /\ running = TRUE /\ connected = FALSE /\ netRunning = FALSE /\ socket = "none"
  /\ inRoom = FALSE /\ roomId = NoRoom /\ title = 0 /\ pendingTitle = 0
  /\ main = "menu" /\ thread = "none" /\ joinable = FALSE /\ chunk = <<>>
  /\ requests = 0 /\ toServer = <<>> /\ toClient = <<>> /\ peerUp = TRUE
  /\ srvRoom = NoRoom
  /\ lost = FALSE /\ missed = FALSE /\ misread = FALSE /\ overlapped = FALSE

Main(from, to)   == main = from /\ main' = to
Thread(from, to) == thread = from /\ thread' = to

\* A reply as it travels.
Sent(type, room, ok) ==
  LET m == [type |-> type, room |-> room, ok |-> ok]
  IN <<[msg |-> m, first |-> TRUE], [msg |-> m, first |-> FALSE]>>

-----------------------------------------------------------------------------
(* CGameInstance::Run and the menus.                                        *)

ShowMainMenu ==
  /\ main = "menu" /\ main' \in {"port", "shutdown"}
  /\ UNCHANGED <<running, net, belief, pendingTitle, thread, chunk, requests, wire, history>>

\* std::stoi throws on a port that is no number, and nobody catches.
EnterPort ==
  /\ main = "port" /\ main' \in {"connect", "aborted"}
  /\ UNCHANGED <<running, net, belief, pendingTitle, thread, chunk, requests, wire, history>>

Connect ==
  /\ Main("connect", "loop")
  /\ socket' = "open" /\ connected' = TRUE /\ netRunning' = TRUE
  /\ thread' = "test" /\ joinable' = TRUE
  /\ toClient' = Sent("LIST", NoRoom, TRUE)
  /\ UNCHANGED <<running, belief, pendingTitle, chunk, requests, toServer, peerUp,
                 srvRoom, history>>

ConnectFails ==
  /\ Main("connect", "shutdown")
  /\ UNCHANGED <<running, net, belief, pendingTitle, thread, chunk, requests, wire, history>>

\* One round of the main loop; _inRoom is read without the lock.
Run ==
  /\ Main("loop", IF ~(running /\ connected) THEN "shutdown"
                  ELSE IF inRoom THEN "room" ELSE "lobby")
  /\ UNCHANGED <<running, net, belief, pendingTitle, thread, chunk, requests, wire, history>>

\* SendPacket: nothing is sent, and nobody is told, without a connection.
SendPacket(request) ==
  /\ toServer' = IF connected /\ peerUp THEN Append(toServer, request) ELSE toServer
  /\ UNCHANGED <<toClient, peerUp, srvRoom>>

CreateUnanswered ==
  \/ \E i \in 1..Len(toServer) : toServer[i].type = "CREATE"
  \/ \E p \in Range(toClient) \cup Range(chunk) : p.msg.type = "CREATED"

\* RequestCreateRoom of CRoom notes the title first and then sends.  The
\* receive thread may read the title while it is assigned.
BeginCreate_SendFirst ==
  /\ Main("lobby", "creating") /\ requests < MaxRequests
  /\ requests' = requests + 1 /\ pendingTitle' = Torn
  /\ overlapped' = (overlapped \/ CreateUnanswered)
  /\ SendPacket([type |-> "CREATE", room |-> requests + 1])
  /\ UNCHANGED <<running, net, belief, thread, chunk, lost, missed, misread>>

BeginCreate ==
  /\ Main("lobby", "creating") /\ requests < MaxRequests
  /\ requests' = requests + 1 /\ pendingTitle' = Torn
  /\ overlapped' = (overlapped \/ CreateUnanswered)
  /\ UNCHANGED <<running, net, belief, thread, chunk, wire, lost, missed, misread>>

RequestCreateRoom ==
  /\ Main("creating", "loop")
  /\ pendingTitle' = requests
  /\ SendPacket([type |-> "CREATE", room |-> requests])
  /\ UNCHANGED <<running, net, belief, thread, chunk, requests, history>>

RequestJoinRoom ==
  /\ Main("lobby", "loop") /\ requests < MaxRequests
  /\ requests' = requests + 1
  /\ SendPacket([type |-> "JOIN", room |-> 0])
  /\ UNCHANGED <<running, net, belief, pendingTitle, thread, chunk, history>>

RequestRoomList ==
  /\ Main("lobby", "loop") /\ requests < MaxRequests
  /\ requests' = requests + 1
  /\ SendPacket([type |-> "LIST", room |-> NoRoom])
  /\ UNCHANGED <<running, net, belief, pendingTitle, thread, chunk, history>>

RequestLeaveRoom ==
  /\ Main("room", "loop") /\ requests < MaxRequests
  /\ requests' = requests + 1
  /\ SendPacket([type |-> "LEAVE", room |-> NoRoom])
  /\ UNCHANGED <<running, net, belief, pendingTitle, thread, chunk, history>>

\* An invalid choice, or [0] Disconnect, in either menu.
ChooseNothing ==
  /\ main \in {"lobby", "room"} /\ main' = "loop"
  /\ running' \in {running, FALSE}
  /\ UNCHANGED <<net, belief, pendingTitle, thread, chunk, requests, wire, history>>

-----------------------------------------------------------------------------
(* Shutdown and Disconnect, then the destructors.                           *)

Shutdown ==
  /\ Main("shutdown", IF connected THEN "disconnect" ELSE "destroy")
  /\ running' = FALSE
  /\ UNCHANGED <<net, belief, pendingTitle, thread, chunk, requests, wire, history>>

Disconnect ==
  /\ Main("disconnect", "close")
  /\ netRunning' = FALSE /\ connected' = FALSE
  /\ UNCHANGED <<running, socket, joinable, belief, pendingTitle, thread, chunk,
                 requests, wire, history>>

CloseSocket_NotYet ==
  /\ Main("close", "join")
  /\ UNCHANGED <<running, net, belief, pendingTitle, thread, chunk, requests, wire, history>>

CloseSocket ==
  /\ Main("close", "join")
  /\ socket' = "closed"
  /\ UNCHANGED <<running, connected, netRunning, joinable, belief, pendingTitle,
                 thread, chunk, requests, wire, history>>

JoinThread_Skipped ==
  /\ Main("join", "destroy")
  /\ UNCHANGED <<running, net, belief, pendingTitle, thread, chunk, requests, wire, history>>

JoinThread ==
  /\ Main("join", "destroy") /\ thread = "exited"
  /\ joinable' = FALSE
  /\ UNCHANGED <<running, connected, netRunning, socket, belief, pendingTitle,
                 thread, chunk, requests, wire, history>>

\* Both destructors find _connected cleared; a std::thread that is still
\* joinable ends the process with std::terminate.
Destroy ==
  /\ Main("destroy", IF joinable THEN "aborted" ELSE "ended")
  /\ UNCHANGED <<running, net, belief, pendingTitle, thread, chunk, requests, wire, history>>

-----------------------------------------------------------------------------
(* RecvThread.  An aborted process runs nothing any more.                   *)

Alive == main \notin {"aborted", "ended"}

RecvThread ==
  /\ Alive /\ Thread("test", IF netRunning /\ connected THEN "recv" ELSE "exited")
  /\ UNCHANGED <<running, net, belief, pendingTitle, main, chunk, requests, wire, history>>

Recv ==
  /\ Alive /\ socket = "open"
  /\ Thread("recv", "handle")
  /\ \E n \in 1..Len(toClient) : /\ chunk' = SubSeq(toClient, 1, n)
                                 /\ toClient' = SubSeq(toClient, n + 1, Len(toClient))
  /\ UNCHANGED <<running, net, belief, pendingTitle, main, requests, toServer,
                 peerUp, srvRoom, history>>

\* recv fails on a closed socket and ends with the peer.
RecvEnds ==
  /\ Alive /\ (socket = "closed" \/ (~peerUp /\ toClient = <<>>))
  /\ Thread("recv", "clear")
  /\ lost' = (lost \/ netRunning)
  /\ UNCHANGED <<running, net, belief, pendingTitle, main, chunk, requests, wire,
                 missed, misread, overlapped>>

ClearConnected ==
  /\ Alive /\ Thread("clear", "exited")
  /\ connected' = FALSE /\ netRunning' = FALSE
  /\ UNCHANGED <<running, socket, joinable, belief, pendingTitle, main, chunk,
                 requests, wire, history>>

\* The buffer begins with a message that is there in full: the one that
\* HandleServerMessage handles, and what follows it is dropped.
Whole == Len(chunk) >= 2 /\ chunk[1].first

ChangesRoom(m) == m.ok /\ m.type \in {"CREATED", "JOINED", "LEFT"}
Matters(p)     == p.first /\ ChangesRoom(p.msg)
Unseen         == {i \in 1..Len(chunk) : Matters(chunk[i]) /\ ~(i = 1 /\ Whole)}

OnRoomCreated(m) ==
  inRoom' = TRUE /\ roomId' = m.room /\ title' = pendingTitle

OnRoomJoined(m) == inRoom' = TRUE /\ roomId' = m.room /\ title' = title

OnRoomLeft_KeepFlag == inRoom' = inRoom /\ roomId' = NoRoom /\ title' = 0

OnRoomLeft == inRoom' = FALSE /\ roomId' = NoRoom /\ title' = 0

OnMessage_AnyResult(m) ==
  CASE m.type = "CREATED" -> OnRoomCreated(m)
    [] m.type = "JOINED"  -> OnRoomJoined(m)
    [] m.type = "LEFT"    -> OnRoomLeft
    [] OTHER              -> UNCHANGED belief

\* The handlers of CGameInstance: only a success changes the room.
OnMessage(m) ==
  CASE m.ok /\ m.type = "CREATED" -> OnRoomCreated(m)
    [] m.ok /\ m.type = "JOINED"  -> OnRoomJoined(m)
    [] m.ok /\ m.type = "LEFT"    -> OnRoomLeft
    [] OTHER                      -> UNCHANGED belief

\* A buffer that begins within a message has any bytes where a header should be.
HandleServerMessage ==
  /\ Alive /\ Thread("handle", "test")
  /\ \/ Whole /\ OnMessage(chunk[1].msg) /\ UNCHANGED misread
     \/ ~Whole /\ UNCHANGED <<belief, misread>>
     \/ /\ ~chunk[1].first
        /\ \E m \in Replies : OnMessage(m) /\ misread' = (misread \/ ChangesRoom(m))
  /\ missed' = (missed \/ Unseen # {})
  /\ chunk' = <<>>
  /\ UNCHANGED <<running, net, pendingTitle, main, requests, wire, lost, overlapped>>

\* Taken for a list of rooms, such bytes can name more rooms than there are: the
\* handler reads past the buffer, which may end the process.
ReadPastBuffer ==
  /\ Alive /\ thread = "handle" /\ ~chunk[1].first
  /\ main' = "aborted" /\ misread' = TRUE
  /\ UNCHANGED <<running, net, belief, pendingTitle, thread, chunk, requests, wire,
                 lost, missed, overlapped>>

-----------------------------------------------------------------------------
(* The server handles one request: a player is in one room at most, a room  *)
(* may be full and a title taken.                                           *)

Serve ==
  /\ peerUp /\ toServer # <<>>
  /\ toServer' = Tail(toServer)
  /\ LET r == Head(toServer)
         Reply(sent, room) == toClient' = toClient \o sent /\ srvRoom' = room
     IN \/ /\ r.type = "LIST"
           /\ Reply(Sent("LIST", NoRoom, TRUE), srvRoom)
        \/ /\ r.type = "CREATE" /\ srvRoom = NoRoom
           /\ Reply(Sent("CREATED", r.room, TRUE), r.room)
        \/ /\ r.type = "JOIN" /\ srvRoom = NoRoom
           /\ Reply(Sent("JOINED", r.room, TRUE), r.room)
        \/ /\ r.type = "CREATE"
           /\ Reply(Sent("CREATED", r.room, FALSE) \o Sent("ERROR", NoRoom, TRUE), srvRoom)
        \/ /\ r.type = "JOIN"
           /\ Reply(Sent("JOINED", r.room, FALSE) \o Sent("ERROR", NoRoom, TRUE), srvRoom)
        \/ /\ r.type = "LEAVE"
           /\ Reply(Sent("LEFT", NoRoom, srvRoom # NoRoom), NoRoom)
  /\ UNCHANGED <<running, net, belief, pendingTitle, main, thread, chunk, requests,
                 peerUp, history>>

\* The connection breaks, or the server drops this session; what was sent
\* may still arrive or not.
PeerGoes ==
  /\ peerUp /\ socket = "open"
  /\ peerUp' = FALSE /\ srvRoom' = NoRoom /\ toServer' = <<>>
  /\ toClient' \in {toClient, <<>>}
  /\ UNCHANGED <<running, net, belief, pendingTitle, main, thread, chunk, requests, history>>

\* The process has ended.
Ended == ~Alive /\ UNCHANGED vars

MainThread == Shutdown \/ Disconnect \/ CloseSocket \/ JoinThread \/ Destroy
User       == ShowMainMenu \/ EnterPort \/ Connect \/ ConnectFails \/ Run \/ BeginCreate
                \/ RequestCreateRoom \/ RequestJoinRoom \/ RequestRoomList
                \/ RequestLeaveRoom \/ ChooseNothing
RecvLoop   == RecvThread \/ Recv \/ RecvEnds \/ ClearConnected \/ HandleServerMessage
                \/ ReadPastBuffer

Next == User \/ MainThread \/ RecvLoop \/ Serve \/ PeerGoes \/ Ended

Spec == Init /\ [][Next]_vars

\* Both threads are scheduled; the user and the server may do nothing.
FairSpec == Spec /\ WF_vars(MainThread) /\ WF_vars(RecvLoop)
-----------------------------------------------------------------------------
(* Properties.                                                              *)

TypeOK ==
  /\ running \in BOOLEAN /\ connected \in BOOLEAN /\ netRunning \in BOOLEAN
  /\ socket \in {"none", "open", "closed"} /\ joinable \in BOOLEAN
  /\ inRoom \in BOOLEAN /\ roomId \in Rooms \cup {NoRoom}
  /\ title \in Rooms \cup {Torn} /\ pendingTitle \in Rooms \cup {Torn}
  /\ ~misread => inRoom = (roomId # NoRoom)
  /\ main \in {"menu", "port", "connect", "loop", "lobby", "room", "creating", "shutdown",
               "disconnect", "close", "join", "destroy", "ended", "aborted"}
  /\ thread \in {"none", "test", "recv", "handle", "clear", "exited"}
  /\ chunk \in Seq(Parts) /\ toClient \in Seq(Parts) /\ requests \in 0..MaxRequests
  /\ toServer \in Seq([type : {"LIST", "CREATE", "JOIN", "LEAVE"},
                       room : Rooms \cup {NoRoom}])
  /\ peerUp \in BOOLEAN /\ srvRoom \in Rooms \cup {NoRoom}
  /\ lost \in BOOLEAN /\ missed \in BOOLEAN /\ misread \in BOOLEAN /\ overlapped \in BOOLEAN

Settled == peerUp /\ toServer = <<>> /\ toClient = <<>> /\ chunk = <<>>

\* When no request and no reply is on its way, the client believes to be in the
\* room the server has it in, although the user may send requests from a menu
\* that was shown before the last reply.  The only ways to break this are a reply
\* that one recv returned in part or together with another, and the rest of a
\* message taken for a reply (ClientNetwork.cpp:96, 187).
BelievesTheTruth ==
  Settled /\ ~missed /\ ~misread =>
    inRoom = (srvRoom # NoRoom) /\ (inRoom => roomId = srvRoom)

\* The title shown for a room the client created is the title it asked for,
\* unless it asked for another room before the answer came (Room.cpp:30, 61), or
\* took the rest of a message for an answer.
TitleOfItsOwnRoom ==
  inRoom /\ roomId > 0 /\ ~overlapped /\ ~misread => title = roomId

\* Once connected, the process ends by std::terminate only after the receive thread
\* saw the connection end, or handled the rest of a message as one of its own; when
\* the user leaves, that thread has been joined.  Before, a port that is no number
\* ends it (GameInstance.cpp:78).
ConnectedAbortsOnlyWhenLost ==
  /\ main = "aborted" /\ thread # "none" => lost \/ misread
  /\ main = "ended" => thread \in {"none", "exited"} /\ ~joinable

\* Leaving never hangs: whatever the receive thread is doing, closing the
\* socket gets it out of recv and the join returns.
QuitEnds == main = "shutdown" ~> ~Alive
=============================================================================

----------------------------- MODULE GameServer -----------------------------
(***************************************************************************)
(* CCentralizedServer: the game thread takes one network event at a time   *)
(* and runs its handler to the end, so every handler is one step; what it  *)
(* does to the rooms is the operators of RoomManager, in the order of the  *)
(* code.  Events of different sessions reach the queue in any order; of    *)
(* one session CONNECTED comes first and DISCONNECTED once.  RECEIVED may  *)
(* follow DISCONNECTED, but finds no player then and is dropped.  A player *)
(* stands for the session id it is registered under; a name whose session  *)
(* is gone may be taken by a later session.                                *)
(***************************************************************************)
EXTENDS RoomManager

CONSTANTS
  Players, Titles, NoTitle,
  Limits,        \* values of maxPlayers a client may ask for
  HeaderBytes,   \* sizeof(MSG_S2C_ROOM_LIST)
  RoomBytes,     \* sizeof(RoomInfo)
  SizeMod,       \* 2^16: MsgHeader.size is a uint16_t; a send queue takes one less
  MaxRooms       \* bound: rooms ever created

ASSUME GameAssumption ==
  /\ NoPlayer \notin Players /\ NoTitle \notin Titles /\ Limits \subseteq Int
  /\ HeaderBytes \in Nat /\ RoomBytes \in Nat
  /\ SizeMod \in Nat \ {0} /\ MaxRooms \in Nat

VARIABLES
  arriving,   \* sessions whose CONNECTED event is in the event queue
  players,    \* _players
  mgr,        \* *_roomManager
  online,     \* sessions that CIOCPServer still sends to
  told,       \* the room each client is in, by the replies sent to it (0: none)
  listed      \* the last room list sent: its header.size and its room count

vars == <<arriving, players, mgr, online, told, listed>>

Init ==
  /\ arriving = {} /\ players = {} /\ online = {}
  /\ mgr = CRoomManager
  /\ told = [p \in Players |-> 0]
  /\ listed = [size |-> HeaderBytes, count |-> 0]

-----------------------------------------------------------------------------
(* The network side, as far as the game thread can see it.                  *)

Accept(p) ==
  /\ p \notin arriving \cup players \cup online
  /\ arriving' = arriving \cup {p} /\ online' = online \cup {p}
  /\ told' = [told EXCEPT ![p] = 0]
  /\ UNCHANGED <<players, mgr, listed>>

\* The connection is lost, or a send does not fit into the session's queue:
\* replies are dropped from now on and a DISCONNECTED event is on its way.
Lose(p) ==
  /\ p \in online
  /\ online' = online \ {p}
  /\ UNCHANGED <<arriving, players, mgr, told, listed>>

-----------------------------------------------------------------------------
(* Replies.                                                                 *)

ListBytes == HeaderBytes + RoomBytes * Len(mgr.list)

SendRoomList_Unchecked(p) ==
  /\ online' = online
  /\ listed' = IF p \in online
               THEN [size |-> ListBytes % SizeMod, count |-> Len(mgr.list)] ELSE listed

\* RequestSendMsg refuses a message longer than the queue and disconnects.
SendRoomList(p) ==
  IF p \in online /\ ListBytes < SizeMod
  THEN /\ listed' = [size |-> ListBytes % SizeMod, count |-> Len(mgr.list)]
       /\ online' = online
  ELSE listed' = listed /\ online' = online \ {p}

Tell(p, room) ==
  told' = IF p \in online THEN [told EXCEPT ![p] = room] ELSE told

-----------------------------------------------------------------------------
(* Handlers.                                                                *)

DispatchClientConnected(p) ==
  /\ p \in arriving
  /\ arriving' = arriving \ {p} /\ players' = players \cup {p}
  /\ SendRoomList(p)
  /\ UNCHANGED <<mgr, told>>

DispatchClientDisconnected_KeepRoom(p) ==
  /\ p \in players \ online
  /\ players' = players \ {p}
  /\ UNCHANGED <<arriving, mgr, online, told, listed>>

DispatchClientDisconnected(p) ==
  /\ p \in players \ online
  /\ mgr' = LeaveRoom(mgr, p)
  /\ players' = players \ {p}
  /\ UNCHANGED <<arriving, online, told, listed>>

HandleRequestRoomList(p) ==
  /\ SendRoomList(p)
  /\ UNCHANGED <<arriving, players, mgr, told>>

\* A room is created and then joined; a player who is in a room already does
\* not get in, and the new room stays.
HandleCreateRoom(p, title, maxPlayers) ==
  /\ mgr.next <= MaxRooms
  /\ IF \/ title = NoTitle \/ maxPlayers < 2 \/ maxPlayers > 10
        \/ FindRoomByTitle(mgr, title)
     THEN mgr' = mgr /\ told' = told
     ELSE LET created == CreateRoom(mgr, title, maxPlayers)
          IN IF CanJoinRoom(created, mgr.next, p)
             THEN mgr' = JoinRoom(created, mgr.next, p) /\ Tell(p, mgr.next)
             ELSE mgr' = created /\ told' = told
  /\ UNCHANGED <<arriving, players, online, listed>>

HandleJoinRoom_AlwaysSuccess(p, id) ==
  /\ IF CanJoinRoom(mgr, id, p) THEN mgr' = JoinRoom(mgr, id, p) ELSE mgr' = mgr
  /\ Tell(p, id)
  /\ UNCHANGED <<arriving, players, online, listed>>

HandleJoinRoom(p, id) ==
  /\ IF CanJoinRoom(mgr, id, p)
     THEN mgr' = JoinRoom(mgr, id, p) /\ Tell(p, id)
     ELSE mgr' = mgr /\ told' = told
  /\ UNCHANGED <<arriving, players, online, listed>>

HandleLeaveRoom(p) ==
  /\ mgr' = LeaveRoom(mgr, p)
  /\ IF CanLeaveRoom(mgr, p) THEN Tell(p, 0) ELSE told' = told
  /\ UNCHANGED <<arriving, players, online, listed>>

\* A message of a session that has no player is dropped.
DispatchDataReceived(p) ==
  /\ p \in players
  /\ \/ HandleRequestRoomList(p)
     \/ \E title \in Titles \cup {NoTitle}, maxPlayers \in Limits :
          HandleCreateRoom(p, title, maxPlayers)
     \/ \E id \in 1..MaxRooms : HandleJoinRoom(p, id)
     \/ HandleLeaveRoom(p)

Next == \E p \in Players : \/ Accept(p) \/ Lose(p)
                           \/ DispatchClientConnected(p)
                           \/ DispatchDataReceived(p)
                           \/ DispatchClientDisconnected(p)

Spec == Init /\ [][Next]_vars
-----------------------------------------------------------------------------
(* Properties.                                                              *)

Rooms == DOMAIN mgr.rooms
In(p, r) == p \in Members(mgr.rooms[r])

TypeOK ==
  /\ arriving \subseteq Players /\ players \subseteq Players /\ online \subseteq Players
  /\ arriving \cap players = {} /\ online \subseteq arriving \cup players
  /\ mgr.next \in 1..MaxRooms + 1 /\ Rooms \subseteq 1..mgr.next - 1
  /\ \A r \in Rooms : /\ mgr.rooms[r].title \in Titles
                      /\ mgr.rooms[r].players \in Seq(Players)
                      /\ mgr.rooms[r].max \in Limits
  /\ told \in [Players -> 0..MaxRooms]

\* The structures that say who is in which room agree: the member lists with
\* their cached counts, the list of rooms, the player-to-room map and the map of
\* players.  So nobody is in two rooms, a session that has gone leaves nothing
\* behind, LeaveRoom's branch for a mapping to a missing room is dead, and no
\* room has more members than it was created for.
MapsAgree ==
  /\ \A p \in DOMAIN mgr.where : mgr.where[p] \in Rooms /\ In(p, mgr.where[p])
  /\ \A r \in Rooms, p \in Players :
       In(p, r) => p \in DOMAIN mgr.where /\ mgr.where[p] = r
  /\ DOMAIN mgr.where \subseteq players
  /\ \A r \in Rooms : /\ IsInjective(mgr.rooms[r].players)
                      /\ mgr.rooms[r].current = Len(mgr.rooms[r].players)
                      /\ mgr.rooms[r].current <= mgr.rooms[r].max
  /\ IsInjective(mgr.list) /\ Range(mgr.list) = Rooms

\* The owner is the member who has been there longest, whoever left before, and
\* only an empty room has none.
OwnerIsFirstMember ==
  \A r \in Rooms : mgr.rooms[r].owner = IF mgr.rooms[r].players = <<>> THEN NoPlayer
                                        ELSE Head(mgr.rooms[r].players)

\* A client that gets its replies knows from them which room it is in.
ToldTheTruth ==
  \A p \in players \cap online :
    told[p] = IF p \in DOMAIN mgr.where THEN mgr.where[p] ELSE 0

\* A room list that is sent has its true length in the 16 bits of header.size,
\* however many rooms there are.
SizeFieldExact == listed.size = HeaderBytes + RoomBytes * listed.count

\* An empty room was never entered: it was created while some player was in a
\* room, as a creator who is in none gets in (CentralizedServer.cpp:199), and
\* nobody has joined it since.  One that loses its last member is deleted in the
\* same step.
EmptyOnlyFromBirth ==
  [][\A r \in DOMAIN mgr'.rooms : Members(mgr'.rooms[r]) = {} =>
       IF r \in Rooms THEN Members(mgr.rooms[r]) = {} ELSE DOMAIN mgr.where # {}]_vars
=============================================================================

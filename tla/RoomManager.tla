---------------------------- MODULE RoomManager ----------------------------
(***************************************************************************)
(* CRoom and CRoomManager as operators on a record that holds the members  *)
(* of the class:                                                           *)
(*   next   _roomIdCounter         rooms  _roomMap, room by id             *)
(*   list   _roomList, by room id  where  _playerToRoomMap, id by player   *)
(* The methods that return bool are a guard, Can..., and an effect.        *)
(***************************************************************************)
EXTENDS Integers, Sequences, SequencesExt

CONSTANT NoPlayer      \* the null _owner

\* operator[] and erase of the maps.
Put(f, k, v) == [x \in DOMAIN f \cup {k} |-> IF x = k THEN v ELSE f[x]]
Erase(f, K)  == [x \in DOMAIN f \ K |-> f[x]]

-----------------------------------------------------------------------------
(* CRoom.                                                                   *)

CRoom(title, maxPlayers) ==
  [title |-> title, players |-> <<>>, current |-> 0, max |-> maxPlayers,
   owner |-> NoPlayer]

Members(room) == {room.players[i] : i \in 1..Len(room.players)}

CanAddPlayer(room, p) == room.current < room.max /\ p \notin Members(room)

AddPlayer(room, p) ==
  LET players == Append(room.players, p)
  IN [room EXCEPT !.players = players,
                  !.current = Len(players),
                  !.owner   = IF @ = NoPlayer THEN p ELSE @]

OwnerOnLeave_Kept(room, p) == room.owner

\* UpdateOwnerOnLeave: the first of the others, in order of arrival.
OwnerOnLeave(room, p) ==
  IF room.owner # p THEN room.owner
  ELSE IF Members(room) \subseteq {p} THEN NoPlayer
  ELSE room.players[SelectInSeq(room.players, LAMBDA q : q # p)]

RemovePlayer(room, p) ==
  IF p \notin Members(room) THEN room
  ELSE LET players == RemoveFirst(room.players, p)
       IN [room EXCEPT !.owner   = OwnerOnLeave(room, p),
                       !.players = players,
                       !.current = Len(players)]

-----------------------------------------------------------------------------
(* CRoomManager.                                                            *)

CRoomManager ==
  [next |-> 1, list |-> <<>>, rooms |-> [r \in {} |-> CRoom("", 0)],
   where |-> [p \in {} |-> 0]]

CreateRoom_SameId(m, title, maxPlayers) ==
  [m EXCEPT !.list  = <<m.next>> \o @,
            !.rooms = Put(@, m.next, CRoom(title, maxPlayers))]

\* The new room's id is m.next.
CreateRoom(m, title, maxPlayers) ==
  [m EXCEPT !.next  = @ + 1,
            !.list  = <<m.next>> \o @,
            !.rooms = Put(@, m.next, CRoom(title, maxPlayers))]

DeleteRoom(m, id) ==
  [m EXCEPT !.where = Erase(@, Members(m.rooms[id])),
            !.list  = RemoveFirst(@, id),
            !.rooms = Erase(@, {id})]

FindRoomByTitle(m, title) ==
  \E i \in 1..Len(m.list) : m.rooms[m.list[i]].title = title

CanJoinRoom(m, id, p) == /\ p \notin DOMAIN m.where
                         /\ id \in DOMAIN m.rooms
                         /\ CanAddPlayer(m.rooms[id], p)

JoinRoom(m, id, p) ==
  [m EXCEPT !.rooms = Put(@, id, AddPlayer(m.rooms[id], p)),
            !.where = Put(@, p, id)]

CanLeaveRoom(m, p) == p \in DOMAIN m.where /\ m.where[p] \in DOMAIN m.rooms

LeaveRoom_KeepEmpty(m, p) ==
  IF ~CanLeaveRoom(m, p) THEN [m EXCEPT !.where = Erase(@, {p})]
  ELSE LET id == m.where[p]
       IN [m EXCEPT !.rooms = Put(@, id, RemovePlayer(m.rooms[id], p)),
                    !.where = Erase(@, {p})]

\* The effect of LeaveRoom in every case: a mapping to a room that is not there
\* is dropped too, and an empty room is deleted.
LeaveRoom(m, p) ==
  IF ~CanLeaveRoom(m, p) THEN [m EXCEPT !.where = Erase(@, {p})]
  ELSE LET id   == m.where[p]
           left == [m EXCEPT !.rooms = Put(@, id, RemovePlayer(m.rooms[id], p)),
                             !.where = Erase(@, {p})]
       IN IF left.rooms[id].current = 0 THEN DeleteRoom(left, id) ELSE left
=============================================================================

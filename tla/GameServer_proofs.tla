------------------------- MODULE GameServer_proofs -------------------------
(***************************************************************************)
(* Proofs about RoomManager and GameServer, for any sets of players,       *)
(* titles and limits and any number of rooms.                              *)
(***************************************************************************)
EXTENDS GameServer, SequenceTheorems, TLAPS

-----------------------------------------------------------------------------
(* What erasing an element does to a list without duplicates.               *)

\* Erasing an element moves those behind it one place forward.
LEMMA Erased ==
  ASSUME NEW S, NEW s \in Seq(S), IsInjective(s), NEW k \in 1..Len(s)
  PROVE  LET t == RemoveFirst(s, s[k])
         IN /\ t \in Seq(S) /\ Len(t) = Len(s) - 1
            /\ \A i \in 1..Len(t) : t[i] = IF i < k THEN s[i] ELSE s[i+1]
<1> DEFINE t == RemoveFirst(s, s[k])
           u == SubSeq(s, 1, k-1)
           v == SubSeq(s, k+1, Len(s))
<1>1. t = u \o v
  <2>1. {i \in 1..Len(s) : s[i] = s[k]} = {k}
    BY LenProperties DEF IsInjective
  <2>2. Min({k}) = k
    BY DEF Min
  <2> QED BY <2>1, <2>2, Zenon DEF RemoveFirst, RemoveAt, SelectInSeq
<1>2. Len(s) \in Nat /\ \A i \in 1..Len(s) : s[i] \in S
  BY LenProperties, ElementOfSeq
<1>3. /\ u \in Seq(S) /\ Len(u) = k - 1
      /\ \A i \in 1..k-1 : u[i] = s[i]
  BY <1>2, SubSeqProperties, Z3
<1>4. /\ v \in Seq(S) /\ Len(v) = Len(s) - k
      /\ \A i \in 1..Len(s)-k : v[i] = s[k+i]
  BY <1>2, SubSeqProperties, Z3
<1> HIDE DEF t, u, v
<1>5. /\ t \in Seq(S) /\ Len(t) = Len(s) - 1
      /\ \A i \in 1..Len(t) : t[i] = IF i <= k-1 THEN u[i] ELSE v[i-(k-1)]
  <2>1. /\ u \o v \in Seq(S) /\ Len(u \o v) = Len(u) + Len(v)
        /\ \A i \in 1..Len(u) + Len(v) : (u \o v)[i] = IF i <= Len(u) THEN u[i] ELSE v[i - Len(u)]
    BY <1>3, <1>4, ConcatProperties
  <2>2. Len(u) + Len(v) = Len(s) - 1 /\ Len(u) = k-1
    BY <1>2, <1>3, <1>4
  <2> QED BY <1>1, <2>1, <2>2, Zenon
<1>6. ASSUME NEW i \in 1..Len(t) PROVE t[i] = IF i < k THEN s[i] ELSE s[i+1]
  <2>1. CASE i < k
    BY <1>2, <1>3, <1>5, <2>1
  <2>2. CASE i >= k
    <3>1. i - (k-1) \in 1..Len(s)-k /\ k + (i - (k-1)) = i + 1
      BY <1>2, <1>5, <2>2
    <3> QED BY <1>2, <1>4, <1>5, <2>2, <3>1
  <2> QED BY <1>2, <1>5, <2>1, <2>2
<1> QED BY <1>5, <1>6 DEF t

Elements(s) == {s[i] : i \in 1..Len(s)}

\* ... keeps the others, each once.
LEMMA ErasedSet ==
  ASSUME NEW S, NEW s \in Seq(S), IsInjective(s), NEW k \in 1..Len(s)
  PROVE  LET t == RemoveFirst(s, s[k])
         IN IsInjective(t) /\ Elements(t) = Elements(s) \ {s[k]}
<1> DEFINE t == RemoveFirst(s, s[k])
<1>1. /\ t \in Seq(S) /\ Len(t) = Len(s) - 1 /\ Len(s) \in Nat
      /\ \A i \in 1..Len(t) : t[i] = IF i < k THEN s[i] ELSE s[i+1]
  BY Erased, LenProperties
<1> HIDE DEF t
<1>2. DOMAIN t = 1..Len(t) /\ DOMAIN s = 1..Len(s)
  BY <1>1, LenProperties
<1>3. \A i, j \in 1..Len(s) : s[i] = s[j] => i = j
  BY <1>2 DEF IsInjective
<1>4. IsInjective(t)
  <2> SUFFICES ASSUME NEW i \in 1..Len(t), NEW j \in 1..Len(t), t[i] = t[j] PROVE i = j
    BY <1>2 DEF IsInjective
  <2> QED BY <1>1, <1>3
<1>5. ASSUME NEW i \in 1..Len(t) PROVE t[i] \in Elements(s) \ {s[k]}
  <2>1. PICK j \in 1..Len(s) : t[i] = s[j] /\ j # k
    BY <1>1
  <2> QED BY <1>3, <2>1 DEF Elements
<1>6. ASSUME NEW j \in 1..Len(s), s[j] # s[k] PROVE s[j] \in Elements(t)
  <2>1. CASE j < k
    BY <1>1, <2>1 DEF Elements
  <2>2. CASE j > k
    <3>1. j - 1 \in 1..Len(t) /\ t[j-1] = s[j]
      BY <1>1, <2>2
    <3> QED BY <3>1 DEF Elements
  <2> QED BY <1>6, <2>1, <2>2
<1>7. Elements(t) = Elements(s) \ {s[k]}
  BY <1>5, <1>6 DEF Elements
<1> QED BY <1>4, <1>7 DEF t

\* A new element in front of a list.
LEMMA Prepended ==
  ASSUME NEW s \in Seq(Nat), IsInjective(s), NEW e \in Nat, e \notin Elements(s)
  PROVE  LET t == <<e>> \o s
         IN t \in Seq(Nat) /\ IsInjective(t) /\ Elements(t) = Elements(s) \cup {e}
<1> DEFINE t == <<e>> \o s
<1>1. Len(s) \in Nat /\ DOMAIN s = 1..Len(s)
  BY LenProperties
<1>2. <<e>> \in Seq(Nat) /\ Len(<<e>>) = 1 /\ <<e>>[1] = e
  OBVIOUS
<1>3. /\ t \in Seq(Nat) /\ Len(t) = 1 + Len(s)
      /\ \A i \in 1..1 + Len(s) : t[i] = IF i <= 1 THEN <<e>>[i] ELSE s[i-1]
  BY <1>2, ConcatProperties
<1>4. DOMAIN t = 1..Len(t)
  BY <1>3, LenProperties
<1> HIDE DEF t
<1>5. t[1] = e
  BY <1>1, <1>2, <1>3
<1>6. ASSUME NEW i \in 1..Len(s) PROVE i + 1 \in 1..Len(t) /\ t[i+1] = s[i]
  <2>1. i + 1 \in 1..1 + Len(s) /\ ~(i + 1 <= 1) /\ (i + 1) - 1 = i
    BY <1>1
  <2> QED BY <1>3, <2>1
<1>7. ASSUME NEW j \in 1..Len(t), j # 1 PROVE \E i \in 1..Len(s) : j = i + 1
  <2>1. j - 1 \in 1..Len(s) /\ j = (j - 1) + 1
    BY <1>1, <1>3, <1>7
  <2> QED BY <2>1
<1>8. IsInjective(t)
  <2> SUFFICES ASSUME NEW i \in 1..Len(t), NEW j \in 1..Len(t), t[i] = t[j] PROVE i = j
    BY <1>4 DEF IsInjective
  <2>1. \A k \in 1..Len(s) : s[k] # e
    BY DEF Elements
  <2>2. \A k, l \in 1..Len(s) : s[k] = s[l] => k = l
    BY <1>1 DEF IsInjective
  <2>3. ASSUME NEW k \in 1..Len(t), k # 1 PROVE t[k] # e
    <3>1. PICK l \in 1..Len(s) : k = l + 1
      BY <1>7, <2>3
    <3> QED BY <1>6, <2>1, <3>1
  <2>4. CASE i # 1 /\ j # 1
    <3>1. PICK k \in 1..Len(s), l \in 1..Len(s) : i = k + 1 /\ j = l + 1
      BY <1>7, <2>4
    <3> QED BY <1>6, <2>2, <3>1
  <2> QED BY <1>5, <2>3, <2>4
<1>9. Elements(t) = Elements(s) \cup {e}
  <2>1. 1 \in 1..Len(t)
    BY <1>1, <1>3
  <2>2. ASSUME NEW j \in 1..Len(t), j # 1 PROVE t[j] \in Elements(s)
    <3>1. PICK l \in 1..Len(s) : j = l + 1
      BY <1>7, <2>2
    <3> QED BY <1>6, <3>1 DEF Elements
  <2>3. \A i \in 1..Len(s) : s[i] \in Elements(t)
    BY <1>6 DEF Elements
  <2>4. e \in Elements(t)
    BY <1>5, <2>1 DEF Elements
  <2> QED BY <1>5, <2>2, <2>3, <2>4 DEF Elements
<1> QED BY <1>3, <1>8, <1>9 DEF t

-----------------------------------------------------------------------------
(* Rooms.                                                                   *)

RoomType == [title : Titles, players : Seq(Players), current : Nat, max : Limits,
             owner : Players \cup {NoPlayer}]

\* What holds of a CRoom between two calls.
GoodRoom(room) ==
  /\ room \in RoomType
  /\ IsInjective(room.players) /\ room.current = Len(room.players) /\ room.current <= room.max
  /\ room.owner = IF room.players = <<>> THEN NoPlayer ELSE Head(room.players)

\* The constructor of CRoom.
LEMMA NewRoom ==
  ASSUME NEW title \in Titles, NEW maxPlayers \in Limits, maxPlayers >= 2
  PROVE  GoodRoom(CRoom(title, maxPlayers)) /\ Members(CRoom(title, maxPlayers)) = {}
<1> DEFINE room == CRoom(title, maxPlayers)
<1>1. /\ room \in RoomType /\ room.players = <<>> /\ room.current = 0 /\ room.owner = NoPlayer
      /\ room.current <= room.max
  BY GameAssumption DEF CRoom, RoomType
<1>2. IsInjective(<<>>) /\ Len(<<>>) = 0
  BY DEF IsInjective
<1> HIDE DEF room
<1>3. GoodRoom(room) /\ Members(room) = {}
  BY <1>1, <1>2 DEF GoodRoom, Members
<1> QED BY <1>3 DEF room

\* A player who is not a member yet and for whom there is room comes last and changes the owner of an
\* empty room only.
LEMMA AddGood ==
  ASSUME NEW room, GoodRoom(room), NEW p \in Players, CanAddPlayer(room, p)
  PROVE  /\ GoodRoom(AddPlayer(room, p))
         /\ Members(AddPlayer(room, p)) = Members(room) \cup {p}
<1> DEFINE old == room.players
           new == Append(old, p)
           added == AddPlayer(room, p)
<1>1. room \in RoomType /\ old \in Seq(Players) /\ Len(old) \in Nat
  BY LenProperties DEF GoodRoom, RoomType
<1>2. /\ new \in Seq(Players) /\ new # <<>> /\ Len(new) = Len(old) + 1
      /\ \A i \in 1..Len(old) : new[i] = old[i]
      /\ new[Len(old) + 1] = p
  BY <1>1, AppendProperties
<1>3. Head(new) = IF old = <<>> THEN p ELSE Head(old)
  BY <1>1, HeadTailAppend
<1>4. old # <<>> => Head(old) \in Players
  BY <1>1, HeadTailProperties
<1>5. /\ added.players = new /\ added.current = Len(new)
      /\ added.owner = IF old = <<>> THEN p ELSE room.owner
  BY <1>1, <1>4, GameAssumption DEF AddPlayer, RoomType, GoodRoom
<1>6. added \in RoomType
  <2>1. Len(new) \in Nat
    BY <1>1, <1>2
  <2> HIDE DEF new
  <2> QED BY <1>1, <1>2, <2>1 DEF AddPlayer, RoomType, new
<1>7. p \notin Elements(old)
  BY DEF CanAddPlayer, Members, Elements
<1>8. IsInjective(new)
  <2>1. DOMAIN new = 1..Len(new) /\ DOMAIN old = 1..Len(old)
    BY <1>1, <1>2, LenProperties
  <2>2. IsInjective(old)
    BY DEF GoodRoom
  <2> HIDE DEF new, old
  <2> QED BY <1>1, <1>2, <1>7, <2>1, <2>2 DEF IsInjective, Elements
<1>9. Elements(new) = Elements(old) \cup {p}
  <2> HIDE DEF new, old
  <2> QED BY <1>1, <1>2 DEF Elements
<1>10. added.owner = Head(new)
  BY <1>3, <1>5 DEF GoodRoom
<1>13. added.current <= added.max
  <2>1. room.current < room.max /\ room.current = Len(old) /\ room.max \in Int
    BY <1>1, GameAssumption DEF CanAddPlayer, GoodRoom, RoomType
  <2>2. added.max = room.max
    BY <1>1 DEF AddPlayer, RoomType
  <2> HIDE DEF old, new, added
  <2> QED BY <1>1, <1>2, <1>5, <2>1, <2>2
<1>11. GoodRoom(added)
  BY <1>2, <1>5, <1>6, <1>8, <1>10, <1>13 DEF GoodRoom
<1>12. Members(added) = Members(room) \cup {p}
  BY <1>5, <1>9 DEF Members, Elements
<1> QED BY <1>11, <1>12

\* UpdateOwnerOnLeave: when the first leaves, the second is the owner.
LEMMA SecondIsNext ==
  ASSUME NEW room, GoodRoom(room), Len(room.players) > 1
  PROVE  OwnerOnLeave(room, room.players[1]) = room.players[2]
<1> DEFINE s == room.players
<1>1. /\ s \in Seq(Players) /\ Len(s) \in Nat /\ DOMAIN s = 1..Len(s)
      /\ IsInjective(s) /\ s # <<>> /\ room.owner = Head(s)
  BY LenProperties DEF GoodRoom, RoomType
<1>2. Head(s) = s[1]
  BY <1>1
<1>3. \A i, j \in 1..Len(s) : s[i] = s[j] => i = j
  BY <1>1 DEF IsInjective
<1>4. s[2] # s[1] /\ s[2] \in Members(room)
  BY <1>1, <1>3 DEF Members
<1>5. {i \in 1..Len(s) : s[i] # s[1]} = 2..Len(s)
  BY <1>1, <1>3
<1>6. Min(2..Len(s)) = 2
  BY <1>1 DEF Min
<1>7. 2..Len(s) # {}
  <2>1. 2 \in 2..Len(s)
    BY <1>1
  <2> QED BY <2>1
<1> HIDE DEF s
<1> QED BY <1>1, <1>2, <1>4, <1>5, <1>6, <1>7, Zenon DEF OwnerOnLeave, SelectInSeq, s

\* A member who leaves is taken out; the others keep their order, and the owner
\* is the first of them.
LEMMA RemoveGood ==
  ASSUME NEW room, GoodRoom(room), NEW p \in Members(room)
  PROVE  /\ GoodRoom(RemovePlayer(room, p))
         /\ Members(RemovePlayer(room, p)) = Members(room) \ {p}
<1> DEFINE old == room.players
           new == RemoveFirst(old, p)
           left == RemovePlayer(room, p)
<1>1. room \in RoomType /\ old \in Seq(Players) /\ Len(old) \in Nat /\ IsInjective(old)
  BY LenProperties DEF GoodRoom, RoomType
<1>2. PICK k \in 1..Len(old) : p = old[k]
  BY DEF Members
<1>3. /\ new \in Seq(Players) /\ Len(new) = Len(old) - 1
      /\ \A i \in 1..Len(new) : new[i] = IF i < k THEN old[i] ELSE old[i+1]
      /\ IsInjective(new) /\ Elements(new) = Elements(old) \ {p}
  BY <1>1, <1>2, Erased, ErasedSet
<1>4. /\ left.players = new /\ left.current = Len(new)
      /\ left.owner = OwnerOnLeave(room, p)
  BY <1>1 DEF RemovePlayer, RoomType
<1>5. old # <<>> /\ room.owner = old[1] /\ old[1] \in Players
  BY <1>1, <1>2 DEF GoodRoom
<1>6. new # <<>> => Head(new) = new[1]
  BY <1>3
<1>7. OwnerOnLeave(room, p) = IF new = <<>> THEN NoPlayer ELSE Head(new)
  <2>1. CASE Len(old) = 1
    <3>1. k = 1 /\ new = <<>>
      BY <1>1, <1>3, <2>1
    <3>2. Members(room) = {p}
      BY <1>2, <2>1, <3>1 DEF Members
    <3> QED BY <1>2, <1>5, <3>1, <3>2 DEF OwnerOnLeave
  <2>2. CASE Len(old) > 1 /\ k = 1
    <3>1. new # <<>> /\ new[1] = old[2]
      BY <1>1, <1>3, <2>2
    <3> QED BY <1>2, <1>6, <2>2, <3>1, SecondIsNext
  <2>3. CASE Len(old) > 1 /\ k # 1
    <3>1. new # <<>> /\ new[1] = old[1]
      BY <1>1, <1>3, <2>3
    <3>2. old[1] # p
      BY <1>1, <1>2, <2>3, LenProperties DEF IsInjective
    <3> QED BY <1>5, <1>6, <3>1, <3>2 DEF OwnerOnLeave
  <2>4. Len(old) = 1 \/ (Len(old) > 1 /\ k = 1) \/ (Len(old) > 1 /\ k # 1)
    <3> DEFINE n == Len(old)
    <3>1. n \in Nat /\ k \in 1..n
      BY <1>1, <1>2
    <3> HIDE DEF n
    <3>2. n = 1 \/ (n > 1 /\ k = 1) \/ (n > 1 /\ k # 1)
      BY <3>1
    <3> QED BY <3>2 DEF n
  <2> QED BY <2>1, <2>2, <2>3, <2>4, Zenon
<1>8. Len(new) \in Nat /\ (new # <<>> => Head(new) \in Players)
  BY <1>3, LenProperties, HeadTailProperties
<1>9. left \in RoomType
  <2> HIDE DEF new
  <2> QED BY <1>1, <1>3, <1>7, <1>8 DEF RemovePlayer, RoomType, new
<1>12. left.current <= left.max
  <2>1. room.current <= room.max /\ room.current = Len(old) /\ room.max \in Int
    BY <1>1, GameAssumption DEF GoodRoom, RoomType
  <2>2. left.max = room.max
    BY <1>1 DEF RemovePlayer, RoomType
  <2> HIDE DEF old, new, left
  <2> QED BY <1>1, <1>3, <1>4, <2>1, <2>2
<1>10. GoodRoom(left)
  BY <1>3, <1>4, <1>7, <1>9, <1>12 DEF GoodRoom
<1>11. Members(left) = Members(room) \ {p}
  BY <1>3, <1>4 DEF Members, Elements
<1> QED BY <1>10, <1>11

\* The cached count tells an empty room.
LEMMA CountTells ==
  ASSUME NEW room, GoodRoom(room)
  PROVE  room.current = 0 <=> Members(room) = {}
<1>1. room.current = Len(room.players) /\ Len(room.players) \in Nat
  BY LenProperties DEF GoodRoom, RoomType
<1>2. CASE Len(room.players) = 0
  BY <1>1, <1>2 DEF Members
<1>3. CASE Len(room.players) # 0
  <2>1. 1 \in 1..Len(room.players)
    BY <1>1, <1>3
  <2> QED BY <1>1, <1>3, <2>1 DEF Members
<1> QED BY <1>2, <1>3
-----------------------------------------------------------------------------
(* The room manager.                                                        *)

\* The fields of the record, so that EXCEPT changes what it names.
Shape(m) ==
  m \in [next : {m.next}, list : {m.list}, rooms : {m.rooms}, where : {m.where}]

\* What holds of CRoomManager between two calls.
GoodManager(m) ==
  /\ Shape(m)
  /\ m.next \in Nat \ {0} /\ DOMAIN m.rooms \subseteq 1..m.next - 1
  /\ \A r \in DOMAIN m.rooms : GoodRoom(m.rooms[r])
  /\ m.list \in Seq(Nat) /\ IsInjective(m.list) /\ Elements(m.list) = DOMAIN m.rooms
  /\ \A p \in DOMAIN m.where : /\ m.where[p] \in DOMAIN m.rooms
                               /\ p \in Members(m.rooms[m.where[p]])
  /\ \A r \in DOMAIN m.rooms, p \in Players :
       p \in Members(m.rooms[r]) => p \in DOMAIN m.where /\ m.where[p] = r

\* CreateRoom adds an empty room under a new id.
LEMMA CreateGood ==
  ASSUME NEW m, GoodManager(m), NEW title \in Titles, NEW maxPlayers \in Limits, maxPlayers >= 2
  PROVE  LET created == CreateRoom(m, title, maxPlayers)
         IN /\ GoodManager(created)
            /\ created.next = m.next + 1 /\ created.where = m.where
            /\ DOMAIN created.rooms = DOMAIN m.rooms \cup {m.next}
            /\ m.next \notin DOMAIN m.rooms
            /\ created.rooms[m.next] = CRoom(title, maxPlayers)
            /\ \A r \in DOMAIN m.rooms : created.rooms[r] = m.rooms[r]
<1> DEFINE created == CreateRoom(m, title, maxPlayers)
           room == CRoom(title, maxPlayers)
<1>1. /\ Shape(created)
      /\ created.next = m.next + 1 /\ created.where = m.where
      /\ created.list = <<m.next>> \o m.list /\ created.rooms = Put(m.rooms, m.next, room)
  <2> HIDE DEF room
  <2> QED BY DEF GoodManager, Shape, CreateRoom, room
<1>2. m.next \in Nat \ {0} /\ m.next \notin DOMAIN m.rooms
  BY DEF GoodManager
<1> HIDE DEF created
<1>3. /\ DOMAIN created.rooms = DOMAIN m.rooms \cup {m.next}
      /\ created.rooms[m.next] = room
      /\ \A r \in DOMAIN m.rooms : created.rooms[r] = m.rooms[r]
  BY <1>1, <1>2 DEF Put
<1>4. GoodRoom(room) /\ Members(room) = {}
  BY NewRoom
<1> HIDE DEF room
<1>5. \A r \in DOMAIN created.rooms : GoodRoom(created.rooms[r])
  BY <1>3, <1>4 DEF GoodManager
<1>6. /\ created.list \in Seq(Nat) /\ IsInjective(created.list)
      /\ Elements(created.list) = DOMAIN created.rooms
  <2>1. m.list \in Seq(Nat) /\ IsInjective(m.list) /\ Elements(m.list) = DOMAIN m.rooms
    BY DEF GoodManager
  <2> QED BY <1>1, <1>2, <1>3, <2>1, Prepended
<1>7. /\ created.next \in Nat \ {0} /\ DOMAIN created.rooms \subseteq 1..created.next - 1
  BY <1>1, <1>2, <1>3 DEF GoodManager
<1>8. GoodManager(created)
  <2>1. \A p \in DOMAIN created.where : /\ created.where[p] \in DOMAIN created.rooms
                                        /\ p \in Members(created.rooms[created.where[p]])
    BY <1>1, <1>3 DEF GoodManager
  <2>2. \A r \in DOMAIN created.rooms, p \in Players :
          p \in Members(created.rooms[r]) => p \in DOMAIN created.where /\ created.where[p] = r
    BY <1>1, <1>3, <1>4 DEF GoodManager
  <2> QED BY <1>1, <1>5, <1>6, <1>7, <2>1, <2>2 DEF GoodManager
<1> QED BY <1>1, <1>2, <1>3, <1>8 DEF created, room

\* JoinRoom puts a player who is nowhere into a room, and touches no other.
LEMMA JoinGood ==
  ASSUME NEW m, GoodManager(m), NEW id, NEW p \in Players, CanJoinRoom(m, id, p)
  PROVE  LET joined == JoinRoom(m, id, p)
         IN /\ GoodManager(joined) /\ joined.next = m.next
            /\ DOMAIN joined.rooms = DOMAIN m.rooms
            /\ Members(joined.rooms[id]) = Members(m.rooms[id]) \cup {p}
            /\ \A r \in DOMAIN m.rooms \ {id} : joined.rooms[r] = m.rooms[r]
            /\ DOMAIN joined.where = DOMAIN m.where \cup {p} /\ joined.where[p] = id
            /\ \A q \in DOMAIN m.where : joined.where[q] = m.where[q]
<1> DEFINE joined == JoinRoom(m, id, p)
           room == AddPlayer(m.rooms[id], p)
<1>1. /\ Shape(joined)
      /\ joined.next = m.next /\ joined.where = Put(m.where, p, id)
      /\ joined.list = m.list /\ joined.rooms = Put(m.rooms, id, room)
  <2> HIDE DEF room
  <2> QED BY DEF GoodManager, Shape, JoinRoom, room
<1>2. /\ p \notin DOMAIN m.where /\ id \in DOMAIN m.rooms
      /\ CanAddPlayer(m.rooms[id], p) /\ GoodRoom(m.rooms[id])
  BY DEF CanJoinRoom, GoodManager
<1>3. GoodRoom(room) /\ Members(room) = Members(m.rooms[id]) \cup {p}
  BY <1>2, AddGood
<1> HIDE DEF joined, room
<1>4. /\ DOMAIN joined.rooms = DOMAIN m.rooms /\ joined.rooms[id] = room
      /\ \A r \in DOMAIN m.rooms \ {id} : joined.rooms[r] = m.rooms[r]
  BY <1>1, <1>2 DEF Put
<1>5. /\ DOMAIN joined.where = DOMAIN m.where \cup {p} /\ joined.where[p] = id
      /\ \A q \in DOMAIN m.where : joined.where[q] = m.where[q]
  BY <1>1, <1>2 DEF Put
<1>6. GoodManager(joined)
  <2>1. \A r \in DOMAIN joined.rooms : GoodRoom(joined.rooms[r])
    BY <1>3, <1>4 DEF GoodManager
  <2>2. \A q \in DOMAIN joined.where : /\ joined.where[q] \in DOMAIN joined.rooms
                                       /\ q \in Members(joined.rooms[joined.where[q]])
    <3> SUFFICES ASSUME NEW q \in DOMAIN joined.where
                 PROVE  /\ joined.where[q] \in DOMAIN joined.rooms
                        /\ q \in Members(joined.rooms[joined.where[q]])
      OBVIOUS
    <3>1. CASE q = p
      BY <1>2, <1>3, <1>4, <1>5, <3>1
    <3>2. CASE q # p
      <4>1. joined.where[q] = m.where[q] /\ q \in DOMAIN m.where
        BY <1>5, <3>2
      <4>2. m.where[q] \in DOMAIN m.rooms /\ q \in Members(m.rooms[m.where[q]])
        BY <4>1 DEF GoodManager
      <4> QED BY <1>3, <1>4, <4>1, <4>2
    <3> QED BY <3>1, <3>2
  <2>3. ASSUME NEW r \in DOMAIN joined.rooms, NEW q \in Players, q \in Members(joined.rooms[r])
        PROVE  q \in DOMAIN joined.where /\ joined.where[q] = r
    <3>1. CASE q \in Members(m.rooms[r])
      <4>1. r \in DOMAIN m.rooms
        BY <1>4
      <4>2. q \in DOMAIN m.where /\ m.where[q] = r
        BY <3>1, <4>1 DEF GoodManager
      <4> QED BY <1>5, <4>2
    <3>2. CASE q \notin Members(m.rooms[r])
      <4>1. r = id /\ q = p
        BY <1>3, <1>4, <2>3, <3>2
      <4> QED BY <1>5, <4>1
    <3> QED BY <3>1, <3>2
  <2> QED BY <1>1, <1>4, <2>1, <2>2, <2>3 DEF GoodManager
<1> QED BY <1>1, <1>3, <1>4, <1>5, <1>6 DEF joined

\* The first half of LeaveRoom takes a player out of the room it is in.
LEMMA DropGood ==
  ASSUME NEW m, GoodManager(m), NEW p \in Players, CanLeaveRoom(m, p)
  PROVE  LET id   == m.where[p]
             left == [m EXCEPT !.rooms = Put(@, id, RemovePlayer(m.rooms[id], p)),
                               !.where = Erase(@, {p})]
         IN /\ GoodManager(left) /\ left.next = m.next
            /\ id \in DOMAIN m.rooms /\ DOMAIN left.rooms = DOMAIN m.rooms
            /\ \A r \in DOMAIN m.rooms \ {id} : left.rooms[r] = m.rooms[r]
            /\ DOMAIN left.where = DOMAIN m.where \ {p}
            /\ \A q \in DOMAIN left.where : left.where[q] = m.where[q]
<1> DEFINE id   == m.where[p]
           room == RemovePlayer(m.rooms[id], p)
           left == [m EXCEPT !.rooms = Put(@, id, room), !.where = Erase(@, {p})]
<1>1. /\ Shape(left) /\ left.next = m.next /\ left.list = m.list
      /\ left.rooms = Put(m.rooms, id, room) /\ left.where = Erase(m.where, {p})
  <2> HIDE DEF id, room
  <2> QED BY DEF GoodManager, Shape
<1>2. id \in DOMAIN m.rooms /\ p \in Members(m.rooms[id]) /\ GoodRoom(m.rooms[id])
  BY DEF CanLeaveRoom, GoodManager
<1>3. GoodRoom(room) /\ Members(room) = Members(m.rooms[id]) \ {p}
  BY <1>2, RemoveGood
<1> HIDE DEF left, room
<1>4. /\ DOMAIN left.rooms = DOMAIN m.rooms /\ left.rooms[id] = room
      /\ \A r \in DOMAIN m.rooms \ {id} : left.rooms[r] = m.rooms[r]
  BY <1>1, <1>2 DEF Put
<1>5. /\ DOMAIN left.where = DOMAIN m.where \ {p}
      /\ \A q \in DOMAIN left.where : left.where[q] = m.where[q]
  BY <1>1 DEF Erase
<1> HIDE DEF id
<1>6. GoodManager(left)
  <2>1. \A r \in DOMAIN left.rooms : GoodRoom(left.rooms[r])
    BY <1>3, <1>4 DEF GoodManager
  <2>2. ASSUME NEW q \in DOMAIN left.where
        PROVE  left.where[q] \in DOMAIN left.rooms /\ q \in Members(left.rooms[left.where[q]])
    <3>1. q \in DOMAIN m.where /\ q # p /\ left.where[q] = m.where[q]
      BY <1>5
    <3>2. m.where[q] \in DOMAIN m.rooms /\ q \in Members(m.rooms[m.where[q]])
      BY <3>1 DEF GoodManager
    <3>3. CASE m.where[q] = id
      BY <1>3, <1>4, <3>1, <3>2, <3>3
    <3>4. CASE m.where[q] # id
      BY <1>4, <3>1, <3>2, <3>4
    <3> QED BY <3>3, <3>4
  <2>3. \A r \in DOMAIN left.rooms, q \in Players :
          q \in Members(left.rooms[r]) => q \in DOMAIN left.where /\ left.where[q] = r
    BY <1>2, <1>3, <1>4, <1>5 DEF GoodManager, id
  <2> QED BY <1>1, <1>4, <2>1, <2>2, <2>3 DEF GoodManager
<1> QED BY <1>1, <1>2, <1>4, <1>5, <1>6 DEF left, room, id

\* DeleteRoom of an empty room, which is in the list once.
LEMMA DeleteGood ==
  ASSUME NEW m, GoodManager(m), NEW id \in DOMAIN m.rooms, Members(m.rooms[id]) = {}
  PROVE  LET deleted == DeleteRoom(m, id)
         IN /\ GoodManager(deleted) /\ deleted.next = m.next
            /\ DOMAIN deleted.rooms = DOMAIN m.rooms \ {id}
            /\ \A r \in DOMAIN deleted.rooms : deleted.rooms[r] = m.rooms[r]
            /\ DOMAIN deleted.where = DOMAIN m.where
            /\ \A q \in DOMAIN m.where : deleted.where[q] = m.where[q]
<1> DEFINE deleted == DeleteRoom(m, id)
<1>1. /\ Shape(deleted) /\ deleted.next = m.next /\ deleted.list = RemoveFirst(m.list, id)
      /\ deleted.rooms = Erase(m.rooms, {id}) /\ deleted.where = Erase(m.where, {})
  BY DEF GoodManager, Shape, DeleteRoom
<1> HIDE DEF deleted
<1>2. /\ DOMAIN deleted.rooms = DOMAIN m.rooms \ {id}
      /\ \A r \in DOMAIN deleted.rooms : deleted.rooms[r] = m.rooms[r]
  BY <1>1 DEF Erase
<1>3. /\ DOMAIN deleted.where = DOMAIN m.where
      /\ \A q \in DOMAIN m.where : deleted.where[q] = m.where[q]
  BY <1>1 DEF Erase
<1>4. /\ deleted.list \in Seq(Nat) /\ IsInjective(deleted.list)
      /\ Elements(deleted.list) = DOMAIN deleted.rooms
  <2>1. m.list \in Seq(Nat) /\ IsInjective(m.list) /\ Elements(m.list) = DOMAIN m.rooms
    BY DEF GoodManager
  <2>2. PICK k \in 1..Len(m.list) : m.list[k] = id
    BY <2>1 DEF Elements
  <2> DEFINE t == RemoveFirst(m.list, m.list[k])
  <2>3. /\ t \in Seq(Nat) /\ IsInjective(t)
        /\ Elements(t) = Elements(m.list) \ {m.list[k]}
    BY <2>1, Erased, ErasedSet
  <2>4. deleted.list = t
    BY <1>1, <2>2
  <2> HIDE DEF t
  <2> QED BY <1>2, <2>1, <2>2, <2>3, <2>4
<1>5. GoodManager(deleted)
  <2>1. /\ deleted.next \in Nat \ {0} /\ DOMAIN deleted.rooms \subseteq 1..deleted.next - 1
        /\ \A r \in DOMAIN deleted.rooms : GoodRoom(deleted.rooms[r])
    BY <1>1, <1>2 DEF GoodManager
  <2>2. ASSUME NEW q \in DOMAIN deleted.where
        PROVE  /\ deleted.where[q] \in DOMAIN deleted.rooms
               /\ q \in Members(deleted.rooms[deleted.where[q]])
    <3>1. m.where[q] \in DOMAIN m.rooms /\ q \in Members(m.rooms[m.where[q]])
      BY <1>3 DEF GoodManager
    <3> QED BY <1>2, <1>3, <3>1
  <2>3. ASSUME NEW r \in DOMAIN deleted.rooms, NEW q \in Players, q \in Members(deleted.rooms[r])
        PROVE  q \in DOMAIN deleted.where /\ deleted.where[q] = r
    <3>1. r \in DOMAIN m.rooms /\ q \in Members(m.rooms[r])
      BY <1>2, <2>3
    <3> QED BY <1>3, <3>1 DEF GoodManager
  <2> QED BY <1>1, <1>4, <2>1, <2>2, <2>3 DEF GoodManager
<1> QED BY <1>1, <1>2, <1>3, <1>5 DEF deleted

\* LeaveRoom: the player is in no room, nobody else moves, and no room is
\* emptied by it.
LEMMA LeaveGood ==
  ASSUME NEW m, GoodManager(m), NEW p \in Players
  PROVE  LET after == LeaveRoom(m, p)
         IN /\ GoodManager(after) /\ after.next = m.next
            /\ DOMAIN after.rooms \subseteq DOMAIN m.rooms
            /\ \A r \in DOMAIN after.rooms : Members(after.rooms[r]) = {} => Members(m.rooms[r]) = {}
            /\ DOMAIN after.where = DOMAIN m.where \ {p}
            /\ \A q \in DOMAIN after.where : after.where[q] = m.where[q]
            /\ CanLeaveRoom(m, p) <=> p \in DOMAIN m.where
<1> DEFINE after == LeaveRoom(m, p)
<1>1. CanLeaveRoom(m, p) <=> p \in DOMAIN m.where
  BY DEF CanLeaveRoom, GoodManager
<1>2. CASE ~CanLeaveRoom(m, p)
  <2>1. /\ Shape(after) /\ after.next = m.next /\ after.list = m.list
        /\ after.rooms = m.rooms /\ after.where = Erase(m.where, {p})
    BY <1>2 DEF LeaveRoom, GoodManager, Shape
  <2> HIDE DEF after
  <2>2. /\ DOMAIN after.where = DOMAIN m.where
        /\ \A q \in DOMAIN m.where : after.where[q] = m.where[q]
    BY <1>1, <1>2, <2>1 DEF Erase
  <2>3. GoodManager(after)
    BY <2>1, <2>2 DEF GoodManager
  <2> QED BY <1>1, <1>2, <2>1, <2>2, <2>3 DEF after
<1>3. CASE CanLeaveRoom(m, p)
  <2> DEFINE id   == m.where[p]
             left == [m EXCEPT !.rooms = Put(@, id, RemovePlayer(m.rooms[id], p)),
                               !.where = Erase(@, {p})]
  <2>1. /\ GoodManager(left) /\ left.next = m.next
        /\ id \in DOMAIN m.rooms /\ DOMAIN left.rooms = DOMAIN m.rooms
        /\ \A r \in DOMAIN m.rooms \ {id} : left.rooms[r] = m.rooms[r]
        /\ DOMAIN left.where = DOMAIN m.where \ {p}
        /\ \A q \in DOMAIN left.where : left.where[q] = m.where[q]
    BY <1>3, DropGood
  <2>2. after = IF left.rooms[id].current = 0 THEN DeleteRoom(left, id) ELSE left
    BY <1>3 DEF LeaveRoom
  <2> HIDE DEF left, id, after
  <2>3. left.rooms[id].current = 0 <=> Members(left.rooms[id]) = {}
    BY <2>1, CountTells DEF GoodManager
  <2>4. CASE left.rooms[id].current = 0
    <3>1. after = DeleteRoom(left, id) /\ Members(left.rooms[id]) = {}
      BY <2>2, <2>3, <2>4
    <3>2. /\ GoodManager(after) /\ after.next = left.next
          /\ DOMAIN after.rooms = DOMAIN left.rooms \ {id}
          /\ \A r \in DOMAIN after.rooms : after.rooms[r] = left.rooms[r]
          /\ DOMAIN after.where = DOMAIN left.where
          /\ \A q \in DOMAIN left.where : after.where[q] = left.where[q]
      BY <2>1, <3>1, DeleteGood
    <3> QED BY <1>1, <2>1, <3>2 DEF after
  <2>5. CASE left.rooms[id].current # 0
    BY <1>1, <2>1, <2>2, <2>3, <2>5 DEF after
  <2> QED BY <2>4, <2>5
<1> QED BY <1>2, <1>3

-----------------------------------------------------------------------------
(* The inductive invariant.                                                 *)

\* Sessions: a player is registered after its CONNECTED event, and nobody is
\* sent to who is neither registered nor about to be.
PeopleInv ==
  /\ arriving \subseteq Players /\ players \subseteq Players /\ online \subseteq Players
  /\ arriving \cap players = {} /\ online \subseteq arriving \cup players

\* The rooms, and that only registered players are in them.
RoomsInv ==
  /\ GoodManager(mgr) /\ mgr.next <= MaxRooms + 1
  /\ DOMAIN mgr.where \subseteq players

\* Clients know the truth; one that just came knows of no room.
ToldInv ==
  /\ told \in [Players -> 0..MaxRooms]
  /\ \A p \in arriving \cap online : told[p] = 0
  /\ ToldTheTruth

IInv == PeopleInv /\ RoomsInv /\ ToldInv

\* At the start there is nobody and no room.
LEMMA InitInv == Init => IInv
<1> SUFFICES ASSUME Init PROVE IInv
  OBVIOUS
<1>1. PeopleInv
  BY DEF Init, PeopleInv
<1>2. RoomsInv
  <2>1. Shape(mgr) /\ mgr.next = 1 /\ mgr.list = <<>> /\ DOMAIN mgr.rooms = {} /\ DOMAIN mgr.where = {}
    BY DEF Init, CRoomManager, Shape
  <2>2. mgr.list \in Seq(Nat) /\ IsInjective(mgr.list) /\ Elements(mgr.list) = {}
    BY <2>1 DEF IsInjective, Elements
  <2> QED BY <2>1, <2>2, GameAssumption DEF RoomsInv, GoodManager
<1>3. ToldInv
  BY GameAssumption DEF Init, ToldInv, ToldTheTruth
<1> QED BY <1>1, <1>2, <1>3 DEF IInv

\* A connection that comes or goes changes no room and nobody's knowledge.
LEMMA NetworkStep ==
  ASSUME IInv, NEW p \in Players, Accept(p) \/ Lose(p)
  PROVE  IInv'
<1>1. PeopleInv'
  BY DEF IInv, PeopleInv, Accept, Lose
<1>2. RoomsInv'
  BY DEF IInv, RoomsInv, Accept, Lose
<1>3. ToldInv'
  <2>1. CASE Accept(p)
    BY <2>1, GameAssumption DEF IInv, PeopleInv, ToldInv, ToldTheTruth, Accept
  <2>2. CASE Lose(p)
    BY <2>2 DEF IInv, ToldInv, ToldTheTruth, Lose
  <2> QED BY <2>1, <2>2
<1> QED BY <1>1, <1>2, <1>3 DEF IInv

\* A registration, and a room list, that is sent or ends the session.
LEMMA ListStep ==
  ASSUME IInv, NEW p \in Players,
         DispatchClientConnected(p) \/ (p \in players /\ HandleRequestRoomList(p))
  PROVE  IInv'
<1>1. online' \subseteq online /\ online \ {p} \subseteq online' /\ mgr' = mgr /\ told' = told
  BY DEF DispatchClientConnected, HandleRequestRoomList, SendRoomList
<1>2. \/ p \in arriving /\ arriving' = arriving \ {p} /\ players' = players \cup {p}
      \/ arriving' = arriving /\ players' = players
  BY DEF DispatchClientConnected, HandleRequestRoomList
<1>3. PeopleInv'
  BY <1>1, <1>2 DEF IInv, PeopleInv
<1>4. RoomsInv'
  BY <1>1, <1>2 DEF IInv, RoomsInv
<1>5. ToldInv'
  BY <1>1, <1>2 DEF IInv, PeopleInv, RoomsInv, ToldInv, ToldTheTruth
<1> QED BY <1>3, <1>4, <1>5 DEF IInv

\* A room is made for whoever may make one, and entered unless its maker is in
\* another.
LEMMA CreateStep ==
  ASSUME IInv, NEW p \in players, NEW title \in Titles \cup {NoTitle}, NEW maxPlayers \in Limits,
         HandleCreateRoom(p, title, maxPlayers)
  PROVE  IInv'
<1> DEFINE created == CreateRoom(mgr, title, maxPlayers)
           joined  == JoinRoom(created, mgr.next, p)
<1>1. p \in Players /\ UNCHANGED <<arriving, players, online, listed>> /\ mgr.next <= MaxRooms
  BY DEF IInv, PeopleInv, HandleCreateRoom
<1>2. CASE mgr' = mgr /\ told' = told
  BY <1>1, <1>2 DEF IInv, PeopleInv, RoomsInv, ToldInv, ToldTheTruth
<1>3. CASE ~(mgr' = mgr /\ told' = told)
  <2>1. title \in Titles /\ maxPlayers >= 2
    BY <1>3, GameAssumption DEF HandleCreateRoom
  <2>2. \/ CanJoinRoom(created, mgr.next, p) /\ mgr' = joined /\ Tell(p, mgr.next)
        \/ mgr' = created /\ told' = told
    BY <1>3, Zenon DEF HandleCreateRoom
  <2>3. GoodManager(created) /\ created.next = mgr.next + 1 /\ created.where = mgr.where
    BY <2>1, CreateGood DEF IInv, RoomsInv
  <2>4. mgr.next \in Nat \ {0}
    BY DEF IInv, RoomsInv, GoodManager
  <2> HIDE DEF created
  <2>5. CASE mgr' = created /\ told' = told
    BY <1>1, <2>3, <2>4, <2>5, GameAssumption DEF IInv, PeopleInv, RoomsInv, ToldInv, ToldTheTruth
  <2>6. CASE CanJoinRoom(created, mgr.next, p) /\ mgr' = joined /\ Tell(p, mgr.next)
    <3>1. /\ GoodManager(joined) /\ joined.next = created.next
          /\ DOMAIN joined.where = DOMAIN created.where \cup {p}
          /\ joined.where[p] = mgr.next
          /\ \A q \in DOMAIN created.where : joined.where[q] = created.where[q]
      BY <1>1, <2>3, <2>6, JoinGood
    <3> HIDE DEF joined
    <3>2. RoomsInv'
      BY <1>1, <2>3, <2>4, <2>6, <3>1, GameAssumption DEF IInv, RoomsInv
    <3>3. ToldInv'
      BY <1>1, <2>3, <2>4, <2>6, <3>1, GameAssumption
      DEF IInv, PeopleInv, ToldInv, ToldTheTruth, Tell
    <3> QED BY <1>1, <3>2, <3>3 DEF IInv, PeopleInv
  <2> QED BY <2>2, <2>5, <2>6
<1> QED BY <1>2, <1>3

\* A player enters a room and is told so, or nothing happens.
LEMMA JoinStep ==
  ASSUME IInv, NEW p \in players, NEW id \in 1..MaxRooms, HandleJoinRoom(p, id)
  PROVE  IInv'
<1> DEFINE joined == JoinRoom(mgr, id, p)
<1>1. p \in Players /\ UNCHANGED <<arriving, players, online, listed>>
  BY DEF IInv, PeopleInv, HandleJoinRoom
<1>2. CASE mgr' = mgr /\ told' = told
  BY <1>1, <1>2 DEF IInv, PeopleInv, RoomsInv, ToldInv, ToldTheTruth
<1>3. CASE CanJoinRoom(mgr, id, p) /\ mgr' = joined /\ Tell(p, id)
  <2>1. /\ GoodManager(joined) /\ joined.next = mgr.next
        /\ DOMAIN joined.where = DOMAIN mgr.where \cup {p} /\ joined.where[p] = id
        /\ \A q \in DOMAIN mgr.where : joined.where[q] = mgr.where[q]
    BY <1>1, <1>3, JoinGood DEF IInv, RoomsInv
  <2> HIDE DEF joined
  <2>2. RoomsInv'
    BY <1>1, <1>3, <2>1 DEF IInv, RoomsInv
  <2>3. ToldInv'
    BY <1>1, <1>3, <2>1, GameAssumption DEF IInv, PeopleInv, ToldInv, ToldTheTruth, Tell
  <2> QED BY <1>1, <2>2, <2>3 DEF IInv, PeopleInv
<1> QED BY <1>2, <1>3 DEF HandleJoinRoom

\* A player leaves its room, on request or because its session has gone.
LEMMA LeaveStep ==
  ASSUME IInv, NEW p \in Players,
         DispatchClientDisconnected(p) \/ (p \in players /\ HandleLeaveRoom(p))
  PROVE  IInv'
<1> DEFINE after == LeaveRoom(mgr, p)
<1>1. /\ GoodManager(after) /\ after.next = mgr.next
      /\ DOMAIN after.where = DOMAIN mgr.where \ {p}
      /\ \A q \in DOMAIN after.where : after.where[q] = mgr.where[q]
      /\ CanLeaveRoom(mgr, p) <=> p \in DOMAIN mgr.where
  BY LeaveGood DEF IInv, RoomsInv
<1>2. mgr' = after /\ arriving' = arriving /\ online' = online
  BY DEF DispatchClientDisconnected, HandleLeaveRoom
<1> HIDE DEF after
<1>3. \/ p \notin online /\ players' = players \ {p} /\ told' = told
      \/ p \in players /\ players' = players
         /\ IF p \in DOMAIN mgr.where THEN Tell(p, 0) ELSE told' = told
  BY <1>1 DEF DispatchClientDisconnected, HandleLeaveRoom
<1>4. PeopleInv'
  BY <1>2, <1>3 DEF IInv, PeopleInv
<1>5. RoomsInv'
  BY <1>1, <1>2, <1>3 DEF IInv, RoomsInv
<1>6. ToldInv'
  BY <1>1, <1>2, <1>3, GameAssumption DEF IInv, PeopleInv, RoomsInv, ToldInv, ToldTheTruth, Tell
<1> QED BY <1>4, <1>5, <1>6 DEF IInv

\* Every step of the game thread and of the network keeps the invariant.
LEMMA NextInv == IInv /\ [Next]_vars => IInv'
<1> SUFFICES ASSUME IInv, [Next]_vars PROVE IInv'
  OBVIOUS
<1>1. CASE UNCHANGED vars
  BY <1>1 DEF vars, IInv, PeopleInv, RoomsInv, ToldInv, ToldTheTruth
<1>2. ASSUME NEW p \in Players, Accept(p) \/ Lose(p) PROVE IInv'
  BY <1>2, NetworkStep
<1>3. ASSUME NEW p \in Players, DispatchClientConnected(p) PROVE IInv'
  BY <1>3, ListStep
<1>4. ASSUME NEW p \in Players, DispatchDataReceived(p) PROVE IInv'
  BY <1>4, ListStep, CreateStep, JoinStep, LeaveStep DEF DispatchDataReceived
<1>5. ASSUME NEW p \in Players, DispatchClientDisconnected(p) PROVE IInv'
  BY <1>5, LeaveStep
<1> QED BY <1>1, <1>2, <1>3, <1>4, <1>5 DEF Next

\* The managers' structures, the sessions and what clients were told are
\* consistent after every event the game thread handles.
THEOREM Invariance == Spec => []IInv
BY InitInv, NextInv, PTL DEF Spec

-----------------------------------------------------------------------------
(* The properties.                                                          *)

\* CCentralizedServer keeps to its types: a session whose replies are sent is
\* registered or about to be, and no room has the id of a later one.
THEOREM TypeCorrect == Spec => []TypeOK
<1>1. IInv => TypeOK
  BY GameAssumption
  DEF IInv, PeopleInv, RoomsInv, ToldInv, GoodManager, GoodRoom, RoomType, TypeOK, Rooms
<1> QED BY <1>1, Invariance, PTL

\* The member lists and their cached counts, the room list, _playerToRoomMap and
\* _players agree whatever CreateRoom, JoinRoom and LeaveRoom are called for, and
\* no room has more members than it was created for.
THEOREM Agreement == Spec => []MapsAgree
<1>1. IInv => MapsAgree
  <2> SUFFICES ASSUME IInv PROVE MapsAgree
    OBVIOUS
  <2>1. GoodManager(mgr) /\ DOMAIN mgr.where \subseteq players
    BY DEF IInv, RoomsInv
  <2>2. Range(mgr.list) = Elements(mgr.list)
    BY <2>1, RangeEquality DEF GoodManager, Elements
  <2>3. \A r \in Rooms : /\ IsInjective(mgr.rooms[r].players)
                         /\ mgr.rooms[r].current = Len(mgr.rooms[r].players)
                         /\ mgr.rooms[r].current <= mgr.rooms[r].max
    BY <2>1 DEF GoodManager, GoodRoom, Rooms
  <2> QED BY <2>1, <2>2, <2>3 DEF GoodManager, MapsAgree, Rooms, In
<1> QED BY <1>1, Invariance, PTL

\* UpdateOwnerOnLeave passes a room on to the member who came next.
THEOREM OwnerFirst == Spec => []OwnerIsFirstMember
<1>1. IInv => OwnerIsFirstMember
  BY DEF IInv, RoomsInv, GoodManager, GoodRoom, OwnerIsFirstMember, Rooms
<1> QED BY <1>1, Invariance, PTL

\* The replies of HandleCreateRoom, HandleJoinRoom and HandleLeaveRoom tell a
\* client which room it is in.
THEOREM Truth == Spec => []ToldTheTruth
<1>1. IInv => ToldTheTruth
  BY DEF IInv, ToldInv
<1> QED BY <1>1, Invariance, PTL

\* SendRoomList never cuts the length off at 16 bits, for any number of rooms
\* and any sizes of the messages.
THEOREM SizeExact == Spec => []SizeFieldExact
<1>1. Init => SizeFieldExact
  BY GameAssumption DEF Init, SizeFieldExact
<1>2. IInv /\ SizeFieldExact /\ [Next]_vars => SizeFieldExact'
  <2> SUFFICES ASSUME IInv, SizeFieldExact, [Next]_vars, listed' # listed PROVE SizeFieldExact'
    BY DEF SizeFieldExact
  <2>1. PICK p \in Players : SendRoomList(p)
    BY DEF Next, vars, Accept, Lose, DispatchClientConnected, DispatchDataReceived,
           HandleRequestRoomList, HandleCreateRoom, HandleJoinRoom, HandleLeaveRoom,
           DispatchClientDisconnected
  <2>2. listed' = [size |-> ListBytes % SizeMod, count |-> Len(mgr.list)] /\ ListBytes < SizeMod
    BY <2>1 DEF SendRoomList
  <2>3. ListBytes \in Nat
    <3> DEFINE n == Len(mgr.list)
    <3>1. n \in Nat
      BY LenProperties DEF IInv, RoomsInv, GoodManager
    <3> HIDE DEF n
    <3>2. RoomBytes * n \in Nat
      BY <3>1, GameAssumption
    <3> QED BY <3>2, GameAssumption DEF ListBytes, n
  <2>4. ListBytes % SizeMod = ListBytes
    BY <2>2, <2>3, GameAssumption
  <2> QED BY <2>2, <2>4 DEF SizeFieldExact, ListBytes
<1> QED BY <1>1, <1>2, Invariance, PTL DEF Spec

\* JoinRoom and LeaveRoom leave no empty room behind; only HandleCreateRoom does,
\* and only while some player is in a room.
THEOREM EmptyRooms == Spec => EmptyOnlyFromBirth
<1> DEFINE Kept == \A r \in DOMAIN mgr'.rooms : Members(mgr'.rooms[r]) = {} =>
                     IF r \in Rooms THEN Members(mgr.rooms[r]) = {} ELSE DOMAIN mgr.where # {}
<1>1. IInv /\ [Next]_vars => Kept
  <2> SUFFICES ASSUME IInv, [Next]_vars PROVE Kept
    OBVIOUS
  <2>1. GoodManager(mgr) /\ players \subseteq Players
    BY DEF IInv, RoomsInv, PeopleInv
  <2>2. CASE mgr' = mgr
    BY <2>2 DEF Rooms
  <2>3. ASSUME NEW p \in Players, mgr' = LeaveRoom(mgr, p) PROVE Kept
    BY <2>1, <2>3, LeaveGood DEF Rooms
  <2>4. ASSUME NEW p \in Players, NEW m, GoodManager(m), NEW id, CanJoinRoom(m, id, p),
               mgr' = JoinRoom(m, id, p)
        PROVE  /\ DOMAIN mgr'.rooms = DOMAIN m.rooms
               /\ \A r \in DOMAIN m.rooms : Members(mgr'.rooms[r]) = {} =>
                    r # id /\ Members(m.rooms[r]) = {}
    BY <2>4, JoinGood
  <2>5. ASSUME NEW p \in players, NEW id \in 1..MaxRooms, HandleJoinRoom(p, id) PROVE Kept
    BY <2>1, <2>2, <2>4, <2>5 DEF HandleJoinRoom, Rooms
  <2>6. ASSUME NEW p \in players, NEW title \in Titles \cup {NoTitle}, NEW maxPlayers \in Limits,
               HandleCreateRoom(p, title, maxPlayers), mgr' # mgr
        PROVE  Kept
    <3> DEFINE created == CreateRoom(mgr, title, maxPlayers)
               id      == mgr.next
               room    == CRoom(title, maxPlayers)
    <3>1. title \in Titles /\ maxPlayers >= 2 /\ maxPlayers \in Int
      BY <2>6, GameAssumption DEF HandleCreateRoom
    <3>2. /\ GoodManager(created) /\ created.where = mgr.where
          /\ DOMAIN created.rooms = Rooms \cup {id} /\ id \notin Rooms
          /\ created.rooms[id] = room
          /\ \A r \in Rooms : created.rooms[r] = mgr.rooms[r]
      BY <2>1, <3>1, CreateGood DEF Rooms
    <3>3. CanJoinRoom(created, id, p) <=> p \notin DOMAIN mgr.where
      <4>1. CanAddPlayer(room, p)
        BY <3>1, NewRoom DEF CanAddPlayer, CRoom
      <4> HIDE DEF created, room, id
      <4> QED BY <3>2, <4>1 DEF CanJoinRoom
    <3>4. IF CanJoinRoom(created, id, p) THEN mgr' = JoinRoom(created, id, p) ELSE mgr' = created
      BY <2>6, Zenon DEF HandleCreateRoom
    <3> HIDE DEF created, room, id
    <3>5. CASE CanJoinRoom(created, id, p)
      BY <2>1, <2>4, <3>2, <3>4, <3>5
    <3>6. CASE ~CanJoinRoom(created, id, p)
      BY <3>2, <3>3, <3>4, <3>6
    <3> QED BY <3>5, <3>6
  <2> QED BY <2>2, <2>3, <2>5, <2>6
      DEF Next, vars, Accept, Lose, DispatchClientConnected, DispatchDataReceived,
          HandleRequestRoomList, HandleLeaveRoom, DispatchClientDisconnected
<1> QED BY <1>1, Invariance, PTL DEF Spec, EmptyOnlyFromBirth
=============================================================================

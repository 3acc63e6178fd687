---------------------------- MODULE SessionPool ----------------------------
(***************************************************************************)
(* The sessions of CIOCPServer, whose CSession objects are reused: the     *)
(* accept thread hands out indices and takes them back, the IOCP workers   *)
(* and the game thread find a session by its completion key or its id and  *)
(* may still hold it when its object has become another connection's.      *)
(*                                                                         *)
(* Connections are numbered in the order they are accepted; the number is  *)
(* the socket and the unique part of the session id.  So no socket value   *)
(* comes back: that Windows may give a closed SOCKET's value to another    *)
(* connection, and a late WSARecv or send reach it, is not modelled.       *)
(* _sending and _sendQ are in SendPipeline; here a send only says whose    *)
(* queue it went to.                                                       *)
(***************************************************************************)
EXTENDS Integers, Sequences, FiniteSets

CONSTANTS
  Slots,      \* indices of _sessions
  Workers,    \* IOCP workers
  Acceptor, Game,   \* the accept thread and the game logic thread
  MaxConns    \* bound: connections ever accepted

ASSUME PoolAssumption ==
  /\ IsFiniteSet(Slots) /\ 0 \notin Slots /\ MaxConns \in Nat
  /\ Acceptor \notin Workers /\ Game \notin Workers \cup {Acceptor}

Threads == Workers \cup {Acceptor, Game}
Conns   == 1..MaxConns

VARIABLES
  valid, sock, sid, ioId, \* per slot: _valid, _socket, _sessionId's unique part,
                          \* and the sessionId in _recvOverlapped
  available,  \* _availableIndices
  stack,      \* _pendingDisconStack, a std::stack that no lock protects
  counter,    \* _sessionIdCounter
  slotOf,     \* per connection: the completion key it was bound with (0: none)
  pending,    \* per connection: WSARecvs the kernel has not finished
  port,       \* completions no worker has taken yet
  events,     \* per session id: the CONNECTED and DISCONNECTED that were pushed
              \* to _eventQueue
  pc,         \* next step of each thread
  at,         \* the slot each thread works on
  for,        \* the connection it does so for
  back,       \* where it goes on after a teardown
  copy,       \* what it read of the stack, and what it will push
  raced,      \* history: two accesses to the stack overlapped
  reused,     \* history: a slot was reused with something of its last connection
              \* still in flight
  crossed,    \* history: what was done to a connection on behalf of another
  premature   \* history: session ids of which RECEIVED was pushed before CONNECTED

slotVars  == <<valid, sock, sid, ioId>>
poolVars  == <<available, stack, counter>>
ioVars    == <<slotOf, pending, port>>
localVars == <<at, for, back, copy>>
history   == <<raced, reused, crossed, premature>>
vars == <<slotVars, poolVars, ioVars, events, pc, localVars, history>>

\* An id in the stack: [16 bit index][48 bit unique id].
Id(i, u) == [index |-> i, unique |-> u]
NoCopy   == [stack |-> <<>>, id |-> Id(0, 0)]

Home(t) == IF t = Acceptor THEN "accept" ELSE "idle"
Goto(t, to) == pc' = [pc EXCEPT ![t] = to]
Step(t, from, to) == pc[t] = from /\ Goto(t, to)

\* Objects are created with _valid = true and session id 0.
Init ==
  /\ valid = [i \in Slots |-> TRUE] /\ sock = [i \in Slots |-> 0]
  /\ sid = [i \in Slots |-> 0] /\ ioId = [i \in Slots |-> 0]
  /\ available \in {s \in [1..Cardinality(Slots) -> Slots] :
                      \A i \in Slots : \E k \in DOMAIN s : s[k] = i}
  /\ stack = <<>> /\ counter = 0
  /\ slotOf = [u \in Conns |-> 0] /\ pending = [u \in Conns |-> 0] /\ port = <<>>
  /\ events = [u \in Conns |-> <<>>]
  /\ pc = [t \in Threads |-> Home(t)]
  /\ at = [t \in Threads |-> 0] /\ for = [t \in Threads |-> 0]
  /\ back = [t \in Threads |-> Home(t)]
  /\ copy = [t \in Threads |-> NoCopy]
  /\ raced = FALSE /\ reused = FALSE /\ crossed = {} /\ premature = {}

\* A thread did something to the session in its slot.
Touch(t, kind) ==
  crossed' = IF sid[at[t]] = for[t] THEN crossed ELSE crossed \cup {kind}

\* A socket that is not bound to the IOCP reports no completion.
Report(u, completions) ==
  port' = IF slotOf[u] = 0 THEN port ELSE port \o completions

\* closesocket on the slot's socket fails its outstanding WSARecvs.
CloseSocketOf(i) ==
  LET u == sock[i]
  IN /\ sock' = [sock EXCEPT ![i] = 0]
     /\ IF u = 0 THEN UNCHANGED <<pending, port>>
        ELSE /\ pending' = [pending EXCEPT ![u] = 0]
             /\ Report(u, [k \in 1..pending[u] |-> [slot |-> slotOf[u], conn |-> u, ok |-> FALSE]])

-----------------------------------------------------------------------------
(* AcceptThread: accept returns, with a client or without, and before the   *)
(* client is served the torn down sessions are collected.                   *)

AcceptReturns ==
  /\ Step(Acceptor, "accept", "release")
  /\ \E client \in {0, counter + 1} \cap 0..MaxConns : for' = [for EXCEPT ![Acceptor] = client]
  /\ UNCHANGED <<slotVars, poolVars, ioVars, events, at, back, copy, history>>

\* ReleaseSession: empty, top and pop of a stack the other threads push to.  A
\* push in between is undone by the pop or is what it takes off.
ReadTop ==
  /\ Step(Acceptor, "release", IF stack # <<>> THEN "pop"
                               ELSE IF for[Acceptor] # 0 THEN "process" ELSE "accept")
  /\ copy' = [copy EXCEPT ![Acceptor] =
       IF stack = <<>> THEN NoCopy ELSE [stack |-> stack, id |-> stack[Len(stack)]]]
  /\ UNCHANGED <<slotVars, poolVars, ioVars, events, at, for, back, history>>

Popped(s) == SubSeq(s, 1, Len(s) - 1)

Pop ==
  /\ Step(Acceptor, "pop", "return")
  /\ stack' \in {Popped(copy[Acceptor].stack), Popped(stack)}
  /\ raced' = (raced \/ stack # copy[Acceptor].stack)
  /\ UNCHANGED <<slotVars, available, counter, ioVars, events, localVars, reused, crossed, premature>>

ReturnIndex_WrongPart ==
  LET id == copy[Acceptor].id
  IN /\ Step(Acceptor, "return", "release")
     /\ available' = Append(available, id.unique)
     /\ UNCHANGED <<slotVars, stack, counter, ioVars, events, localVars, history>>

\* Only if FindSession still finds the id.
ReturnIndex ==
  LET id == copy[Acceptor].id
  IN /\ Step(Acceptor, "return", "release")
     /\ IF sid[id.index] = id.unique
        THEN CloseSocketOf(id.index) /\ available' = Append(available, id.index)
        ELSE UNCHANGED <<sock, pending, port, available>>
     /\ UNCHANGED <<valid, sid, ioId, stack, counter, slotOf, events, localVars, history>>

\* ProcessAccept: the client is refused when there is no free index.
TakeIndex ==
  /\ IF available = <<>>
     THEN Step(Acceptor, "process", "accept") /\ UNCHANGED <<at, available, counter>>
     ELSE /\ Step(Acceptor, "process", "initialize")
          /\ at' = [at EXCEPT ![Acceptor] = Head(available)]
          /\ available' = Tail(available)
          /\ counter' = counter + 1
  /\ UNCHANGED <<slotVars, stack, ioVars, events, for, back, copy, history>>

\* Something of an earlier connection of slot i is still on its way.
InFlight(i) ==
  \/ \E k \in 1..Len(port) : port[k].slot = i
  \/ \E u \in Conns : slotOf[u] = i /\ pending[u] > 0
  \/ \E t \in Threads \ {Acceptor} : pc[t] # "idle" /\ at[t] = i

Initialize ==
  LET i == at[Acceptor]
      u == for[Acceptor]
  IN /\ Step(Acceptor, "initialize", "bind")
     /\ reused' = (reused \/ InFlight(i))
     /\ valid' = [valid EXCEPT ![i] = TRUE] /\ sock' = [sock EXCEPT ![i] = u]
     /\ sid' = [sid EXCEPT ![i] = u] /\ ioId' = [ioId EXCEPT ![i] = u]
     /\ UNCHANGED <<poolVars, ioVars, events, localVars, raced, crossed, premature>>

\* When BindIOCP fails the index goes back, and the session stays valid.
Bind ==
  LET i == at[Acceptor]
      u == for[Acceptor]
  IN \/ /\ Step(Acceptor, "bind", "announce")
        /\ slotOf' = [slotOf EXCEPT ![u] = i]
        /\ UNCHANGED <<slotVars, poolVars, pending, port, events, localVars, history>>
     \/ /\ Step(Acceptor, "bind", "accept")
        /\ sock' = [sock EXCEPT ![i] = 0] /\ available' = Append(available, i)
        /\ UNCHANGED <<valid, sid, ioId, stack, counter, ioVars, events, localVars, history>>

Announce ==
  LET u == for[Acceptor]
  IN /\ Step(Acceptor, "announce", "postrecv")
     /\ events' = [events EXCEPT ![u] = Append(@, "CONNECTED")]
     /\ UNCHANGED <<slotVars, poolVars, ioVars, localVars, history>>

-----------------------------------------------------------------------------
(* PostRecv, by the accept thread and by the workers.                       *)

PostRecv(t) ==
  LET i == at[t]
  IN /\ pc[t] = "postrecv" /\ Goto(t, IF valid[i] THEN "submit" ELSE Home(t))
     /\ ioId' = IF valid[i] THEN [ioId EXCEPT ![i] = sid[i]] ELSE ioId
     /\ UNCHANGED <<valid, sock, sid, poolVars, ioVars, events, localVars, history>>

\* WSARecv on whatever the slot's socket is by now; it may fail.
Submit(t) ==
  LET u == sock[at[t]]
  IN /\ pc[t] = "submit"
     /\ \/ /\ u # 0 /\ Goto(t, Home(t))
           /\ pending' = [pending EXCEPT ![u] = @ + 1]
        \/ Goto(t, "drop") /\ pending' = pending
     /\ UNCHANGED <<slotVars, poolVars, slotOf, port, events, localVars, history>>

\* Data, an error, or the end of the stream.
Receive(u) ==
  /\ pending[u] > 0
  /\ \E ok \in BOOLEAN : Report(u, <<[slot |-> slotOf[u], conn |-> u, ok |-> ok]>>)
  /\ pending' = [pending EXCEPT ![u] = @ - 1]
  /\ UNCHANGED <<slotVars, poolVars, slotOf, events, pc, localVars, history>>

-----------------------------------------------------------------------------
(* WorkerThread.  A failed completion tears down the session of its key.    *)

TakeCompletion(w) ==
  /\ port # <<>>
  /\ Step(w, "idle", IF Head(port).ok THEN "check" ELSE "drop")
  /\ at' = [at EXCEPT ![w] = Head(port).slot]
  /\ for' = [for EXCEPT ![w] = Head(port).conn]
  /\ port' = Tail(port)
  /\ UNCHANGED <<slotVars, poolVars, slotOf, pending, events, back, copy, history>>

CheckSession_RecvFirst(w) ==
  LET i == at[w]
  IN /\ pc[w] = "check"
     /\ Goto(w, IF valid[i] /\ ioId[i] = sid[i] THEN "parse" ELSE "idle")
     /\ pending' = IF valid[i] /\ sock[i] # 0 THEN [pending EXCEPT ![sock[i]] = @ + 1]
                   ELSE pending
     /\ UNCHANGED <<slotVars, poolVars, slotOf, port, events, localVars, history>>

\* The session must be valid and the id in its OVERLAPPED its own.
CheckSession(w) ==
  LET i == at[w]
  IN /\ pc[w] = "check"
     /\ Goto(w, IF valid[i] /\ ioId[i] = sid[i] THEN "parse" ELSE "idle")
     /\ UNCHANGED <<slotVars, poolVars, ioVars, events, localVars, history>>

\* ProcessRecv and ParsePackets: the bytes become packets of the session that
\* the slot holds, torn down or not, or are refused and end it.  PostRecv follows
\* even then, unless it was the receive queue that refused them.  Each packet is
\* pushed to _eventQueue as RECEIVED.
Parse(w) ==
  LET u == sid[at[w]]
  IN /\ \/ Step(w, "parse", "postrecv") /\ back' = back
        \/ /\ Step(w, "parse", "drop")
           /\ \E next \in {"idle", "postrecv"} : back' = [back EXCEPT ![w] = next]
     /\ premature' \in {premature, IF events[u] = <<>> THEN premature \cup {u} ELSE premature}
     /\ Touch(w, "data")
     /\ UNCHANGED <<slotVars, poolVars, ioVars, events, at, for, copy, raced, reused>>

-----------------------------------------------------------------------------
(* RequestSendMsg and RequestDisconnectSession, called with the id of any   *)
(* session the game thread has heard of.                                    *)

FindSession_IndexOnly(to) ==
  \E i \in Slots, u \in Conns :
    /\ events[u] # <<>> /\ slotOf[u] = i
    /\ Step(Game, "idle", to)
    /\ at' = [at EXCEPT ![Game] = i] /\ for' = [for EXCEPT ![Game] = u]
    /\ UNCHANGED <<slotVars, poolVars, ioVars, events, back, copy, history>>

FindSession(to) ==
  \E i \in Slots, u \in Conns :
    /\ events[u] # <<>> /\ sid[i] = u
    /\ Step(Game, "idle", to)
    /\ at' = [at EXCEPT ![Game] = i] /\ for' = [for EXCEPT ![Game] = u]
    /\ UNCHANGED <<slotVars, poolVars, ioVars, events, back, copy, history>>

RequestSendMsg == FindSession("sendvalid")
RequestDisconnectSession == FindSession("drop")

SendValid ==
  /\ pc[Game] = "sendvalid" /\ Goto(Game, IF valid[at[Game]] THEN "send" ELSE "idle")
  /\ UNCHANGED <<slotVars, poolVars, ioVars, events, localVars, history>>

\* Enqueue and PostSend; a full queue or a failed WSASend ends the session.
Send ==
  /\ Step(Game, "send", "idle") \/ Step(Game, "send", "drop")
  /\ Touch(Game, "send")
  /\ UNCHANGED <<slotVars, poolVars, ioVars, events, localVars, raced, reused, premature>>

-----------------------------------------------------------------------------
(* DisconnectSessionInternal, after which the caller goes on.               *)

Leave(t) == Step(t, "goodbye", back[t]) /\ back' = [back EXCEPT ![t] = Home(t)]

Drop_NoExchange(t) ==
  LET i == at[t]
  IN /\ Step(t, "drop", "close")
     /\ valid' = [valid EXCEPT ![i] = FALSE]
     /\ Touch(t, "teardown")
     /\ UNCHANGED <<sock, sid, ioId, poolVars, ioVars, events, localVars, raced, reused, premature>>

Drop(t) ==
  LET i == at[t]
  IN /\ pc[t] = "drop"
     /\ IF valid[i] THEN Goto(t, "close") /\ Touch(t, "teardown")
                    ELSE Goto(t, back[t]) /\ crossed' = crossed
     /\ back' = IF valid[i] THEN back ELSE [back EXCEPT ![t] = Home(t)]
     /\ valid' = [valid EXCEPT ![i] = FALSE]
     /\ UNCHANGED <<sock, sid, ioId, poolVars, ioVars, events, at, for, copy, raced, reused, premature>>

CloseSocket(t) ==
  /\ Step(t, "close", "push")
  /\ CloseSocketOf(at[t])
  /\ UNCHANGED <<valid, sid, ioId, poolVars, slotOf, events, localVars, history>>

\* push is not atomic: of two that overlap one is lost.
ReadStack(t) ==
  /\ Step(t, "push", "pushed")
  /\ copy' = [copy EXCEPT ![t] = [stack |-> stack, id |-> Id(at[t], sid[at[t]])]]
  /\ UNCHANGED <<slotVars, poolVars, ioVars, events, at, for, back, history>>

WriteStack(t) ==
  /\ Step(t, "pushed", "goodbye")
  /\ stack' = Append(copy[t].stack, copy[t].id)
  /\ raced' = (raced \/ stack # copy[t].stack)
  /\ UNCHANGED <<slotVars, available, counter, ioVars, events, localVars, reused, crossed, premature>>

Goodbye_Skipped(t) ==
  /\ Leave(t)
  /\ UNCHANGED <<slotVars, poolVars, ioVars, events, at, for, copy, history>>

\* The DISCONNECTED event carries the id the slot has at this moment.
Goodbye(t) ==
  LET u == sid[at[t]]
  IN /\ Leave(t)
     /\ events' = IF u = 0 THEN events ELSE [events EXCEPT ![u] = Append(@, "DISCONNECTED")]
     /\ crossed' = IF u = copy[t].id.unique THEN crossed ELSE crossed \cup {"event"}
     /\ UNCHANGED <<slotVars, poolVars, ioVars, at, for, copy, raced, reused, premature>>

DisconnectSessionInternal(t) ==
  Drop(t) \/ CloseSocket(t) \/ ReadStack(t) \/ WriteStack(t) \/ Goodbye(t)

-----------------------------------------------------------------------------
Accepting == AcceptReturns \/ ReadTop \/ Pop \/ ReturnIndex
               \/ TakeIndex \/ Initialize \/ Bind \/ Announce
Working(w) == TakeCompletion(w) \/ CheckSession(w) \/ Parse(w)
Gaming == RequestSendMsg \/ RequestDisconnectSession \/ SendValid \/ Send

Next ==
  \/ Accepting
  \/ \E w \in Workers : Working(w)
  \/ Gaming
  \/ \E t \in Threads : PostRecv(t) \/ Submit(t) \/ DisconnectSessionInternal(t)
  \/ \E u \in Conns : Receive(u)

Spec == Init /\ [][Next]_vars
-----------------------------------------------------------------------------
(* Properties.                                                              *)

PCs == {"accept", "release", "pop", "return", "process", "initialize", "bind",
        "announce", "postrecv", "submit", "idle", "check", "parse", "sendvalid",
        "send", "drop", "close", "push", "pushed", "goodbye"}

TypeOK ==
  /\ valid \in [Slots -> BOOLEAN] /\ sock \in [Slots -> 0..MaxConns]
  /\ sid \in [Slots -> 0..MaxConns] /\ ioId \in [Slots -> 0..MaxConns]
  /\ available \in Seq(Slots) /\ counter \in 0..MaxConns
  /\ stack \in Seq([index : Slots, unique : 0..MaxConns])
  /\ slotOf \in [Conns -> Slots \cup {0}] /\ pending \in [Conns -> Nat]
  /\ port \in Seq([slot : Slots, conn : Conns, ok : BOOLEAN])
  /\ pc \in [Threads -> PCs] /\ at \in [Threads -> Slots \cup {0}]
  /\ for \in [Threads -> 0..MaxConns]

\* Where an index can be: free, with the accept thread, in use, with a thread
\* that tears its session down, or in the stack.
InUse(i) == valid[i] /\ sock[i] # 0
Tearing(t, i) == pc[t] \in {"close", "push", "pushed"} /\ at[t] = i
Holders(i) ==
    Cardinality({k \in 1..Len(available) : available[k] = i})
  + Cardinality({k \in 1..Len(stack) : stack[k].index = i})
  + Cardinality({t \in Threads : Tearing(t, i)})
  + (IF InUse(i) THEN 1 ELSE 0)
  + (IF pc[Acceptor] = "initialize" /\ at[Acceptor] = i THEN 1 ELSE 0)
  + (IF pc[Acceptor] = "return" /\ copy[Acceptor].id.index = i THEN 1 ELSE 0)

\* An index is in one place, so no two connections share a session and none is
\* lost; it takes an overlap on the unprotected stack, or the reuse of a slot
\* with something still in flight, to break this.
OneHolderPerIndex == ~raced /\ ~reused => \A i \in Slots : Holders(i) = 1

\* No connection is torn down, sent data or fed data on behalf of another one
\* unless its slot was reused with something of the other still in flight.
NothingCrosses == ~reused => crossed = {}

\* The game thread hears CONNECTED, then at most one DISCONNECTED, of each
\* session, and DISCONNECTED of each that has ended; a packet it hears only after
\* CONNECTED, though perhaps after DISCONNECTED too.
EventsMatchSessions ==
  ~reused => \A u \in Conns :
    /\ events[u] \in {<<>>, <<"CONNECTED">>, <<"CONNECTED", "DISCONNECTED">>}
    /\ u \notin premature
    /\ events[u] = <<"CONNECTED">> =>
         \E i \in Slots : sid[i] = u /\ \/ InUse(i)
                                        \/ \E t \in Threads : /\ at[t] = i
                                                              /\ pc[t] \in {"close", "push", "pushed", "goodbye"}

\* "Accessed by one thread only" (_recvQ, which has no lock): the parser of one
\* completion has handed the queue on before that of the next one starts.
RecvQueueHasOneThread ==
  ~reused => \A t, v \in Threads :
    t # v /\ at[t] = at[v] =>
      ~(pc[t] \in {"parse", "postrecv", "submit"} /\ pc[v] \in {"parse", "postrecv", "submit"})

\* "The accept thread cleans the session object up (returns the index)": the
\* index of a session that is torn down is on its way back to the pool.
NoIndexLost == ~reused => \A i \in Slots : Holders(i) >= 1

\* "The session id at the time of the I/O request (ABA prevention)": received
\* data is never taken for data of the connection that has the slot now.
NoStaleData == "data" \notin crossed

\* "Once the release request is done, tell the contents side": the session
\* whose end is announced is the one that ended.
GoodbyeNamesItsSession == "event" \notin crossed
=============================================================================

------------------- MODULE ServerLifecycle_proofs -------------------
(***************************************************************************)
(* Proofs about ServerLifecycle, for any number of workers, sessions and   *)
(* connections.                                                            *)
(***************************************************************************)
EXTENDS ServerLifecycle, FiniteSetTheorems, SequenceTheorems, TLAPS

Works == {"drop", "close", "clear", "push", "recv", "initialize", "bind"}

\* A completion that is not the one Disconnect posts names a session.
Named(r) == r = Null \/ r.slot \in Slots

\* Whoever works on a session has one.
SlotInv ==
  /\ \A i \in 1..Len(port) : Named(port[i])
  /\ \A t \in Threads : /\ Named(at[t])
                        /\ pc[t] \in Works => at[t].slot \in Slots

Ending == {"disconnect", "closing", "closelisten", "wake", "joinworkers",
           "joinaccept", "closeport", "destroy", "done"}

\* What the owner has waited for when it comes to each step.
JoinInv ==
  /\ owner = "start" => handle = "none"
  /\ owner = "startgame" => running
  /\ owner = "start" \/ (~running /\ owner \in {"waiting", "up", "joingame", "disconnect"})
       => \A t \in Threads : pc[t] = "none"
  /\ owner \in {"startgame", "waiting"} \cup Ending => Over("game")
  /\ owner \in {"joinaccept", "closeport", "destroy", "done"} => \A w \in Workers : Over(w)
  /\ owner \in {"closeport", "destroy", "done"} => Over("accept")
  /\ handle = "closed" => \A t \in Threads : Over(t)
  /\ handle = "closed" => owner # "startgame"

-----------------------------------------------------------------------------
(* Where an open socket is: in _socket of a session the owner has still to   *)
(* close, or in the hands of the accept thread.                              *)

\* Before Disconnect has refilled _availableIndices.
Before == {"start", "startgame", "waiting", "up", "joingame", "disconnect", "closing"}

\* The sessions the owner has yet to visit.
Covered == IF owner = "closing" THEN toClose ELSE IF owner \in Before THEN Slots ELSE {}

\* The accept thread holds a socket no session has, or is in its last round.
InHand ==
  \/ pc["accept"] \in {"release", "take", "initialize"}
  \/ owner \notin Before \ {"closing"} /\ pc["accept"] # "accepting"

\* A socket cannot be forgotten but by the accept thread.
OpenInv ==
  /\ \A x \in open : (x = accSock /\ InHand) \/ \E s \in Covered : field[s] = x
  /\ \A s \in Slots : field[s] <= accSock
  /\ \A x \in open : x <= accSock
  /\ pc["accept"] \in {"release", "take", "initialize"} => accSock > 0
  /\ owner = "start" => /\ free = {} /\ pending = {} /\ inflight = {} /\ port = <<>>
                        /\ \A s \in Slots : field[s] = 0
  /\ ~running /\ owner \in Before \ {"closing"} => open = {}
  /\ running => owner \in Before \ {"start", "closing"}

Tears(t, s)  == pc[t] \in {"close", "clear", "push"} /\ at[t].slot = s
Starting(s)  == pc["accept"] = "initialize" /\ at["accept"].slot = s
Unused(s)    == valid[s] => field[s] = 0

\* Nothing refers to a session that was never used.
Untouched(s) ==
  valid[s] /\ field[s] = 0 =>
    /\ \A t \in Threads : pc[t] \in {"bind", "recv", "check", "drop", "close", "clear", "push"} => at[t].slot # s
    /\ \A i \in 1..Len(port) : port[i].slot # s
    /\ \A r \in inflight : r.slot # s

\* Until a BindIOCP fails or the owner refills the indices, an index is free, with
\* the accept thread, in use, with one thread that tears its session down, or in
\* _pendingDisconStack; and a session that is not in use holds no open socket.
PlaceInv(s) ==
  /\ s \in free \/ Starting(s) =>
       field[s] \notin open /\ s \notin pending /\ Unused(s) /\ \A t \in Threads : ~Tears(t, s)
  /\ ~(s \in free /\ Starting(s))
  /\ s \in pending => ~valid[s] /\ \A t \in Threads : ~Tears(t, s)
  /\ \A t \in Threads : Tears(t, s) =>
       /\ ~valid[s] /\ (pc[t] = "clear" => field[s] \notin open)
       /\ \A v \in Threads : Tears(v, s) => v = t
  /\ Untouched(s)

SocketInv ==
  ~bindFailed => OpenInv /\ (owner \in Before => \A s \in Slots : PlaceInv(s))

IInv == TypeOK /\ SlotInv /\ JoinInv /\ SocketInv

-----------------------------------------------------------------------------
\* Before Start no thread runs, nothing waits at the port and no session is
\* worked on, whichever of the two programs it is.
LEMMA InitInv == Init => IInv
<1> SUFFICES ASSUME Init PROVE IInv
  OBVIOUS
<1> USE LifecycleAssumption DEF Init, Threads, Null
<1>1. TypeOK
  <2>1. /\ field \in [Slots -> 0..MaxSockets] /\ valid \in [Slots -> BOOLEAN]
        /\ at \in [Threads -> [slot : Slots \cup {"none"}, ok : BOOLEAN]]
    OBVIOUS
  <2>2. port \in Seq([slot : Slots \cup {"none"}, ok : BOOLEAN])
    OBVIOUS
  <2>3. pc \in [Threads -> PCs] /\ \A t \in Threads : pc[t] = "none"
    BY DEF PCs
  <2>4. /\ running \in BOOLEAN /\ gameRun \in BOOLEAN /\ procRun \in BOOLEAN
        /\ bindFailed \in BOOLEAN /\ listening \in BOOLEAN /\ handle = "none" /\ owner = "start"
        /\ accSock \in 0..MaxSockets /\ queued \in Nat
    <3>1. accSock \in 0..MaxSockets /\ queued \in Nat
      OBVIOUS
    <3> QED BY <3>1, Zenon
  <2>5. /\ open \subseteq 1..MaxSockets /\ inflight \subseteq [sock : 1..MaxSockets, slot : Slots]
        /\ free \subseteq Slots /\ pending \subseteq Slots /\ toClose \subseteq Slots
    OBVIOUS
  <2>6. \A t \in Threads : pc[t] \in {"drop", "close", "clear", "push", "recv"} => at[t].slot \in Slots
    <3> HIDE DEF Init
    <3> QED BY <2>3
  <2>7. /\ handle \in {"none", "open", "closed"}
        /\ owner \in {"start", "startgame", "waiting", "up", "joingame", "disconnect",
                      "closing", "closelisten", "wake", "joinworkers", "joinaccept",
                      "closeport", "destroy", "done"}
    BY <2>4
  <2> HIDE DEF Init, Threads, Null
  <2> QED BY <2>1, <2>2, <2>3, <2>4, <2>5, <2>6, <2>7, Zenon DEF TypeOK
<1>2. SlotInv
  BY DEF SlotInv, Named, Works
<1>3. JoinInv
  BY DEF JoinInv, Over, Ending
<1>4. SocketInv
  <2>1. OpenInv
    BY DEF OpenInv, Before
  <2>2. ASSUME NEW s \in Slots PROVE PlaceInv(s)
    BY <1>1 DEF PlaceInv, Tears, Starting, Unused, Untouched, TypeOK
  <2> QED BY <2>1, <2>2 DEF SocketInv
<1> QED BY <1>1, <1>2, <1>3, <1>4 DEF IInv

\* Start creates finitely many workers, so Disconnect can count one null
\* completion for each.
LEMMA WorkersCounted == Cardinality(Workers) \in Nat
BY LifecycleAssumption, FS_CardinalityType

\* What the end of DisconnectSessionInternal changes: _socket of one session, if it
\* was just closed, the queues of ids and events, and where the thread goes on.
LEMMA ClearEffect ==
  ASSUME TypeOK, NEW t \in Threads, ClearSocket(t)
  PROVE  /\ pc[t] \in {"clear", "push"} /\ pc'[t] \in {"loop", "dispatch"}
         /\ pc' = [pc EXCEPT ![t] = pc'[t]] /\ at[t].slot \in Slots
         /\ field' \in [Slots -> 0..MaxSockets] /\ queued' \in Nat
         /\ \A s \in Slots : field'[s] = IF s = at[t].slot /\ pc[t] = "clear" THEN 0 ELSE field[s]
         /\ pending' = pending \cup {at[t].slot}
         /\ UNCHANGED <<switches, sockets, valid, free, accSock, at, owner, toClose>>
<1>1. pc[t] \in {"clear", "push"} /\ pc' = [pc EXCEPT ![t] = Resume(t)] /\ pc \in [Threads -> PCs]
  BY DEF ClearSocket, Step, TypeOK
<1>2. pc'[t] \in {"loop", "dispatch"} /\ pc' = [pc EXCEPT ![t] = pc'[t]]
  BY <1>1 DEF Resume
<1>3. at[t].slot \in Slots
  BY <1>1 DEF TypeOK
<1>4. queued' \in Nat
  BY DEF ClearSocket, Pushed, TypeOK
<1>5. /\ field' \in [Slots -> 0..MaxSockets]
      /\ \A s \in Slots : field'[s] = IF s = at[t].slot /\ pc[t] = "clear" THEN 0 ELSE field[s]
  BY <1>3, LifecycleAssumption DEF ClearSocket, Step, TypeOK
<1>6. /\ pending' = pending \cup {at[t].slot}
      /\ UNCHANGED <<switches, sockets, valid, free, accSock, at, owner, toClose>>
  BY DEF ClearSocket
<1> QED BY <1>1, <1>2, <1>3, <1>4, <1>5, <1>6

\* The order of Disconnect: it joins the game thread, the workers and the
\* accept thread before it closes the port, and no step starts a thread again.
LEMMA JoinStep == TypeOK /\ JoinInv /\ [Next]_vars => JoinInv'
<1> SUFFICES ASSUME TypeOK, JoinInv, [Next]_vars PROVE JoinInv'
  OBVIOUS
<1> USE LifecycleAssumption DEF TypeOK, PCs, JoinInv, Threads, Over, Ending, Step, Own, switches, flags,
        sockets, sessions, threads
<1>1. CASE StartSucceeds
  BY <1>1 DEF StartSucceeds
<1>2. CASE StartFails
  BY <1>2 DEF StartFails
<1>3. CASE StartGameThread
  BY <1>3 DEF StartGameThread
<1>4. CASE Await
  BY <1>4 DEF Await, Awaited
<1>5. CASE Stop
  BY <1>5 DEF Stop
<1>6. CASE Disconnect
  BY <1>6 DEF Disconnect
<1>7. CASE CloseOne
  BY <1>7 DEF CloseOne
<1>8. CASE RefillIndices
  BY <1>8 DEF RefillIndices
<1>9. CASE CloseListen
  BY <1>9 DEF CloseListen
<1>10. CASE WakeWorkers
  BY <1>10 DEF WakeWorkers
<1>11. CASE CloseHandle
  BY <1>11 DEF CloseHandle
<1>12. CASE Destroy
  BY <1>12 DEF Destroy
<1>13. CASE AcceptReturns
  BY <1>13 DEF AcceptReturns
<1>14. CASE AcceptLoop
  BY <1>14 DEF AcceptLoop
<1>15. CASE AcceptFails
  BY <1>15 DEF AcceptFails
<1>16. CASE ReleaseSession
  BY <1>16 DEF ReleaseSession
<1>17. CASE TakeIndex
  BY <1>17 DEF TakeIndex
<1>18. CASE Initialize
  BY <1>18 DEF Initialize
<1>19. CASE BindIOCP
  BY <1>19 DEF BindIOCP, Pushed
<1>20. CASE BindFails
  BY <1>20 DEF BindFails
<1>21. CASE GameLogicThread
  BY <1>21 DEF GameLogicThread, GameLoop, DispatchEvent, Announced
<1>22. CASE Kernel
  BY <1>22 DEF Kernel, Completed
<1>23. CASE \E w \in Workers : WorkerLoop(w)
  BY <1>23 DEF WorkerLoop
<1>24. CASE \E w \in Workers : TakeCompletion(w)
  BY <1>24 DEF TakeCompletion
<1>25. CASE \E w \in Workers : CheckCompletion(w)
  <2>1. PICK w \in Workers : CheckCompletion(w)
    BY <1>25
  <2>2. pc[w] = "check" /\ \A t \in Threads \ {w} : pc'[t] = pc[t]
    BY <2>1 DEF CheckCompletion, ParsePackets
  <2>3. UNCHANGED <<owner, handle, running>>
    BY <2>1 DEF CheckCompletion, ParsePackets
  <2> QED BY <2>2, <2>3
<1>26. CASE \E t \in Threads : Drop(t)
  BY <1>26 DEF Drop, Resume
<1>27. CASE \E t \in Threads : CloseSocket(t)
  BY <1>27 DEF CloseSocket
<1>28. CASE \E t \in Threads : ClearSocket(t)
  BY <1>28 DEF ClearSocket, Resume
<1>29. CASE \E t \in Threads : PostRecv(t)
  BY <1>29 DEF PostRecv
<1>30. CASE UNCHANGED vars
  BY <1>30 DEF vars
<1> QED
  BY <1>1, <1>2, <1>3, <1>4, <1>5, <1>6, <1>7, <1>8, <1>9, <1>10, <1>11,
     <1>12, <1>13, <1>14, <1>15, <1>16, <1>17, <1>18, <1>19, <1>20, <1>21,
     <1>22, <1>23, <1>24, <1>25, <1>26, <1>27, <1>28, <1>29, <1>30
  DEF Next, Owner, AcceptThread, WorkerThread, Session

\* Every completion but a null one names a session, and a thread takes up work
\* on a session (DisconnectSessionInternal, PostRecv, Initialize) only after it
\* has one: the worker has looked for the null completion by then.
LEMMA SlotStep == TypeOK /\ SlotInv /\ [Next]_vars => SlotInv'
<1> SUFFICES ASSUME TypeOK, SlotInv, [Next]_vars PROVE SlotInv'
  OBVIOUS
<1> USE LifecycleAssumption, WorkersCounted DEF TypeOK, PCs, SlotInv, Threads, Works, Named,
        Null, Step, Own, switches, flags, sockets, sessions, threads
<1>1. CASE StartSucceeds
  BY <1>1 DEF StartSucceeds
<1>2. CASE StartFails
  BY <1>2 DEF StartFails
<1>3. CASE StartGameThread
  BY <1>3 DEF StartGameThread
<1>4. CASE Await
  BY <1>4 DEF Await, Awaited
<1>5. CASE Stop
  BY <1>5 DEF Stop
<1>6. CASE Disconnect
  BY <1>6 DEF Disconnect
<1>7. CASE CloseOne
  BY <1>7 DEF CloseOne
<1>8. CASE RefillIndices
  BY <1>8 DEF RefillIndices
<1>9. CASE CloseListen
  BY <1>9 DEF CloseListen
<1>10. CASE WakeWorkers
  BY <1>10 DEF WakeWorkers
<1>11. CASE CloseHandle
  BY <1>11 DEF CloseHandle
<1>12. CASE Destroy
  BY <1>12 DEF Destroy
<1>13. CASE AcceptReturns
  BY <1>13 DEF AcceptReturns
<1>14. CASE AcceptLoop
  BY <1>14 DEF AcceptLoop
<1>15. CASE AcceptFails
  BY <1>15 DEF AcceptFails
<1>16. CASE ReleaseSession
  BY <1>16 DEF ReleaseSession
<1>17. CASE TakeIndex
  BY <1>17 DEF TakeIndex
<1>18. CASE Initialize
  BY <1>18 DEF Initialize
<1>19. CASE BindIOCP
  BY <1>19 DEF BindIOCP, Pushed
<1>20. CASE BindFails
  BY <1>20 DEF BindFails
<1>21. CASE GameLogicThread
  <2>1. CASE at' = [at EXCEPT !["game"] = Null] /\ pc' = [pc EXCEPT !["game"] = pc'["game"]]
                /\ pc'["game"] \in {"loop", "dispatch", "ended"}
    BY <1>21, <2>1 DEF GameLogicThread, GameLoop, DispatchEvent
  <2>2. CASE DispatchEvent /\ Step("game", "dispatch", "drop")
    <3>1. PICK s \in Slots : at' = [at EXCEPT !["game"].slot = s]
      BY <2>2 DEF DispatchEvent, Announced
    <3> QED BY <2>2, <3>1 DEF DispatchEvent
  <2> QED BY <1>21, <2>1, <2>2 DEF GameLogicThread, GameLoop, DispatchEvent
<1>22. CASE Kernel
  <2>1. PICK r \in inflight, ok \in BOOLEAN : Completed(r, ok)
    BY <1>22 DEF Kernel
  <2>2. r.slot \in Slots /\ port' = Append(port, [slot |-> r.slot, ok |-> ok])
    BY <2>1 DEF Completed
  <2> QED BY <2>1, <2>2 DEF Completed
<1>23. CASE \E w \in Workers : WorkerLoop(w)
  BY <1>23 DEF WorkerLoop
<1>24. CASE \E w \in Workers : TakeCompletion(w)
  BY <1>24 DEF TakeCompletion
<1>25. CASE \E w \in Workers : CheckCompletion(w)
  <2>1. PICK w \in Workers : CheckCompletion(w)
    BY <1>25
  <2>2. at[w] = Null => pc'[w] \notin Works
    BY <2>1 DEF CheckCompletion, ParsePackets
  <2> QED BY <2>1, <2>2 DEF CheckCompletion, ParsePackets
<1>26. CASE \E t \in Threads : Drop(t)
  BY <1>26 DEF Drop, Resume
<1>27. CASE \E t \in Threads : CloseSocket(t)
  BY <1>27 DEF CloseSocket
<1>28. CASE \E t \in Threads : ClearSocket(t)
  BY <1>28 DEF ClearSocket, Resume
<1>29. CASE \E t \in Threads : PostRecv(t)
  BY <1>29 DEF PostRecv
<1>30. CASE UNCHANGED vars
  BY <1>30 DEF vars
<1> QED
  BY <1>1, <1>2, <1>3, <1>4, <1>5, <1>6, <1>7, <1>8, <1>9, <1>10, <1>11,
     <1>12, <1>13, <1>14, <1>15, <1>16, <1>17, <1>18, <1>19, <1>20, <1>21,
     <1>22, <1>23, <1>24, <1>25, <1>26, <1>27, <1>28, <1>29, <1>30
  DEF Next, Owner, AcceptThread, WorkerThread, Session

\* Every step keeps the types, given that who works on a session has one.
LEMMA TypeStep == TypeOK /\ SlotInv /\ [Next]_vars => TypeOK'
<1> SUFFICES ASSUME TypeOK, SlotInv, [Next]_vars PROVE TypeOK'
  OBVIOUS
<1> USE LifecycleAssumption, WorkersCounted DEF TypeOK, PCs, SlotInv, Threads, Works, Named,
        Null, Step, Own, switches, flags, sockets, sessions, threads
<1>1. CASE StartSucceeds
  BY <1>1 DEF StartSucceeds
<1>2. CASE StartFails
  BY <1>2 DEF StartFails
<1>3. CASE StartGameThread
  BY <1>3 DEF StartGameThread
<1>4. CASE Await
  BY <1>4 DEF Await, Awaited
<1>5. CASE Stop
  BY <1>5 DEF Stop
<1>6. CASE Disconnect
  BY <1>6 DEF Disconnect
<1>7. CASE CloseOne
  BY <1>7 DEF CloseOne
<1>8. CASE RefillIndices
  BY <1>8 DEF RefillIndices
<1>9. CASE CloseListen
  BY <1>9 DEF CloseListen
<1>10. CASE WakeWorkers
  <2> DEFINE S     == [slot : Slots \cup {"none"}, ok : BOOLEAN]
             nulls == [i \in 1..Cardinality(Workers) |-> Null]
  <2>1. Null \in S
    OBVIOUS
  <2>2. nulls \in Seq(S)
    <3>1. nulls \in [1..Cardinality(Workers) -> S]
      <4> HIDE DEF Null, S
      <4> QED BY <2>1
    <3> HIDE DEF Null, S, nulls, TypeOK, SlotInv
    <3> QED BY <3>1, WorkersCounted, SeqDef
  <2>3. port' = port \o nulls /\ port \in Seq(S)
    BY <1>10 DEF WakeWorkers
  <2>4. port' \in Seq(S)
    <3> HIDE DEF S, nulls
    <3> QED BY <2>2, <2>3, ConcatProperties
  <2> HIDE DEF nulls
  <2> QED BY <1>10, <2>4 DEF WakeWorkers
<1>11. CASE CloseHandle
  BY <1>11 DEF CloseHandle
<1>12. CASE Destroy
  <2>1. open' \subseteq 1..MaxSockets
    BY <1>12 DEF Destroy
  <2>2. field' \in [Slots -> 0..MaxSockets]
    BY <1>12 DEF Destroy
  <2> QED BY <1>12, <2>1, <2>2 DEF Destroy
<1>13. CASE AcceptReturns
  BY <1>13 DEF AcceptReturns
<1>14. CASE AcceptLoop
  BY <1>14 DEF AcceptLoop
<1>15. CASE AcceptFails
  <2>1. open' \subseteq 1..MaxSockets /\ free' \subseteq Slots /\ pending' \subseteq Slots
    BY <1>15 DEF AcceptFails
  <2>2. field' \in [Slots -> 0..MaxSockets]
    BY <1>15 DEF AcceptFails
  <2> QED BY <1>15, <2>1, <2>2 DEF AcceptFails
<1>16. CASE ReleaseSession
  <2>1. open' \subseteq 1..MaxSockets /\ free' \subseteq Slots /\ pending' \subseteq Slots
    BY <1>16 DEF ReleaseSession
  <2>2. field' \in [Slots -> 0..MaxSockets]
    BY <1>16 DEF ReleaseSession
  <2> QED BY <1>16, <2>1, <2>2 DEF ReleaseSession
<1>17. CASE TakeIndex
  <2>1. CASE free = {}
    <3>1. open' \subseteq 1..MaxSockets
      BY <1>17, <2>1 DEF TakeIndex
    <3> QED BY <1>17, <2>1, <3>1 DEF TakeIndex
  <2>2. CASE free # {}
    <3>1. PICK s \in Slots : free' = free \ {s} /\ at' = [at EXCEPT !["accept"].slot = s]
      BY <1>17, <2>2 DEF TakeIndex
    <3>2. /\ free' \subseteq Slots
          /\ at' \in [Threads -> [slot : Slots \cup {"none"}, ok : BOOLEAN]]
          /\ at'["accept"].slot \in Slots /\ \A t \in Threads \ {"accept"} : at'[t] = at[t]
      <4>1. /\ at \in [Threads -> [slot : Slots \cup {"none"}, ok : BOOLEAN]]
            /\ free \subseteq Slots
        OBVIOUS
      <4> HIDE DEF TypeOK, SlotInv
      <4> QED BY <3>1, <4>1
    <3>3. /\ pc["accept"] = "take" /\ pc' = [pc EXCEPT !["accept"] = "initialize"]
          /\ UNCHANGED <<flags, sockets, field, valid, pending, accSock, owner, toClose>>
      BY <1>17, <2>2 DEF TakeIndex
    <3> QED BY <3>2, <3>3
  <2> QED BY <2>1, <2>2
<1>18. CASE Initialize
  BY <1>18 DEF Initialize
<1>19. CASE BindIOCP
  BY <1>19 DEF BindIOCP, Pushed
<1>20. CASE BindFails
  <2>1. at["accept"].slot \in Slots
    BY <1>20 DEF BindFails
  <2>2. open' \subseteq 1..MaxSockets /\ free' \subseteq Slots
    BY <1>20, <2>1 DEF BindFails
  <2> QED BY <1>20, <2>1, <2>2 DEF BindFails
<1>21. CASE GameLogicThread
  <2>1. CASE at' = [at EXCEPT !["game"] = Null] /\ pc' = [pc EXCEPT !["game"] = pc'["game"]]
                /\ pc'["game"] \in {"loop", "dispatch", "ended"}
    BY <1>21, <2>1 DEF GameLogicThread, GameLoop, DispatchEvent
  <2>2. CASE DispatchEvent /\ Step("game", "dispatch", "drop")
    <3>1. PICK s \in Slots : at' = [at EXCEPT !["game"].slot = s]
      BY <2>2 DEF DispatchEvent, Announced
    <3>2. /\ at' \in [Threads -> [slot : Slots \cup {"none"}, ok : BOOLEAN]]
          /\ at'["game"].slot \in Slots /\ \A t \in Threads \ {"game"} : at'[t] = at[t]
      <4>1. at \in [Threads -> [slot : Slots \cup {"none"}, ok : BOOLEAN]]
        OBVIOUS
      <4> HIDE DEF TypeOK, SlotInv
      <4> QED BY <3>1, <4>1
    <3>3. pc' = [pc EXCEPT !["game"] = "drop"] /\ queued' \in Nat
      BY <2>2 DEF DispatchEvent
    <3> QED BY <2>2, <3>2, <3>3 DEF DispatchEvent
  <2> QED BY <1>21, <2>1, <2>2 DEF GameLogicThread, GameLoop, DispatchEvent
<1>22. CASE Kernel
  <2>1. PICK r \in inflight, ok \in BOOLEAN : Completed(r, ok)
    BY <1>22 DEF Kernel
  <2>2. port' \in Seq([slot : Slots \cup {"none"}, ok : BOOLEAN])
    BY <2>1 DEF Completed
  <2>3. inflight' \subseteq [sock : 1..MaxSockets, slot : Slots]
    BY <2>1 DEF Completed
  <2> QED BY <2>1, <2>2, <2>3 DEF Completed
<1>23. CASE \E w \in Workers : WorkerLoop(w)
  BY <1>23 DEF WorkerLoop
<1>24. CASE \E w \in Workers : TakeCompletion(w)
  <2>1. PICK w \in Workers : TakeCompletion(w)
    BY <1>24
  <2>2. /\ port' \in Seq([slot : Slots \cup {"none"}, ok : BOOLEAN])
        /\ Head(port) \in [slot : Slots \cup {"none"}, ok : BOOLEAN]
    BY <2>1, HeadTailProperties DEF TakeCompletion
  <2>3. /\ pc[w] = "waiting" /\ pc' = [pc EXCEPT ![w] = "check"]
        /\ at' = [at EXCEPT ![w] = Head(port)]
        /\ UNCHANGED <<flags, listening, handle, open, inflight, sessions, accSock, owner, toClose>>
    BY <2>1 DEF TakeCompletion
  <2>4. /\ pc' \in [Threads -> PCs] /\ pc'[w] = "check"
        /\ \A v \in Threads \ {w} : pc'[v] = pc[v]
    BY <2>3
  <2>5. /\ at' \in [Threads -> [slot : Slots \cup {"none"}, ok : BOOLEAN]]
        /\ \A v \in Threads \ {w} : at'[v] = at[v]
    BY <2>2, <2>3
  <2>6. \A v \in Threads : pc'[v] \in {"drop", "close", "clear", "push", "recv"} => at'[v].slot \in Slots
    BY <2>4, <2>5
  <2>7. port' \in Seq([slot : Slots \cup {"none"}, ok : BOOLEAN])
    BY <2>2
  <2> QED BY <2>3, <2>4, <2>5, <2>6, <2>7
<1>25. CASE \E w \in Workers : CheckCompletion(w)
  BY <1>25 DEF CheckCompletion, ParsePackets
<1>26. CASE \E t \in Threads : Drop(t)
  BY <1>26 DEF Drop, Resume
<1>27. CASE \E t \in Threads : CloseSocket(t)
  <2>1. PICK t \in Threads : CloseSocket(t)
    BY <1>27
  <2>2. open' \subseteq 1..MaxSockets
    BY <2>1 DEF CloseSocket
  <2> QED BY <2>1, <2>2 DEF CloseSocket
<1>28. CASE \E t \in Threads : ClearSocket(t)
  <2>1. PICK t \in Threads : ClearSocket(t)
    BY <1>28
  <2> DEFINE i == at[t].slot
  <2>2. /\ pc[t] \in {"clear", "push"} /\ pc' = [pc EXCEPT ![t] = pc'[t]]
        /\ pc'[t] \in {"loop", "dispatch"} /\ i \in Slots /\ pending' = pending \cup {i}
        /\ field' \in [Slots -> 0..MaxSockets] /\ queued' \in Nat
        /\ \A u \in Slots : field'[u] = IF u = i /\ pc[t] = "clear" THEN 0 ELSE field[u]
        /\ UNCHANGED <<switches, sockets, valid, free, accSock, at, owner, toClose>>
    BY <2>1, ClearEffect
  <2>3. PICK x \in {"loop", "dispatch"} : pc' = [pc EXCEPT ![t] = x]
    BY <2>2
  <2>4. pc' \in [Threads -> PCs]
    BY <2>3
  <2>5. \A v \in Threads : pc'[v] \in {"drop", "close", "clear", "push", "recv"} => pc'[v] = pc[v]
    BY <2>3
  <2>6. pending' \subseteq Slots
    BY <2>2
  <2> QED BY <2>2, <2>4, <2>5, <2>6
<1>29. CASE \E t \in Threads : PostRecv(t)
  <2>1. PICK t \in Threads : PostRecv(t)
    BY <1>29
  <2>2. at[t].slot \in Slots
    BY <2>1 DEF PostRecv
  <2>3. inflight' \subseteq [sock : 1..MaxSockets, slot : Slots]
    BY <2>1, <2>2 DEF PostRecv
  <2>4. /\ pc' \in [Threads -> PCs] /\ UNCHANGED <<flags, listening, handle, port, open, sessions, accSock, at, owner, toClose>>
        /\ \A v \in Threads : pc'[v] \in {"drop", "close", "clear", "push", "recv"} => pc[v] \in {"drop", "close", "clear", "push", "recv"}
    BY <2>1, <2>2 DEF PostRecv
  <2> QED BY <2>3, <2>4
<1>30. CASE UNCHANGED vars
  BY <1>30 DEF vars
<1> QED
  BY <1>1, <1>2, <1>3, <1>4, <1>5, <1>6, <1>7, <1>8, <1>9, <1>10, <1>11,
     <1>12, <1>13, <1>14, <1>15, <1>16, <1>17, <1>18, <1>19, <1>20, <1>21,
     <1>22, <1>23, <1>24, <1>25, <1>26, <1>27, <1>28, <1>29, <1>30
  DEF Next, Owner, AcceptThread, WorkerThread, Session

\* bindFailed is never taken back.
LEMMA BindFailedStays == TypeOK /\ [Next]_vars /\ ~bindFailed' => ~bindFailed
BY DEF TypeOK, Next, vars, switches, flags, Owner, StartSucceeds, StartFails, StartGameThread, Await,
       Disconnect, CloseOne, RefillIndices, CloseListen, WakeWorkers, CloseHandle, Destroy,
       Stop, AcceptReturns, AcceptThread, AcceptLoop, AcceptFails, ReleaseSession, TakeIndex,
       Initialize, BindIOCP, BindFails, GameLogicThread, GameLoop, DispatchEvent, Kernel, Completed, WorkerThread,
       WorkerLoop, TakeCompletion, CheckCompletion, Session, Drop, CloseSocket, ClearSocket,
       PostRecv

\* An open socket stays in _socket of a session the owner has still to close, or with
\* the accept thread: whoever clears a _socket has closed that socket before.
LEMMA OpenStep == TypeOK /\ SlotInv /\ JoinInv /\ OpenInv /\ [Next]_vars /\ ~bindFailed'
                 /\ (owner \in Before => \A s \in Slots : PlaceInv(s)) => OpenInv'
<1> SUFFICES ASSUME TypeOK, SlotInv, JoinInv, OpenInv, owner \in Before => \A s \in Slots : PlaceInv(s),
                        [Next]_vars, ~bindFailed' PROVE OpenInv'
  OBVIOUS
<1> USE LifecycleAssumption DEF TypeOK, PCs, JoinInv, Threads, Over, Ending, Step, Own, switches, flags,
        sockets, sessions, threads, OpenInv, Covered, InHand, Before
<1>1. CASE StartSucceeds
  BY <1>1 DEF StartSucceeds
<1>2. CASE StartFails
  BY <1>2 DEF StartFails
<1>3. CASE StartGameThread
  BY <1>3 DEF StartGameThread
<1>4. CASE Await
  BY <1>4 DEF Await, Awaited
<1>5. CASE Stop
  BY <1>5 DEF Stop
<1>6. CASE Disconnect
  BY <1>6 DEF Disconnect
<1>7. CASE CloseOne
  BY <1>7 DEF CloseOne
<1>8. CASE RefillIndices
  BY <1>8 DEF RefillIndices
<1>9. CASE CloseListen
  BY <1>9 DEF CloseListen
<1>10. CASE WakeWorkers
  BY <1>10 DEF WakeWorkers
<1>11. CASE CloseHandle
  BY <1>11 DEF CloseHandle
<1>12. CASE Destroy
  BY <1>12 DEF Destroy
<1>13. CASE AcceptReturns
  BY <1>13 DEF AcceptReturns
<1>14. CASE AcceptLoop
  BY <1>14 DEF AcceptLoop
<1>15. CASE AcceptFails
  BY <1>15 DEF AcceptFails
<1>16. CASE ReleaseSession
  BY <1>16 DEF ReleaseSession
<1>17. CASE TakeIndex
  BY <1>17 DEF TakeIndex
<1>18. CASE Initialize
  <2> DEFINE i == at["accept"].slot
  <2>1. /\ i \in Slots /\ field' = [field EXCEPT ![i] = accSock]
        /\ pc["accept"] = "initialize" /\ pc' = [pc EXCEPT !["accept"] = "bind"]
        /\ UNCHANGED <<flags, sockets, free, pending, accSock, at, owner, toClose>>
    BY <1>18 DEF Initialize, SlotInv, Works
  <2>2. owner \in Before => field[i] \notin open
    BY <2>1 DEF PlaceInv, Starting
  <2>3. \A x \in open : (x = accSock /\ InHand') \/ \E s \in Covered : field'[s] = x
    <3> SUFFICES ASSUME NEW x \in open PROVE (x = accSock /\ InHand') \/ \E s \in Covered : field'[s] = x
      OBVIOUS
    <3>1. CASE x = accSock
      BY <2>1, <3>1
    <3>2. CASE x # accSock
      <4>1. PICK s \in Covered : field[s] = x
        BY <3>2
      <4>2. s # i /\ s \in Slots
        BY <2>2, <4>1
      <4> QED BY <2>1, <4>1, <4>2
    <3> QED BY <3>1, <3>2
  <2> QED BY <2>1, <2>3
<1>19. CASE BindIOCP
  BY <1>19 DEF BindIOCP, Pushed
<1>20. CASE BindFails
  BY <1>20 DEF BindFails
<1>21. CASE GameLogicThread
  BY <1>21 DEF GameLogicThread, GameLoop, DispatchEvent, Announced
<1>22. CASE Kernel
  <2>1. PICK r \in inflight, ok \in BOOLEAN : Completed(r, ok)
    BY <1>22 DEF Kernel
  <2> QED BY <2>1 DEF Completed
<1>23. CASE \E w \in Workers : WorkerLoop(w)
  <2>1. PICK w \in Workers : WorkerLoop(w)
    BY <1>23
  <2> QED BY <2>1 DEF WorkerLoop
<1>24. CASE \E w \in Workers : TakeCompletion(w)
  <2>1. PICK w \in Workers : TakeCompletion(w)
    BY <1>24
  <2> QED BY <2>1 DEF TakeCompletion
<1>25. CASE \E w \in Workers : CheckCompletion(w)
  <2>1. PICK w \in Workers : CheckCompletion(w)
    BY <1>25
  <2> QED BY <2>1 DEF CheckCompletion, ParsePackets
<1>26. CASE \E t \in Threads : Drop(t)
  <2>1. PICK t \in Threads : Drop(t)
    BY <1>26
  <2> QED BY <2>1 DEF Drop, Resume
<1>27. CASE \E t \in Threads : CloseSocket(t)
  <2>1. PICK t \in Threads : CloseSocket(t)
    BY <1>27
  <2> QED BY <2>1 DEF CloseSocket
<1>28. CASE \E t \in Threads : ClearSocket(t)
  <2>1. PICK t \in Threads : ClearSocket(t)
    BY <1>28
  <2> DEFINE i == at[t].slot
  <2>2. /\ i \in Slots /\ \A s \in Slots : field'[s] = field[s] \/ (field'[s] = 0 /\ s = i /\ pc[t] = "clear")
        /\ field' \in [Slots -> Int] /\ pc[t] \in {"clear", "push"} /\ owner # "start"
        /\ pc' = [pc EXCEPT ![t] = pc'[t]] /\ pc'[t] \in {"loop", "dispatch"}
        /\ UNCHANGED <<switches, sockets, valid, free, accSock, at, owner, toClose>>
    BY <2>1, ClearEffect
  <2>3. owner \in Before /\ pc[t] = "clear" => field[i] \notin open
    BY <2>2 DEF PlaceInv, Tears
  <2>4. \A x \in open : (x = accSock /\ InHand') \/ \E s \in Covered : field'[s] = x
    <3> SUFFICES ASSUME NEW x \in open, ~(x = accSock /\ InHand) PROVE \E s \in Covered : field'[s] = x
      BY <2>2
    <3>1. PICK s \in Covered : field[s] = x
      OBVIOUS
    <3> QED BY <2>2, <2>3, <3>1
  <2> QED BY <2>2, <2>4
<1>29. CASE \E t \in Threads : PostRecv(t)
  <2>1. PICK t \in Threads : PostRecv(t)
    BY <1>29
  <2> QED BY <2>1 DEF PostRecv
<1>30. CASE UNCHANGED vars
  <2>1. OpenInv /\ UNCHANGED <<flags, sockets, sessions, threads, owner, toClose>>
    BY <1>30 DEF vars
  <2> HIDE DEF TypeOK, JoinInv
  <2> QED BY <2>1
<1> QED
  BY <1>1, <1>2, <1>3, <1>4, <1>5, <1>6, <1>7, <1>8, <1>9, <1>10, <1>11, <1>12, <1>13, <1>14,
     <1>15, <1>16, <1>17, <1>18, <1>19, <1>20, <1>21, <1>22, <1>23, <1>24, <1>25, <1>26, <1>27,
     <1>28, <1>29, <1>30
  DEF Next, Owner, AcceptThread, WorkerThread, Session

\* As long as no BindIOCP has failed and Disconnect has not refilled the indices, no
\* index is in two places and one thread at most tears a session down.
LEMMA PlaceStep == TypeOK /\ SlotInv /\ JoinInv /\ OpenInv /\ [Next]_vars /\ ~bindFailed'
                  /\ (\A s \in Slots : PlaceInv(s)) /\ owner' \in Before => \A s \in Slots : PlaceInv(s)'
<1> SUFFICES ASSUME TypeOK, SlotInv, JoinInv, OpenInv, \A s \in Slots : PlaceInv(s),
                        [Next]_vars, ~bindFailed', owner' \in Before, NEW s \in Slots PROVE PlaceInv(s)'
  OBVIOUS
<1> USE LifecycleAssumption DEF TypeOK, PCs, JoinInv, Threads, Over, Ending, Step, Own, switches, flags,
        sockets, sessions, threads, SlotInv, OpenInv, PlaceInv, Before, Works, Tears, Starting,
        Unused, Untouched
<1>1. CASE StartSucceeds
  BY <1>1 DEF StartSucceeds
<1>2. CASE StartFails
  BY <1>2 DEF StartFails
<1>3. CASE StartGameThread
  BY <1>3 DEF StartGameThread
<1>4. CASE Await
  BY <1>4 DEF Await, Awaited
<1>5. CASE Stop
  BY <1>5 DEF Stop
<1>6. CASE Disconnect
  BY <1>6 DEF Disconnect
<1>7. CASE CloseOne
  BY <1>7 DEF CloseOne
<1>8. CASE RefillIndices
  BY <1>8 DEF RefillIndices
<1>9. CASE CloseListen
  BY <1>9 DEF CloseListen
<1>10. CASE WakeWorkers
  BY <1>10 DEF WakeWorkers
<1>11. CASE CloseHandle
  BY <1>11 DEF CloseHandle
<1>12. CASE Destroy
  BY <1>12 DEF Destroy
<1>13. CASE AcceptReturns
  BY <1>13 DEF AcceptReturns
<1>14. CASE AcceptLoop
  BY <1>14 DEF AcceptLoop
<1>15. CASE AcceptFails
  BY <1>15 DEF AcceptFails
<1>16. CASE ReleaseSession
  BY <1>16 DEF ReleaseSession
<1>17. CASE TakeIndex
  BY <1>17 DEF TakeIndex
<1>18. CASE Initialize
  BY <1>18 DEF Initialize
<1>19. CASE BindIOCP
  BY <1>19 DEF BindIOCP, Pushed
<1>20. CASE BindFails
  BY <1>20 DEF BindFails
<1>21. CASE GameLogicThread
  BY <1>21 DEF GameLogicThread, GameLoop, DispatchEvent, Announced
<1>22. CASE Kernel
  <2>1. PICK r \in inflight, ok \in BOOLEAN : Completed(r, ok)
    BY <1>22 DEF Kernel
  <2>2. /\ inflight' \subseteq inflight /\ UNCHANGED <<flags, listening, handle, open, sessions, threads, owner, toClose>>
        /\ \A j \in 1..Len(port') : (j \in 1..Len(port) /\ port'[j] = port[j]) \/ port'[j].slot = r.slot
    <3>1. /\ inflight' \subseteq inflight /\ port' = Append(port, [slot |-> r.slot, ok |-> ok])
          /\ UNCHANGED <<flags, listening, handle, open, sessions, threads, owner, toClose>>
      BY <2>1 DEF Completed
    <3>2. port \in Seq([slot : Slots \cup {"none"}, ok : BOOLEAN])
      OBVIOUS
    <3> HIDE DEF TypeOK, PCs, JoinInv, SlotInv, OpenInv, PlaceInv
    <3>3. \A j \in 1..Len(port') : (j \in 1..Len(port) /\ port'[j] = port[j]) \/ port'[j].slot = r.slot
      BY <3>1, <3>2
    <3> QED BY <3>1, <3>3
  <2>3. Untouched(s)'
    <3>1. Untouched(s) /\ r \in inflight /\ UNCHANGED <<field, valid, pc, at>>
      BY <2>2
    <3> HIDE DEF TypeOK, PCs, JoinInv, SlotInv, OpenInv, PlaceInv, flags, switches, sockets, sessions, threads
    <3> QED BY <2>2, <3>1
  <2> HIDE DEF Untouched
  <2> QED BY <2>2, <2>3
<1>23. CASE \E w \in Workers : WorkerLoop(w)
  <2>1. PICK w \in Workers : WorkerLoop(w)
    BY <1>23
  <2> QED BY <2>1 DEF WorkerLoop
<1>24. CASE \E w \in Workers : TakeCompletion(w)
  <2>1. PICK w \in Workers : TakeCompletion(w)
    BY <1>24
  <2> QED BY <2>1 DEF TakeCompletion
<1>25. CASE \E w \in Workers : CheckCompletion(w)
  <2>1. PICK w \in Workers : CheckCompletion(w)
    BY <1>25
  <2> QED BY <2>1 DEF CheckCompletion, ParsePackets
<1>26. CASE \E t \in Threads : Drop(t)
  <2>1. PICK t \in Threads : Drop(t)
    BY <1>26
  <2> QED BY <2>1 DEF Drop, Resume
<1>27. CASE \E t \in Threads : CloseSocket(t)
  <2>1. PICK t \in Threads : CloseSocket(t)
    BY <1>27
  <2> QED BY <2>1 DEF CloseSocket
<1>28. CASE \E t \in Threads : ClearSocket(t)
  <2>1. PICK t \in Threads : ClearSocket(t)
    BY <1>28
  <2> DEFINE i == at[t].slot
  <2>2. /\ pc[t] \in {"clear", "push"} /\ pc' = [pc EXCEPT ![t] = pc'[t]]
        /\ pc'[t] \in {"loop", "dispatch"} /\ i \in Slots /\ pending' = pending \cup {i}
        /\ field' \in [Slots -> 0..MaxSockets] /\ queued' \in Nat
        /\ \A u \in Slots : field'[u] = IF u = i /\ pc[t] = "clear" THEN 0 ELSE field[u]
        /\ UNCHANGED <<switches, sockets, valid, free, accSock, at, owner, toClose>>
    BY <2>1, ClearEffect
  <2>3. \A x \in open : field'[s] = x => field[s] = x
    BY <2>2
  <2> QED BY <2>2, <2>3
<1>29. CASE \E t \in Threads : PostRecv(t)
  <2>1. PICK t \in Threads : PostRecv(t)
    BY <1>29
  <2> QED BY <2>1 DEF PostRecv
<1>30. CASE UNCHANGED vars
  <2>1. PlaceInv(s) /\ UNCHANGED <<flags, sockets, sessions, threads, owner>>
    BY <1>30 DEF vars
  <2> HIDE DEF TypeOK, SlotInv, JoinInv, OpenInv
  <2> QED BY <2>1
<1> QED
  BY <1>1, <1>2, <1>3, <1>4, <1>5, <1>6, <1>7, <1>8, <1>9, <1>10, <1>11, <1>12, <1>13, <1>14,
     <1>15, <1>16, <1>17, <1>18, <1>19, <1>20, <1>21, <1>22, <1>23, <1>24, <1>25, <1>26, <1>27,
     <1>28, <1>29, <1>30
  DEF Next, Owner, AcceptThread, WorkerThread, Session

\* What the owner has waited for at each step of Stop and Disconnect, the types,
\* the sessions that threads work on and the places of sockets and indices hold in
\* every reachable state.
THEOREM Invariance == Spec => []IInv
<1>1. IInv /\ [Next]_vars => SocketInv'
  <2> SUFFICES ASSUME IInv, [Next]_vars, ~bindFailed'
               PROVE OpenInv' /\ (owner' \in Before => \A s \in Slots : PlaceInv(s)')
    BY DEF SocketInv
  <2>1. ~bindFailed
    BY BindFailedStays DEF IInv
  <2>2. TypeOK /\ SlotInv /\ JoinInv /\ OpenInv /\ (owner \in Before => \A s \in Slots : PlaceInv(s))
    BY <2>1 DEF IInv, SocketInv
  <2>3. owner' \in Before => owner \in Before
    BY <2>2 DEF TypeOK, Before, Next, vars, switches, flags, Own, Owner, StartSucceeds, StartFails,
       StartGameThread, Await, Disconnect, CloseOne, RefillIndices, CloseListen, WakeWorkers,
       CloseHandle, Destroy, Stop, AcceptReturns, AcceptThread, AcceptLoop, AcceptFails,
       ReleaseSession, TakeIndex, Initialize, BindIOCP, BindFails, GameLogicThread, GameLoop, DispatchEvent, Kernel,
       Completed, WorkerThread, WorkerLoop, TakeCompletion, CheckCompletion, Session, Drop,
       CloseSocket, ClearSocket, PostRecv
  <2> QED BY <2>2, <2>3, OpenStep, PlaceStep
<1>2. IInv /\ [Next]_vars => IInv'
  BY <1>1, JoinStep, SlotStep, TypeStep DEF IInv
<1> QED BY <1>2, InitInv, PTL DEF Spec

\* WorkerThread never takes the null completion of Disconnect for a session's:
\* who disconnects, receives or clears has a session index in hand.
THEOREM TypeCorrect == Spec => []TypeOK
BY Invariance, PTL DEF IInv

\* Disconnect closes the completion port, and ~CIOCPServer destroys the sessions,
\* only when the game thread, the workers and the accept thread have all ended.
THEOREM PortOutlives == Spec => []PortOutlivesThreads
<1>1. IInv => PortOutlivesThreads
  BY DEF IInv, JoinInv, PortOutlivesThreads, Threads, Ending
<1> QED BY <1>1, Invariance, PTL

\* Disconnect leaves no socket for WSACleanup to reset but the last one accepted, with
\* any number of clients, workers and sessions, unless a BindIOCP failed: those it
\* has not closed are in sessions it has still to visit, and no teardown clears
\* the _socket of a session that has a new one.
THEOREM ClosesAll == Spec => []ClosesAllButTheNewest
<1>1. IInv => ClosesAllButTheNewest
  BY DEF IInv, SocketInv, OpenInv, Covered, Before, ClosesAllButTheNewest
<1> QED BY <1>1, Invariance, PTL
=============================================================================

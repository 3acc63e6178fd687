--------------------------- MODULE ServerLifecycle ---------------------------
(***************************************************************************)
(* Starting and ending the server: CIOCPServer::Start and Disconnect, the  *)
(* loops of its worker threads and accept thread, CCentralizedServer with  *)
(* its game thread, the destructors, and main.cpp.  One owner thread runs  *)
(* one of two programs: main.cpp, which waits to be told to end, or an     *)
(* owner of CCentralizedServer, which may destroy it at any moment.        *)
(*                                                                         *)
(* Sockets are numbered as accept returns them; 0 is INVALID_SOCKET.  What *)
(* travels over them is left out: an operation completes well or badly.    *)
(* _pendingDisconStack is a set here (SessionPool has its races), and so   *)
(* is _availableIndices, whose order no property depends on.  Of the queue *)
(* of network events only the number of events matters here: the game      *)
(* thread takes them until none is left before it looks at _running again. *)
(***************************************************************************)
EXTENDS Integers, Sequences, FiniteSets

CONSTANTS
  Workers,    \* IOCP worker threads, 2 * hardware_concurrency of them
  Slots,      \* indices of _sessions
  MaxSockets, \* bound: connections accepted in all
  MaxQueued   \* bound: a receive completes no packet beyond this many events

ASSUME LifecycleAssumption ==
  /\ IsFiniteSet(Workers) /\ MaxSockets \in Nat /\ MaxQueued \in Nat
  /\ {"accept", "game"} \cap Workers = {} /\ "none" \notin Slots

Threads == Workers \cup {"accept", "game"}
Null    == [slot |-> "none", ok |-> FALSE]   \* the completion Disconnect posts

VARIABLES
  program,    \* which of the two programs runs
  running,    \* CIOCPServer::_running
  gameRun,    \* CCentralizedServer::_running
  procRun,    \* running of main.cpp
  listening,  \* the listen socket is open
  handle,     \* _iocpHandle: "none", "open", "closed"
  port,       \* completions waiting in the completion port
  field,      \* _socket of each session
  valid,      \* _valid of each session
  free,       \* _availableIndices
  pending,    \* _pendingDisconStack, as indices
  open,       \* sockets that are open
  inflight,   \* receives the kernel holds: socket and slot
  accSock,    \* clientSocket of the accept thread, the last one accepted
  owner,      \* next step of the owner thread
  toClose,    \* slots its closing loop has yet to visit
  queued,     \* number of events in _eventQueue
  bindFailed, \* history: BindIOCP has failed
  pc,         \* next step of every other thread
  at          \* the completion or session it is working on

switches == <<program, running, gameRun, procRun, bindFailed>>
flags    == <<switches, queued>>
sockets  == <<listening, handle, port, open, inflight>>
sessions == <<field, valid, free, pending>>
threads  == <<accSock, pc, at>>
vars     == <<flags, sockets, sessions, threads, owner, toClose>>

Init ==
  /\ program \in {"main", "centralized"}
  /\ running = FALSE /\ gameRun = FALSE /\ procRun = TRUE
  /\ listening = FALSE /\ handle = "none" /\ port = <<>> /\ open = {} /\ inflight = {}
  /\ field = [s \in Slots |-> 0] /\ valid = [s \in Slots |-> TRUE]
  /\ free = {} /\ pending = {} /\ accSock = 0
  /\ owner = "start" /\ toClose = {} /\ bindFailed = FALSE /\ queued = 0
  /\ pc = [t \in Threads |-> "none"] /\ at = [t \in Threads |-> Null]

Own(from, to)     == owner = from /\ owner' = to
Step(t, from, to) == pc[t] = from /\ pc' = [pc EXCEPT ![t] = to]
Over(t)           == pc[t] \in {"none", "ended"}

-----------------------------------------------------------------------------
(* CIOCPServer::Start.  main.cpp does not look at its result;               *)
(* CCentralizedServer sets its own _running first and gives up on failure.  *)

StartSucceeds ==
  /\ Own("start", IF program = "main" THEN "waiting" ELSE "startgame")
  /\ running' = TRUE /\ gameRun' = (program = "centralized")
  /\ free' = Slots /\ handle' = "open" /\ listening' = TRUE
  /\ pc' = [t \in Threads |-> IF t = "game" THEN "none" ELSE "loop"]
  /\ UNCHANGED <<program, procRun, port, open, inflight, field, valid, pending,
                 accSock, at, toClose, bindFailed, queued>>

\* WSAStartup, the port or the listen socket fails; nothing stays open.
StartFails ==
  /\ Own("start", IF program = "main" THEN "waiting" ELSE "up")
  /\ gameRun' = (program = "centralized")
  /\ free' = Slots /\ handle' \in {"none", "closed"}
  /\ UNCHANGED <<program, running, procRun, listening, port, open, inflight,
                 field, valid, pending, threads, toClose, bindFailed, queued>>

StartGameThread ==
  /\ Own("startgame", "up") /\ Step("game", "none", "loop")
  /\ UNCHANGED <<flags, sockets, sessions, accSock, at, toClose>>

-----------------------------------------------------------------------------
(* The end: main waits for SignalProcessShutdown and calls Disconnect; the  *)
(* destructor of CCentralizedServer calls Stop and Disconnect.              *)

\* What the owner blocks on: the condition variable of main, and three joins.
Awaited_NotAccept(step) ==
  CASE step = "waiting"     -> ~procRun
    [] step = "joingame"    -> Over("game")
    [] step = "joinworkers" -> \A w \in Workers : Over(w)
    [] step = "joinaccept"  -> TRUE

Awaited(step) ==
  CASE step = "waiting"     -> ~procRun
    [] step = "joingame"    -> Over("game")
    [] step = "joinworkers" -> \A w \in Workers : Over(w)
    [] step = "joinaccept"  -> Over("accept")

Await ==
  /\ owner \in {"waiting", "joingame", "joinworkers", "joinaccept"}
  /\ Awaited(owner)
  /\ owner' = CASE owner = "joinworkers" -> "joinaccept"
                [] owner = "joinaccept"  -> "closeport"
                [] OTHER                 -> "disconnect"
  /\ UNCHANGED <<flags, sockets, sessions, threads, toClose>>

Stop ==
  /\ Own("up", "joingame")
  /\ gameRun' = FALSE
  /\ UNCHANGED <<program, running, procRun, sockets, sessions, threads, toClose, bindFailed,
                 queued>>

\* Disconnect returns at once when the server does not run.
Disconnect ==
  /\ Own("disconnect", IF running THEN "closing" ELSE "destroy")
  /\ running' = FALSE /\ toClose' = IF running THEN Slots ELSE {}
  /\ UNCHANGED <<program, gameRun, procRun, sockets, sessions, threads, bindFailed, queued>>

\* One round of the loop over _sessions: _socket keeps its value.
CloseOne_OnlyInvalidates ==
  /\ Own("closing", "closing")
  /\ \E s \in toClose :
       /\ toClose' = toClose \ {s}
       /\ valid' = [valid EXCEPT ![s] = @ /\ field[s] = 0]
  /\ UNCHANGED <<flags, sockets, field, free, pending, threads>>

CloseOne ==
  /\ Own("closing", "closing")
  /\ \E s \in toClose :
       /\ toClose' = toClose \ {s}
       /\ open' = open \ {field[s]}
       /\ valid' = [valid EXCEPT ![s] = @ /\ field[s] = 0]
  /\ UNCHANGED <<flags, listening, handle, port, inflight, field, free, pending, threads>>

RefillIndices ==
  /\ Own("closing", "closelisten") /\ toClose = {}
  /\ free' = Slots
  /\ UNCHANGED <<flags, sockets, field, valid, pending, threads, toClose>>

CloseListen ==
  /\ Own("closelisten", "wake")
  /\ listening' = FALSE
  /\ UNCHANGED <<flags, handle, port, open, inflight, sessions, threads, toClose>>

\* One null completion for each worker.
WakeWorkers_OneShort ==
  /\ Own("wake", "joinworkers")
  /\ port' = port \o [i \in 1..Cardinality(Workers)-1 |-> Null]
  /\ UNCHANGED <<flags, listening, handle, open, inflight, sessions, threads, toClose>>

WakeWorkers ==
  /\ Own("wake", "joinworkers")
  /\ port' = port \o [i \in 1..Cardinality(Workers) |-> Null]
  /\ UNCHANGED <<flags, listening, handle, open, inflight, sessions, threads, toClose>>

\* CloseHandle and WSACleanup, which resets every socket that is still open.
CloseHandle ==
  /\ Own("closeport", "destroy")
  /\ handle' = "closed" /\ open' = {}
  /\ UNCHANGED <<flags, listening, port, inflight, sessions, threads, toClose>>

\* The destructor of CIOCPServer: its Disconnect finds nothing to do, it
\* signals main, and then the sessions are destroyed, each with its socket.
Destroy ==
  /\ Own("destroy", "done")
  /\ procRun' = FALSE
  /\ open' = open \ {field[s] : s \in Slots}
  /\ field' = [s \in Slots |-> 0]
  /\ UNCHANGED <<program, running, gameRun, listening, handle, port, inflight,
                 valid, free, pending, threads, toClose, bindFailed, queued>>

Owner ==
  \/ StartSucceeds \/ StartFails \/ StartGameThread \/ Await \/ Disconnect
  \/ CloseOne \/ RefillIndices \/ CloseListen \/ WakeWorkers \/ CloseHandle \/ Destroy

-----------------------------------------------------------------------------
(* DisconnectSessionInternal, on any thread.                                *)

\* Only the server of CCentralizedServer pushes network events.
Pushed == IF program = "centralized" THEN queued + 1 ELSE queued

\* Where a thread goes on: the game thread with the next event.
Resume(t) == IF t = "game" THEN "dispatch" ELSE "loop"

Drop(t) ==
  LET s == at[t].slot
  IN /\ Step(t, "drop", IF valid[s] THEN "close" ELSE Resume(t))
     /\ valid' = [valid EXCEPT ![s] = FALSE]
     /\ UNCHANGED <<flags, sockets, field, free, pending, accSock, at, owner, toClose>>

CloseSocket(t) ==
  LET s == at[t].slot
  IN /\ Step(t, "close", IF field[s] = 0 THEN "push" ELSE "clear")
     /\ open' = open \ {field[s]}
     /\ UNCHANGED <<flags, listening, handle, port, inflight, sessions, accSock, at,
                    owner, toClose>>

\* A socket that was closed is forgotten; the id goes to _pendingDisconStack
\* and a DISCONNECTED event to the queue.
ClearSocket(t) ==
  LET s == at[t].slot
  IN /\ \/ Step(t, "clear", Resume(t)) /\ field' = [field EXCEPT ![s] = 0]
        \/ Step(t, "push", Resume(t))  /\ field' = field
     /\ pending' = pending \cup {s} /\ queued' = Pushed
     /\ UNCHANGED <<switches, sockets, valid, free, accSock, at, owner, toClose>>

\* PostRecv: WSARecv on whatever _socket holds.
PostRecv(t) ==
  /\ pc[t] = "recv"
  /\ LET s == at[t].slot
     IN IF ~valid[s] THEN Step(t, "recv", "loop") /\ UNCHANGED inflight
        ELSE IF field[s] \notin open THEN Step(t, "recv", "drop") /\ UNCHANGED inflight
        ELSE /\ Step(t, "recv", "loop")
             /\ inflight' = inflight \cup {[sock |-> field[s], slot |-> s]}
  /\ UNCHANGED <<flags, listening, handle, port, open, sessions, accSock, at,
                 owner, toClose>>

Session(t) == Drop(t) \/ CloseSocket(t) \/ ClearSocket(t) \/ PostRecv(t)

-----------------------------------------------------------------------------
(* AcceptThread, ReleaseSession and ProcessAccept.                          *)

AcceptLoop ==
  /\ Step("accept", "loop", IF running THEN "accepting" ELSE "ended")
  /\ at' = [at EXCEPT !["accept"] = Null]
  /\ UNCHANGED <<flags, sockets, sessions, accSock, owner, toClose>>

AcceptReturns ==
  /\ listening /\ accSock < MaxSockets
  /\ Step("accept", "accepting", "release")
  /\ accSock' = accSock + 1 /\ open' = open \cup {accSock + 1}
  /\ UNCHANGED <<flags, listening, handle, port, inflight, sessions, at, owner, toClose>>

\* accept fails once the listen socket is closed; ReleaseSession runs here too.
AcceptFails ==
  /\ ~listening
  /\ Step("accept", "accepting", "loop")
  /\ open' = open \ {field[s] : s \in pending}
  /\ field' = [s \in Slots |-> IF s \in pending THEN 0 ELSE field[s]]
  /\ free' = free \cup pending /\ pending' = {}
  /\ UNCHANGED <<flags, listening, handle, port, inflight, valid, accSock, at,
                 owner, toClose>>

ReleaseSession ==
  /\ Step("accept", "release", "take")
  /\ open' = open \ {field[s] : s \in pending}
  /\ field' = [s \in Slots |-> IF s \in pending THEN 0 ELSE field[s]]
  /\ free' = free \cup pending /\ pending' = {}
  /\ UNCHANGED <<flags, listening, handle, port, inflight, valid, accSock, at,
                 owner, toClose>>

TakeIndex ==
  /\ IF free = {}
     THEN /\ Step("accept", "take", "loop")
          /\ open' = open \ {accSock} /\ UNCHANGED <<free, at>>
     ELSE /\ Step("accept", "take", "initialize")
          /\ \E s \in free : free' = free \ {s} /\ at' = [at EXCEPT !["accept"].slot = s]
          /\ UNCHANGED open
  /\ UNCHANGED <<flags, listening, handle, port, inflight, field, valid, pending,
                 accSock, owner, toClose>>

Initialize ==
  LET s == at["accept"].slot
  IN /\ Step("accept", "initialize", "bind")
     /\ field' = [field EXCEPT ![s] = accSock] /\ valid' = [valid EXCEPT ![s] = TRUE]
     /\ UNCHANGED <<flags, sockets, free, pending, accSock, at, owner, toClose>>

\* The CONNECTED event is pushed before the first PostRecv.
BindIOCP ==
  /\ Step("accept", "bind", "recv")
  /\ queued' = Pushed
  /\ UNCHANGED <<switches, sockets, sessions, accSock, at, owner, toClose>>

BindFails ==
  LET s == at["accept"].slot
  IN /\ Step("accept", "bind", "loop")
     /\ open' = open \ {field[s], accSock} /\ field' = [field EXCEPT ![s] = 0]
     /\ free' = free \cup {s} /\ bindFailed' = TRUE
     /\ UNCHANGED <<program, running, gameRun, procRun, listening, handle, port, inflight,
                    valid, pending, accSock, at, owner, toClose, queued>>

AcceptThread == AcceptLoop \/ AcceptFails \/ ReleaseSession \/ TakeIndex
                  \/ Initialize \/ BindIOCP \/ BindFails

-----------------------------------------------------------------------------
(* WorkerThread: _running is read before and after the wait.                *)

WorkerLoop(w) ==
  /\ Step(w, "loop", IF running THEN "waiting" ELSE "ended")
  /\ at' = [at EXCEPT ![w] = Null]
  /\ UNCHANGED <<flags, sockets, sessions, accSock, owner, toClose>>

TakeCompletion(w) ==
  /\ port # <<>>
  /\ Step(w, "waiting", "check")
  /\ at' = [at EXCEPT ![w] = Head(port)] /\ port' = Tail(port)
  /\ UNCHANGED <<flags, listening, handle, open, inflight, sessions, accSock, owner, toClose>>

\* A receive that went well may complete any number of packets, each of which
\* becomes a RECEIVED event, or none.
ParsePackets(w) ==
  queued' \in {queued} \cup (IF pc'[w] = "recv" /\ program = "centralized"
                            THEN queued..MaxQueued ELSE {})

CheckCompletion_TrustsAll(w) ==
  /\ Step(w, "check", IF ~at[w].ok THEN "drop"
                      ELSE IF valid[at[w].slot] THEN "recv" ELSE "loop")
  /\ ParsePackets(w)
  /\ UNCHANGED <<switches, sockets, sessions, accSock, at, owner, toClose>>

CheckCompletion(w) ==
  /\ Step(w, "check", IF ~running THEN "ended"
                      ELSE IF at[w] = Null THEN "loop"
                      ELSE IF ~at[w].ok THEN "drop"
                      ELSE IF valid[at[w].slot] THEN "recv" ELSE "loop")
  /\ ParsePackets(w)
  /\ UNCHANGED <<switches, sockets, sessions, accSock, at, owner, toClose>>

WorkerThread(w) == WorkerLoop(w) \/ TakeCompletion(w) \/ CheckCompletion(w)

-----------------------------------------------------------------------------
(* GameLogicThread: it looks at its _running only when it has found the     *)
(* queue of events empty.  The dispatch of one event may overflow the send  *)
(* buffer of a session of which the CONNECTED event was heard, and tear it  *)
(* down.                                                                    *)

Announced ==
  {s \in Slots : field[s] # 0 /\ ~(pc["accept"] = "bind" /\ at["accept"].slot = s)}

DispatchEvent ==
  /\ queued > 0 /\ queued' = queued - 1
  /\ \/ Step("game", "dispatch", "dispatch") /\ at' = [at EXCEPT !["game"] = Null]
     \/ /\ Step("game", "dispatch", "drop")
        /\ \E s \in Announced : at' = [at EXCEPT !["game"].slot = s]
  /\ UNCHANGED <<switches, sockets, sessions, accSock, owner, toClose>>

GameLoop ==
  /\ \/ Step("game", "loop", IF gameRun THEN "dispatch" ELSE "ended")
     \/ queued = 0 /\ Step("game", "dispatch", "loop")
  /\ at' = [at EXCEPT !["game"] = Null]
  /\ UNCHANGED <<flags, sockets, sessions, accSock, owner, toClose>>

GameLogicThread == DispatchEvent \/ GameLoop

-----------------------------------------------------------------------------
(* The kernel finishes a receive, and must fail it once its socket closes.  *)

Completed(r, ok) ==
  /\ inflight' = inflight \ {r}
  /\ port' = Append(port, [slot |-> r.slot, ok |-> ok])
  /\ UNCHANGED <<flags, listening, handle, open, sessions, threads, owner, toClose>>

Kernel ==
  /\ handle = "open"
  /\ \E r \in inflight : Completed(r, FALSE) \/ (r.sock \in open /\ Completed(r, TRUE))

Next ==
  \/ Owner \/ Stop \/ AcceptReturns \/ AcceptThread \/ GameLogicThread \/ Kernel
  \/ \E w \in Workers : WorkerThread(w)
  \/ \E t \in Threads : Session(t)

Spec == Init /\ [][Next]_vars

\* Every thread is scheduled.  Clients need not come, completions need not
\* arrive, and an owner of CCentralizedServer need not destroy it.
Fairness ==
  /\ WF_vars(Owner) /\ WF_vars(AcceptThread \/ Session("accept"))
  /\ WF_vars(GameLogicThread \/ Session("game"))
  /\ \A w \in Workers : WF_vars(WorkerThread(w) \/ Session(w))

FairSpec == Spec /\ Fairness
-----------------------------------------------------------------------------
(* Properties.                                                              *)

PCs == {"none", "loop", "accepting", "release", "take", "initialize", "bind",
        "recv", "drop", "close", "clear", "push", "waiting", "check", "dispatch",
        "ended"}

\* Types; a completion without a session is never taken for one with.
TypeOK ==
  /\ running \in BOOLEAN /\ gameRun \in BOOLEAN /\ procRun \in BOOLEAN /\ bindFailed \in BOOLEAN
  /\ queued \in Nat
  /\ listening \in BOOLEAN /\ handle \in {"none", "open", "closed"}
  /\ port \in Seq([slot : Slots \cup {"none"}, ok : BOOLEAN])
  /\ open \subseteq 1..MaxSockets
  /\ inflight \subseteq [sock : 1..MaxSockets, slot : Slots]
  /\ field \in [Slots -> 0..MaxSockets] /\ valid \in [Slots -> BOOLEAN]
  /\ free \subseteq Slots /\ pending \subseteq Slots /\ toClose \subseteq Slots
  /\ accSock \in 0..MaxSockets
  /\ owner \in {"start", "startgame", "waiting", "up", "joingame", "disconnect",
                "closing", "closelisten", "wake", "joinworkers", "joinaccept",
                "closeport", "destroy", "done"}
  /\ pc \in [Threads -> PCs]
  /\ at \in [Threads -> [slot : Slots \cup {"none"}, ok : BOOLEAN]]
  /\ \A t \in Threads : pc[t] \in {"drop", "close", "clear", "push", "recv"} => at[t].slot \in Slots

\* The completion port is closed, and the sessions destroyed, only after every
\* thread that uses them has ended.
PortOutlivesThreads ==
  handle = "closed" \/ owner = "done" => \A t \in Threads : Over(t)

\* "All sessions are ended by force": when Disconnect comes to WSACleanup, no
\* socket is left to reset but that of the connection the accept thread was just
\* taking in, though every other thread may be tearing sessions down and slots
\* are reused.  A failed BindIOCP takes this away: it frees the index of a session
\* that stays valid, so a teardown of it may clear _socket of the next connection.
ClosesAllButTheNewest ==
  owner = "closeport" /\ ~bindFailed => open \subseteq {accSock}

\* Destroying the server ends all of its threads, each woken from what it waits
\* for, and returns, once no more network events arrive: the game thread is joined
\* before the network is stopped, and it ends only when it finds no event waiting.
EndsWhenDestroyed ==
  (<>[][queued' <= queued]_vars) => (owner = "joingame" ~> owner = "done")

\* "SignalProcessShutdown(): the main thread ends".
MainEnds == owner = "waiting" ~> owner = "done"
=============================================================================

# A TLA+ verification of MO_MiniGames

MO_MiniGames is a small multiplayer game in C++ for Windows: a server built on
I/O completion ports (`src/MO_MiniGames_Server`) and a console client
(`src/MO_MiniGames_Client`). The server's network layer, `CIOCPServer`, runs
lock-free protocols over reused session objects; its game layer,
`CCentralizedServer`, keeps players and rooms on one thread. This directory
models server and client, checks the models with TLC, and proves with TLAPS every
invariant of them for instances of every size: of the send protocol, the ring
buffer, the parser, the session pool, the shutdown, the rooms and the client.

## 1. Inventory

| Component | State it keeps | Operations | What makes it correct |
|---|---|---|---|
| Send pipeline of a session (`IOCPServer.cpp` 601-769, 796-835) | `_valid`, `_sending`, `_socket`, `_sendQ`, the WSASend in the kernel | `RequestSendMsg`, `PostSend`, `ProcessSend`, `DisconnectSessionInternal`, send completions | one WSASend at a time; the peer sees the bytes in order, once each; accepted bytes get sent; one teardown |
| Ring buffer (`RingBuffer.h`) | `_buffer`, `_readPos`, `_writePos` | `Enqueue`, `Dequeue`, `Peek`, `Consume`, `MoveWritePtr`, `Clear`, the size functions, `GetSendInfo` | a FIFO of `_capacity - 1` bytes; cells lent to the kernel are not touched by others |
| Session pool (`IOCPServer.cpp` 192-206, 286-434, 466-523, 796-887) | `_sessions`, `_availableIndices`, `_pendingDisconStack`, `_sessionIdCounter` | `AcceptThread`, `ReleaseSession`, `ProcessAccept`, `PostRecv`, `WorkerThread`, `FindSession` | no index in two hands or in none; nothing done for one connection reaches another |
| Packet parser (`IOCPServer.cpp` 437-463, 526-598, 772-776) | `_recvQ` | `ProcessRecv`, `ParsePackets`, `EchoTestSend` | packets are cut from the stream where their headers say |
| Event queue (`IOCPServer.h` 149-180) | `_eventQueue` | `Push`, `TryPop` | CONNECTED of a session comes first, DISCONNECTED once and later; a RECEIVED may still follow it and is dropped |
| Game server (`CentralizedServer.cpp`) | `_players`, `_roomManager` | `Dispatch...`, `Handle...`, `Send...`, `Start`, `Stop` | a gone session leaves nothing behind; replies tell the truth |
| Rooms (`Room.cpp`, `RoomManager.cpp`) | members, cached count, owner; `_roomList`, `_roomMap`, `_playerToRoomMap` | `CreateRoom`, `DeleteRoom`, `JoinRoom`, `LeaveRoom`, ... | the three structures agree; nobody is in two rooms; no overfull or forgotten room |
| Start and shutdown (`IOCPServer.cpp` 44-162, 209-282, `main.cpp`) | `_running`, threads, `running`, `cv` | `Start`, `Disconnect`, `Stop`, `SignalProcessShutdown` | every thread ends before what it uses; `Disconnect` closes what it finds; the process can end |
| Wire protocol (`Protocol.h` of both sides) | none | message layouts | sizes fit the header's 16 bits; both sides agree |
| Client (`ClientNetwork.cpp`, `GameInstance.cpp`, client `Room.cpp`) | `_connected`, `_running`, `_recvThread`, the room it believes to be in | `Connect`, `RecvThread`, `HandleServerMessage`, `Disconnect`, lobby | it believes what the server does; it ends cleanly |
| Player, Tetris | ids; nothing | getters | - |

How they interact. The accept thread takes an index, initialises the session in
that slot, binds its socket to the completion port with the address of the
session as key, pushes CONNECTED and posts the first receive. Workers take
completions; a receive becomes packets, which are pushed as RECEIVED events (or
echoed, in `EchoTest` mode, which `main.cpp` uses); a send completion consumes
the send queue and sends on. Anybody may tear a session down: `_valid` is
exchanged, the socket closed, the id pushed to the stack, DISCONNECTED pushed.
The accept thread empties the stack each time `accept` returns and puts the
indices back. The game thread pops events, changes the rooms and calls
`RequestSendMsg` directly. Nothing is persisted, so there is no recovery.

What is hard: `_sending` replaces a lock between any number of threads; the
kernel reads and writes ring cells long after a lock was released; session
objects are reused while completions, pointers and ids of their last connection
are still around; the stack of torn down sessions is not synchronised; requests
are executed for sessions that are already gone. Every such place is a row of
`hazards` in `PROJECT.json`, with the properties that watch it.

## 2. Modules

| Module | What it is |
|---|---|
| `SendPipeline` | the send side of one session; every access to an atomic, to the socket or to the queue is a step |
| `ByteStream` | what that promises: Accept, Deliver, Free, Cut |
| `SendPipeline_proofs` | its inductive invariant, theorems and refinement |
| `RecvPipeline` | the receive side of one session: receives, the parser in both modes, the echo |
| `RecvPipeline_proofs` | the pieces of the client's stream: lemmas, invariant and theorems |
| `RingBuffer` | the ring, as `_sendQ` and as `_recvQ`, with the cells lent to the kernel |
| `BoundedFifo` | what it promises |
| `RingBuffer_proofs` | the ring for every capacity: lemmas on the positions, invariant, theorems |
| `SessionPool` | slots, ids, the stack, receives, teardown; any number of connections through the same slots |
| `SessionPool_proofs` | whose each thing in flight is, and where each index is: invariant and theorems |
| `ServerLifecycle` | `Start`, `Stop`, `Disconnect`, the destructors and `main` against the threads they end |
| `ServerLifecycle_proofs` | what has been joined at each step of the end, and where an open socket is |
| `RoomManager` | `CRoom` and `CRoomManager` as operators on a record of their members |
| `GameServer` | `CCentralizedServer`, one step per event; extends `RoomManager` |
| `GameServer_proofs` | one lemma per operator of `RoomManager`, one per handler, theorems |
| `Client` | the client's two threads, what it believes, and the server as it sees it |
| `Client_proofs` | the threads, the wire and the last word on the room: invariant and theorems |
| `MCSessionPool`, `MCGameServer` | symmetry sets for TLC |

How the modules join up. `SendPipeline` and `RecvPipeline` use a queue that is a
FIFO, which `RingBuffer` shows the ring to be. `RecvPipeline` has one worker,
which is what `RecvQueueHasOneThread` of `SessionPool` says of the threads that
run the parser. `GameServer` receives events in the order `EventsMatchSessions`
of `SessionPool` states: CONNECTED first, at most one DISCONNECTED, and packets at
any time after CONNECTED, those behind DISCONNECTED included, which find no player
and are dropped. `Client` sees the replies that `GameServer` sends.

State and actions against the code (`map` in `PROJECT.json` gives the lines):

* **SendPipeline.** `valid`, `sending`, `closed` are `_valid`, `_sending` and
  the closed socket. `_sendQ` is `head..tail`, positions in the stream of all
  bytes `Enqueue` accepted. `kernel` and `port` are the accepted WSASends and the
  completions nobody has taken. `pc[t]` is where a thread stands between two
  shared accesses, `xfer[t]` its local copy of sizes. `Claim` is the `exchange`
  of `PostSend`, `Snapshot` is `GetSendInfo`, `GiveUp` its empty exit, `Submit`
  the WSASend of `PostSend` and of `ProcessSend` (they are the same code but for
  the label), `Consume`, `SendRest`, `Release`, `Recheck` are `ProcessSend` in
  order, `Drop`, `CloseSocket`, `ClearSending`, `Notify` are
  `DisconnectSessionInternal`. The two tests of `_valid` before `Consume` are
  one step: a thread that passes the first and fails the second returns as one
  that fails the first. The id test and the reuse of the slot are in
  `SessionPool`. `missed` is a history variable.
* **RecvPipeline.** `stream` is what the client has sent and `starts` where its
  packets begin. `SendPacket` is the client's: it sends a packet with a size field
  of any value, good or bad, and after it the body the field announces, of bytes from
  `Filler`; after a field that announces none (`WellFormed`) it sends nothing. The
  first byte of a header stands for its 16-bit size. `Receive`
  hands over any number of bytes that fits what `PostRecv` lent, so a packet and
  its header arrive in every possible cut. `ParsePackets` is one round of the
  loop; `PacketSize` has the 16-bit addition of echo mode. `EchoTestSend` and
  `EnqueueEcho` are `RequestSendMsg` on this session. `handed` is what the server
  has handed on: the echoes `_sendQ` accepted, or the RECEIVED events.
  `TornDown` is a teardown by another
  thread at any moment. Of `DisconnectSessionInternal` only `_valid` matters here;
  the rest of it is in `SendPipeline` and `SessionPool`.
* **RingBuffer.** One step per locked operation. `lent` is the memory WSASend or
  WSARecv was given, `promised` the bytes it stands for. The buffer of `_recvQ`
  is the single-thread version of the class, whose code is the same without the
  lock. `PostRecv` there is disabled when the code would end the session instead.
* **SessionPool.** Connections are numbered; the number is the socket and the
  unique part of the id. `ioId` is the id in `_recvOverlapped`, of which a
  session has one, so a new request overwrites the old one's. `slotOf` is the
  completion key. The operations of `std::stack` are a read and a write (`ReadTop` and
  `Pop`, `ReadStack` and `WriteStack`): the data race is modelled by its plainest
  outcomes, the lost update and, for `Pop`, the push of another thread taken off in
  place of the id that was read. `events` has CONNECTED and DISCONNECTED;
  `premature` records each session of which a RECEIVED was pushed before them.
  A socket number never comes back, although Windows may give a closed SOCKET's value
  to another connection: a WSARecv or WSASend that read `_socket` before the close
  could then reach that one without any reuse of the slot, and no property covers it.
  `Initialize` is one step, a simplification: its stores are not ordered for
  other threads either, and every violation reported needs no torn
  initialisation. Data, send queues and the limit of 48 bits on ids are left
  out. The parser is "these bytes are taken for packets of the session in this
  slot, or refused"; `PostRecv` follows in both cases, as in the code.
* **ServerLifecycle.** `owner` is the program counter of the thread that owns the
  server: `main`, which waits for `running` to be cleared, or the owner of a
  `CCentralizedServer`, whose destructor may run at any time (`Stop`). `Await` is the
  wait of `main` and each `join`; `CloseOne` one round of the loop over
  `_sessions`, which does not change `_socket`; `CloseHandle` is that and the
  `WSACleanup` behind it, which resets every socket still open. `queued` is the number
  of events in `_eventQueue`: the game thread takes them one by one (`DispatchEvent`)
  and looks at `_running` only when none is left (`GameLoop`); a receive may add any
  number up to `MaxQueued`. `bindFailed` is a history variable.
  `pc` and `at` are the other
  threads and the session each works on: the accept thread from `accept` to the
  first receive, the workers with both tests of `_running`, the game thread,
  which can tear a session down. `_availableIndices` and the stack are sets here:
  no property depends on their order, and their races are in `SessionPool`.
* **RoomManager, GameServer.** A handler runs alone on the game thread and is a
  step; the reads and calls of a handler are in its operators in the order of
  the code. `told` is what a client can know from the success replies that were
  accepted for sending; `listed` the last room list; `online` the sessions
  `RequestSendMsg` still finds. Failure replies change nothing that is modelled.
  Malformed and unknown messages change nothing and are stuttering steps.
* **Client.** `main` and `thread` are the two threads. `EnterPort` is the prompt for
  address and port, whose `std::stoi` throws on a port that is no number, uncaught:
  the process is `aborted` before it connects. A request is one choice of
  the user in the menu that was on the screen, which may be older than the last
  reply. Replies travel as two parts each, so that one `recv` may return half a
  message, one, or several. `HandleServerMessage` handles the first if it is there in
  full (`Whole`) and drops the rest (`Unseen`). Of a buffer that begins inside a
  message it may take the first bytes for any header: such a reading is an arbitrary
  reply, or `ReadPastBuffer`, a room list whose count leads outside the buffer.
  `BeginCreate` and `RequestCreateRoom` are the assignment of `_pendingTitle`,
  which another thread may read, and what follows it. `JoinThread`, `Destroy` and
  `joinable` are `_recvThread`. `Serve` is the server's answer, from what
  `GameServer` does with this player, except that any create or join may also be
  refused. `lost`, `missed`, `misread` and `overlapped` are history variables.

## 3. What is checked

| Run | Bounds | Shows |
|---|---|---|
| `send` | 2 senders, 1 worker, capacity 2, 3 bytes in messages of 1 or 2; 307,863 states | one send at a time, in order; one handover; the refinement of `ByteStream`; accepted bytes arrive and torn down sessions are handed over |
| `send_stranded` | 1 sender, 2 workers, 3 bytes | *violation*: bytes stay behind after `PostSend`'s empty exit |
| `ring` | 4 cells, 2 byte values | both uses of the ring, every fill level, position and wrap; refines `BoundedFifo` |
| `recv` | 16-bit numbers are 0..4, headers of 2 bytes, bodies of zeros, 3 packets; 123,083 states | the parser cuts where the client did, in both modes, and hands every packet on, as it was sent |
| `pool` | 1 slot, 2 connections, 2 workers, game and accept thread; 957,421 states up to symmetry | what holds of reuse, events and the receive queue |
| `pool_stale_data` | the same | *violation*: the ABA test passes for an old completion |
| `pool_goodbye` | the same | *violation*: DISCONNECTED names the next session |
| `pool_lost_index` | 2 slots, 2 connections, 1 worker, game and accept thread | *violation*: two overlapping pushes to the stack lose an index |
| `lifecycle` | 2 workers, 1 slot, 2 connections, 2 events from receives; 314,410 states | the port outlives the threads; what `Disconnect` closes; the destructor returns once the traffic has stopped |
| `lifecycle_main` | 1 worker, 1 slot, 1 connection | *violation*: `main` never ends |
| `game` | 3 players, 2 titles, 3 rooms ever, limits 1 to 3 | six properties of rooms, replies and room lists |
| `client` | 2 requests; 266,414 states | belief and server agree; the right title; how the process can end |

Why the bounds are enough. In `send`, two senders and a worker are three threads
that compete for `_sending` while any of them may tear the session down; capacity
2 with messages of 2 bytes makes the queue overflow, makes transfers partial and
lets bytes be enqueued behind a transfer. That two workers could handle two
completions at once is excluded by the invariant, which is proved for any number
of threads. Four cells give wrapped and unwrapped regions of every size, the
special case `_readPos == 0`, full and empty; five cells were tried too. In
`recv` five values for a size give, beside a header of 2, a size below it, one
that fills the buffer exactly, one in between and, in echo mode, the sums that
wrap; three packets put a bad one first, last or between, and their bytes exceed
the buffer, so that it fills and empties again. Where packets begin is part of the
state, so a wrong cut shows although all bodies are zeros; with `Filler = {0, 3}`
the safety properties held in 8.3 million states. One slot with two connections
is the smallest instance with reuse, and two workers can hold both its
connections. In `lifecycle` the same slot is reused while the server ends, and two
workers compete for the completions that wake them; three and four connections were tried
too. Three players make a room whose owner leaves
first, in the middle or last; a limit of 1 is below what `HandleCreateRoom`
accepts, 2 fills, 3 does not. `SizeMod` is 8 with lists of 2 + 3 bytes a room,
so that the third room is the one that no longer fits; in the code it is 65536
with 6 + 77 bytes. In `client` two requests overlap, or the second comes from a menu
that is no longer true; room lists and leaves are not counted, so that any number of
them can come in between. `MaxQueued = 2` lets the game thread find its queue filled
again by a receive while it dispatches, and filled without end.

Fairness. `send`: each thread that is inside the code takes its next step (`WF`
per thread; the operating system schedules preemptively and nothing blocks),
workers take completions (they block on the port in a loop), and the kernel
completes each transfer it accepted, with success or failure. `recv`: the worker
is scheduled, the kernel delivers what the client sent, and a receive on a closed
socket is aborted. `lifecycle`: the owner and every thread are scheduled; clients
and the kernel need do nothing, and nobody has to destroy the server. That the
destructor returns (`EndsWhenDestroyed`) is stated for the behaviours in which the
queue of events grows only finitely often. Without this it is false of the code:
`Stop` joins the game thread before it stops the network, and that thread looks at
`_running` only when it finds the queue empty, so steady traffic from clients can
keep `Stop` waiting for ever. `client`:
both threads are scheduled; user, server and network need do nothing. In none of
the runs must a caller act. `pool` and `game` state safety only.

`lifecycle` and `lifecycle_main` do not check deadlock: the model stops
where the threads of the program wait for good, as `main` does.

Several invariants hold on a condition, and the condition says what the code does not
ensure. `NothingCrosses`, `EventsMatchSessions` and `RecvQueueHasOneThread` hold
unless a slot was reused with something of its last connection in flight (`reused`);
`OneHolderPerIndex` also needs that no two accesses to the unlocked stack overlapped
(`raced`); `ClosesAllButTheNewest` that no `BindIOCP` failed (`bindFailed`);
`BelievesTheTruth` that no reply which matters was split or came together with another
(`missed`) and that no inside of a message was taken for one (`misread`);
`TitleOfItsOwnRoom` that no second room was asked for before the first answer
(`overlapped`), nor one misread; `StrandedOnlyByEmptyExit` that no claim failed inside
the empty exit of `PostSend` (`missed`). Each names the change after which the
property would hold of the code as it is. A condition also leaves out what it names:
the reuse of a slot (`IOCPServer.cpp` 392, 753), the race on the stack (815) and the
failed bind (337) are not caught by the properties that exclude them, and are shown,
the first three, by the violation runs below; the last is described at the end of section 4.

Every property of a passing run has a mutant of the code in `PROJECT.json` that
breaks it.

## 4. What the violations say

1. `PostSend` (line 692) clears `_sending` after an empty look at the queue and
   does not look again, as `ProcessSend` does. A message enqueued in between by
   a thread whose own `exchange` failed stays until the next one is sent.
   `StrandedOnlyByEmptyExit`, proved, says that this is the only way.
2. The session id kept for ABA prevention is in an `OVERLAPPED` that the slot's
   next connection overwrites, so it equals the current id whenever it is
   compared. Failed completions (line 385) are not compared at all.
3. `DisconnectSessionInternal` offers the slot for reuse and then reads
   `_sessionId` for the event.
4. `DisconnectSessionInternal` (line 815) pushes to `_pendingDisconStack` on any
   thread, without a lock. Of two pushes that overlap one is lost, and its index with
   it: the slot is never used again. `OneHolderPerIndex`, proved, says that without
   such an overlap and without a harmful reuse no index is lost.
5. `main` waits until `running` is cleared, which only `SignalProcessShutdown`
   does, which only the destructor of the server calls, after that wait.

More is visible in the conditions and statements of passing runs.

* `HandleCreateRoom` creates a room before it knows that the player can enter, so
  that a room can be born empty and stay (`EmptyOnlyFromBirth` says that there is no
  other way to an empty room).
* `Disconnect` closes the sockets of all sessions and puts every index back while the
  accept thread and the workers still run. A connection taken in then can be
  initialised in a slot whose last session a worker is still tearing down, between its
  `closesocket` and the store of `INVALID_SOCKET`, which then forgets the new socket,
  until `WSACleanup` closes it. `ClosesAllButTheNewest`, proved, says that when
  `Disconnect` comes to `WSACleanup`, no socket is open but perhaps the newest
  connection's, however many arrive and end meanwhile, unless a `BindIOCP` failed.
  `ProcessAccept` (line 337) then puts the index back but leaves the session valid, so
  that a thread which found an earlier session in the slot (the game thread between
  its look-up and its teardown) ends it: the index goes back a second time, while
  another connection may be in the slot, and the store of `INVALID_SOCKET` may hit
  that one's `_socket`. TLC finds it with four connections.
* The client's `Run` ends by `std::terminate` when the connection is lost, and before
  it connects when the port is no number (`ConnectedAbortsOnlyWhenLost`).

## 5. What is proved

The theorems are for any sets of threads, players, slots and titles and all
values of the bounds, from the named `ASSUME` of the module and nothing else.

**`SendPipeline_proofs`**: `TypeCorrect`, `OneSend`, `FrontTransfers`,
`HandedOverOnce`, `OnlyEmptyExitStrands`, the five invariants of run `send`, and
`Refinement`: every behaviour of `SendPipeline` is one of `ByteStream`. None of
the invariants is inductive: that two sends are never outstanding depends on who
holds the flag, on what was consumed, and on who has begun to tear the session
down. `IInv` adds what they leave open, in four parts.

* `TeardownInv` follows the one thread that won the exchange of `_valid`: the
  order of its steps, and that a closed socket has nothing in the kernel.
* `TransferInv`: a transfer is in one place at a time, in the kernel, in the
  port, or with the one worker that is about to consume it, and in each place
  its byte range fits `head`, `tail` and `delivered`.
* `OwnerInv`: until the socket is closed `_sending` is a lock. A thread between
  its claim and its submit, a transfer, its completion and the worker that
  handles it exclude one another and imply the flag. A teardown clears the flag
  while others still hold it, but only after the socket is closed, when every
  submit fails; that is why the condition is `~closed` and not `valid`.
* `CarrierInv`: while the session is valid, a set flag has a holder, and queued
  bytes have somebody who will look at them again unless `missed`.

`IInvInit` and `IInvStep` are one lemma per part, one step per action.
`Refinement` then maps each action: `Enqueue` to Accept, `Complete` to Deliver,
`Consume` to Free, `CloseSocket` to Cut, the others to stuttering.

**`RingBuffer_proofs`**: `LentStays`, `SegmentsCorrect`, `AddsCorrect` and
`Refinement`, all that run `ring` checks, and `PeekCorrect`, that the two-part
copy returns the front.

* `Modulo`, `AdvanceType` and `Sizes` turn `%` into one subtraction and relate
  the six sizes the code computes to each other.
* `Appended`, `Taken` and `FilledBehind` say what moving a position and writing
  in two parts do to the bytes of the queue; `GatheredFront` says that reading in
  two parts gives its front. Each action then follows from one of them
  (`EnqueueStep`, `TakeStep`, `KernelStep`, `MoveStep`).
* `IInv` adds to the types what the code never writes down: the region lent to
  WSASend starts at `_readPos` and is split only at the buffer's end (`LentInv`),
  its bytes are a front of the queue (`PromiseInv`), which appending does not
  change, and the bytes received so far lie behind the queue in order
  (`ReceivedInv`), which is why `MoveWritePtr` may simply move over them.

**`RecvPipeline_proofs`**: `TypeCorrect`, `SamePackets`, `SameCuts`, `StreamKept`,
`RefusesOnlyBadSizes` and `NeverFull`, the six invariants of run `recv`, for every
width of the size field, header size, packet bodies and number of packets.

* The stream is never taken apart as a list of packets: `starts` says where each
  begins, so that what would need an induction over the packets is arithmetic on
  positions. `Piece`, `Join`, `Split` and `Grown` say what appending to the stream,
  cutting `_recvQ` and joining what was received do to pieces of the stream.
* `StreamInv`: each packet begins where the one before it ended, and is as long as
  its own size field says. `QueueInv`: `_recvQ` is the piece of the stream that
  arrived and was not taken. From these, `NextPacket`: when the parser stands at a
  packet's beginning, the size it computes is that packet's, or it refuses
  (`SizeCheck`: the 16-bit addition of echo mode can only wrap to less than a header,
  which the lower bound refuses).
* `PacketsAsSent` is not inductive. `HandInv` adds that as long as the session can
  still accept an echo, the number of packets handed on says where the parser
  stands; an echo that overflows, or follows the teardown, ends that for good, and
  `handed` no longer grows. `WorkerInv` keeps what the worker found out and
  has not used: that what is left in `_recvQ` is no whole packet (hence `NeverFull`),
  or that the size was bad.

**`SessionPool_proofs`**: `TypeCorrect`, `OneHolder`, `NoCrossing`, `EventsMatch` and
`OneReceiver`, the five invariants of run `pool`, for any number of slots,
connections and workers. The argument is one of attachment: while no slot was
reused with something of its last connection in flight, everything in flight is of
the connection its slot holds now.

* `OwnInv`, `WireInv`, `ServeInv`, `FreshInv` (together `AttachInv`) say that of
  sockets and ids, of receives and completions, of threads, and of events. The code
  means to ensure this by comparing ids, which it cannot (violation 2); here it follows
  from the condition.
* `ReceiveInv`: a session has one receive, with the kernel, at the port, or with the
  one thread that is to post the next, the thread that tears it down among them. So
  the receive queue needs no lock, and a session in use always has somebody who will
  notice its end.
* `LifeInv`, `QuietInv`, `PastInv`: one thread ends a session, after it was announced;
  what was announced of a session is given by where it is in its life. `NewsInv`: no
  packet is pushed before CONNECTED, because the first receive is posted after it.
* `StackInv` and `PlaceInv`: an id on the stack is of a session that has ended, and an
  index is in exactly one of six places. `PlaceInv` alone needs `~raced`; the
  other parts hold whatever the races do to the stack.
* None of these is inductive by itself: that a slot is free of things in flight when it
  is initialised is the condition, but that later steps keep them attached takes the
  one receive and the one thread that tears down.
* The assumption `0 \notin Slots` is the model's convention that 0 means "no slot".

**`ServerLifecycle_proofs`**: `TypeCorrect`, `PortOutlives` and `ClosesAll`, the three
invariants of run `lifecycle`.

* `JoinInv` says which threads are over at each step of the owner, including the
  server whose `Start` failed and which therefore has none; `SlotInv` that every
  completion but the one `Disconnect` posts names a session, so that a worker which
  is woken by it touches none.
* `OpenInv` says where an open socket is: in a session the owner has yet to visit, or
  with the accept thread. To keep that, a store of `INVALID_SOCKET` must never hit an
  open socket before the owner refills the indices, which is `PlaceInv`: until then an
  index is in one place, and a session not in use holds no open socket. `Untouched`
  covers the sessions that were never used. After the refill, a socket can be
  forgotten, but only the newest.

**`GameServer_proofs`**: all six properties of run `game` (`TypeCorrect`,
`Agreement`, `OwnerFirst`, `Truth`, `SizeExact`, `EmptyRooms`).

* `Erased`, `ErasedSet` and `Prepended` say what `vector::erase` and `list`
  operations do to a list without duplicates; `SecondIsNext`, that the owner is
  handed to the member behind.
* `GoodRoom` and `GoodManager` are what every operator keeps: the count is the length
  and at most the limit, the owner is the first, the list names each room once, and
  the player map is the inverse of the member lists. `CreateGood`, `JoinGood`,
  `DropGood`, `DeleteGood`, `LeaveGood` are one lemma per operator, which also state
  what the operator leaves alone.
* `IInv` joins that with the sessions (`PeopleInv`), with `_players` (`RoomsInv`)
  and with what clients were told (`ToldInv`). `ToldTheTruth` alone is not
  inductive: a session whose CONNECTED is still queued must know of no room.

**`Client_proofs`**: `TypeCorrect`, `OwnTitle`, `OnlyLossAborts` and `BelievesTruth`,
the four invariants of run `client`, under the conditions those name.

* `ThreadInv`: while nobody has begun to disconnect, a joinable receive thread
  is running and both flags are set, unless it saw the connection end. So the
  early return of `Disconnect` skips the join in that case only.
* `WireInv`: every request to create a room on its way, and every answer to one,
  names the room whose title is pending, unless requests overlapped; while the
  title is being assigned nothing of the kind is on its way. `Appended`, `Cut`,
  `SentParts`, `ReplyParts` and `RefusalParts` say what sending, `recv` and a reply
  do to the messages on the wire; `ServeOne` that an answer names what was asked.
* `TruthInv`: the last word on the room, looked for first among the replies on their
  way, then in what `recv` returned, then in what the client believes, is the
  server's. A reply is a new last word or none (`NewWord`, `SameWord`), and taking
  one from the wire moves the word along. `StartInv` is that nothing is on the wire
  before `Connect`.

Only model-checked: the temporal properties that say something happens
(`EventuallyDelivered`, `EventuallyHandedOver`, `EveryPacketHandedOn`,
`ReceivingEnds`, `EndsWhenDestroyed`, `QuitEnds`), because TLAPS does not handle
fairness and `ENABLED` here. Every invariant and action property of the passing runs,
and both refinements, are proved. The properties of the violation runs
are false, and stay with TLC.

## 6. Not modelled, and why

Socket options, the listen socket's set-up, logging and console output, the
client's drawing among it, have no state a property could be about.
`UnifiedStrand` and `Partitioned` modes and the client's `Tetris` are empty in the
code. `CPlayer`'s account and score are never set. `GetRoomCount`,
`GetTotalPlayerCount`, `SetStatus`, `IsEmpty` of the event queue, and `AddPlayer`
and `RemovePlayer` of the client's room have no caller. The event queue as an object,
a `std::queue` under one mutex, appears through the order it keeps. The header of
the server's `Protocol.h` has its `type` field commented out while
`CentralizedServer.cpp` and the client use it; the models take the game server as it
is written. The layout of messages beyond size and type is left out.

## 7. Plan

Done so far: every component with behaviour of its own has a module, and every safety
property the runs check is proved. What is left:

1. The event queue as a module of its own between `SessionPool` and `GameServer`,
   with the order of the events of one session as the abstract specification that
   one implements and the other assumes.
2. Action properties of `SessionPool` and `ServerLifecycle`: what a step may never do
   to a session that another thread is tearing down.
3. The single stores of `CSession::Initialize`, the send completions of an earlier
   connection and socket values that come back in `SessionPool`.

------------------------- MODULE SessionPool_proofs -------------------------
(***************************************************************************)
(* Proofs about SessionPool, for any number of slots, workers and          *)
(* connections.                                                            *)
(***************************************************************************)
EXTENDS SessionPool, FiniteSetTheorems, SequenceTheorems, TLAPS

-----------------------------------------------------------------------------
(* Types of what the threads hold.                                          *)

Entry == [index : Slots, unique : 0..MaxConns]

\* The steps of DisconnectSessionInternal after the exchange of _valid.
Closing == {"close", "push", "pushed", "goodbye"}

AcceptorPCs == {"accept", "release", "pop", "return", "process", "initialize", "bind",
                "announce", "postrecv", "submit", "drop"} \cup Closing
WorkerPCs   == {"idle", "check", "parse", "postrecv", "submit", "drop"} \cup Closing
GamePCs     == {"idle", "sendvalid", "send", "drop"} \cup Closing

LocalInv ==
  /\ pc[Acceptor] \in AcceptorPCs /\ pc[Game] \in GamePCs
  /\ \A w \in Workers : pc[w] \in WorkerPCs
  /\ \A t \in Threads :
       pc[t] \notin {"idle", "accept", "release", "pop", "return", "process"} => at[t] \in Slots
  /\ back \in [Threads -> PCs]
  /\ \A t \in Threads : \/ back[t] = Home(t)
                        \/ t \in Workers /\ back[t] = "postrecv" /\ pc[t] \in {"drop"} \cup Closing
  /\ pc[Acceptor] \in {"release", "pop", "return", "process"} => for[Acceptor] \in {0, counter + 1}
  /\ pc[Acceptor] = "process" => for[Acceptor] = counter + 1
  /\ pc[Acceptor] \notin {"accept", "release", "pop", "return", "process"} =>
       for[Acceptor] = counter /\ counter > 0
  /\ raced \in BOOLEAN /\ reused \in BOOLEAN

HeldInv ==
  /\ events \in [Conns -> Seq({"CONNECTED", "DISCONNECTED"})]
  /\ copy \in [Threads -> [stack : Seq(Entry), id : [index : Slots \cup {0}, unique : 0..MaxConns]]]
  /\ pc[Acceptor] \in {"pop", "return"} => copy[Acceptor].id \in Entry
  /\ pc[Acceptor] = "pop" => /\ copy[Acceptor].stack # <<>>
                             /\ copy[Acceptor].id = copy[Acceptor].stack[Len(copy[Acceptor].stack)]
  /\ \A t \in Threads : pc[t] = "pushed" => copy[t].id \in Entry

-----------------------------------------------------------------------------
(* Whose each thing in flight is, while no slot was reused with something   *)
(* of its last connection still in flight.                                  *)

\* Threads that work on the session in their slot.
Serving(t) == pc[t] \notin {"idle", "accept", "release", "pop", "return", "process", "initialize"}

\* A slot holds the last connection it was initialised for.
OwnInv ==
  /\ \A i \in Slots : ioId[i] = sid[i] /\ sid[i] <= counter /\ sock[i] \in {0, sid[i]}
  /\ \A i, j \in Slots : sid[i] = sid[j] /\ sid[i] # 0 => i = j
  /\ pc[Acceptor] = "initialize" => \A i \in Slots : sid[i] < counter

\* Every receive and completion on a slot is of its connection.
WireInv ==
  /\ \A k \in 1..Len(port) : sid[port[k].slot] = port[k].conn
  /\ \A u \in Conns : pending[u] > 0 => slotOf[u] \in Slots /\ sid[slotOf[u]] = u

\* Every thread on a slot is there for its connection.
ServeInv ==
  /\ \A t \in Threads : Serving(t) => for[t] = sid[at[t]]
  /\ \A t \in Threads : pc[t] \in {"pushed", "goodbye"} => copy[t].id = Id(at[t], sid[at[t]])
  /\ crossed = {}

\* Nothing is known of a connection before its slot is initialised.
FreshInv ==
  \A u \in Conns : u > counter \/ (pc[Acceptor] = "initialize" /\ u = counter) =>
    slotOf[u] = 0 /\ events[u] = <<>>

AttachInv == OwnInv /\ WireInv /\ ServeInv /\ FreshInv

\* An id that was pushed to _pendingDisconStack is of a session that has ended.
Ended(e) ==
  /\ e.unique <= counter /\ (pc[Acceptor] = "initialize" => e.unique < counter)
  /\ e.index \in Slots /\ sid[e.index] = e.unique => ~valid[e.index] /\ sock[e.index] = 0

StackInv ==
  /\ \A k \in 1..Len(stack) : Ended(stack[k])
  /\ \A t \in Threads : Ended(copy[t].id) /\ \A k \in 1..Len(copy[t].stack) : Ended(copy[t].stack[k])

-----------------------------------------------------------------------------
(* The life of a session.                                                   *)

Ending(t, i) == pc[t] \in Closing /\ at[t] = i
Presenting(i) == pc[Acceptor] \in {"bind", "announce"} /\ at[Acceptor] = i
Binding(i) == pc[Acceptor] = "bind" /\ at[Acceptor] = i

\* No connection was ever served in the slot, or BindIOCP failed for the last.
Vacant(i) == valid[i] /\ sock[i] = 0

\* One thread at most ends a session, after it was announced, and announces that.
LifeInv(i) ==
  /\ valid[i] => \A t \in Threads : ~Ending(t, i)
  /\ \A t, v \in Threads : Ending(t, i) /\ Ending(v, i) => t = v
  /\ \A t \in Threads : Ending(t, i) /\ pc[t] # "close" => sock[i] = 0
  /\ InUse(i) /\ ~Presenting(i) => events[sid[i]] = <<"CONNECTED">>
  /\ \A t \in Threads : Ending(t, i) => events[sid[i]] = <<"CONNECTED">>
  /\ ~valid[i] /\ (\A t \in Threads : ~Ending(t, i)) => events[sid[i]] = <<"CONNECTED", "DISCONNECTED">>

\* Before it is announced nothing but the accept thread is concerned with it.
QuietInv(i) ==
  /\ Presenting(i) => valid[i] /\ sock[i] # 0
  /\ Vacant(i) \/ Presenting(i) => ~InFlight(i) /\ (sid[i] # 0 => events[sid[i]] = <<>>)
  /\ Vacant(i) => ~(Serving(Acceptor) /\ at[Acceptor] = i)
  /\ ~(Vacant(i) \/ Binding(i)) => sid[i] # 0 /\ slotOf[sid[i]] = i

SessionInv(i) == LifeInv(i) /\ QuietInv(i)

\* The game thread has heard the whole story of a session that is gone.
PastInv ==
  \A u \in Conns : (\A i \in Slots : sid[i] # u) => events[u] \in {<<>>, <<"CONNECTED", "DISCONNECTED">>}

-----------------------------------------------------------------------------
(* The receive of a session.                                                *)

\* A thread that is to post the next receive of the slot, at once or after the
\* teardown it is in.
Receiving(t, i) ==
  /\ at[t] = i
  /\ \/ pc[t] \in {"bind", "announce", "check", "parse", "postrecv", "submit"}
     \/ pc[t] \in {"drop"} \cup Closing /\ back[t] = "postrecv"

InKernel(i)  == \E u \in Conns : sid[i] = u /\ pending[u] > 0
AtPort(i)    == \E k \in 1..Len(port) : port[k].slot = i
OneAtPort(i) == \A k, l \in 1..Len(port) : port[k].slot = i /\ port[l].slot = i => k = l

\* A worker or the accept thread is to tear the session down.
Failing(t, i) == pc[t] = "drop" /\ at[t] = i /\ t # Game

\* One receive of a session is with the kernel, at the port or with a thread.
ReceiveInv(i) ==
  /\ \A u \in Conns : sid[i] = u => pending[u] <= 1
  /\ OneAtPort(i)
  /\ \A t, v \in Threads : Receiving(t, i) /\ Receiving(v, i) => t = v
  /\ ~(InKernel(i) /\ AtPort(i))
  /\ \A t \in Threads : Receiving(t, i) => ~InKernel(i) /\ ~AtPort(i)
  /\ InUse(i) => InKernel(i) \/ AtPort(i) \/ \E t \in Threads : Receiving(t, i) \/ Failing(t, i)

-----------------------------------------------------------------------------
(* Where an index is, while no two accesses to the stack overlapped either. *)

Free(i)      == \E k \in 1..Len(available) : available[k] = i
Stacked(i)   == \E k \in 1..Len(stack) : stack[k].index = i
Torn(i)      == \E t \in Threads : Tearing(t, i)
Starting(i)  == pc[Acceptor] = "initialize" /\ at[Acceptor] = i
Returning(i) == pc[Acceptor] = "return" /\ copy[Acceptor].id.index = i

\* In neither the pool nor the stack is it twice, and the stack knows its session.
OneFree(i)    == \A k, l \in 1..Len(available) : available[k] = i /\ available[l] = i => k = l
OneStacked(i) ==
  /\ \A k, l \in 1..Len(stack) : stack[k].index = i /\ stack[l].index = i => k = l
  /\ \A k \in 1..Len(stack) : stack[k].index = i => stack[k].unique = sid[i]

PlaceInv(i) ==
  /\ Free(i) \/ Stacked(i) \/ Torn(i) \/ InUse(i) \/ Starting(i) \/ Returning(i)
  /\ Free(i) => ~Stacked(i) /\ ~Torn(i) /\ ~InUse(i) /\ ~Starting(i) /\ ~Returning(i)
  /\ Stacked(i) => ~Torn(i) /\ ~InUse(i) /\ ~Starting(i) /\ ~Returning(i)
  /\ Torn(i) => ~InUse(i) /\ ~Starting(i) /\ ~Returning(i)
  /\ InUse(i) => ~Starting(i) /\ ~Returning(i)
  /\ OneFree(i) /\ OneStacked(i)
  /\ Returning(i) => copy[Acceptor].id.unique = sid[i]

\* No packet is handed on of a session that was not announced.
NewsInv == premature = {}

SoundInv ==
  /\ AttachInv /\ StackInv /\ PastInv /\ NewsInv
  /\ \A i \in Slots : SessionInv(i) /\ ReceiveInv(i)

IInv ==
  /\ TypeOK /\ LocalInv /\ HeldInv
  /\ ~reused => SoundInv
  /\ ~reused /\ ~raced => \A i \in Slots : PlaceInv(i)
-----------------------------------------------------------------------------
(* Sequences.                                                               *)

\* push, top and pop of std::stack: what is below the top stays.
LEMMA PopSeq ==
  ASSUME NEW S, NEW s \in Seq(S), s # <<>>
  PROVE  /\ SubSeq(s, 1, Len(s) - 1) \in Seq(S) /\ s[Len(s)] \in S /\ Len(s) > 0
         /\ Len(SubSeq(s, 1, Len(s) - 1)) = Len(s) - 1
         /\ \A k \in 1..Len(s) - 1 : SubSeq(s, 1, Len(s) - 1)[k] = s[k]
<1>1. Len(s) \in Nat /\ Len(s) > 0 /\ s \in [1..Len(s) -> S]
  OBVIOUS
<1>2. \A k \in 1..Len(s) - 1 : s[k] \in S
  BY <1>1
<1>3. SubSeq(s, 1, Len(s) - 1) \in Seq(S) /\ Len(SubSeq(s, 1, Len(s) - 1)) = Len(s) - 1
  BY <1>1, <1>2, SubSeqProperties
<1>4. \A k \in 1..Len(s) - 1 : SubSeq(s, 1, Len(s) - 1)[k] = s[k]
  BY <1>1, <1>2, SubSeqProperties
<1> QED BY <1>1, <1>3, <1>4

\* pop takes nothing off but the top, whatever the stack is by then.
LEMMA PoppedSeq ==
  ASSUME NEW S, NEW s \in Seq(S)
  PROVE  Popped(s) \in Seq(S) /\ \A k \in 1..Len(Popped(s)) : k \in 1..Len(s) /\ Popped(s)[k] = s[k]
<1>1. CASE s = <<>>
  <2>1. Popped(s) = <<>>
    BY <1>1 DEF Popped
  <2> QED BY <2>1
<1>2. CASE s # <<>>
  <2>1. /\ Popped(s) \in Seq(S) /\ Len(s) \in Nat /\ Len(Popped(s)) = Len(s) - 1
        /\ \A k \in 1..Len(s) - 1 : Popped(s)[k] = s[k]
    BY <1>2, PopSeq DEF Popped
  <2> QED BY <2>1
<1> QED BY <1>1, <1>2

\* closesocket reports each receive of the socket once more to the port.
LEMMA RepeatSeq ==
  ASSUME NEW S, NEW p \in Seq(S), NEW r \in S, NEW n \in Nat
  PROVE  /\ p \o [k \in 1..n |-> r] \in Seq(S)
         /\ Len(p \o [k \in 1..n |-> r]) = Len(p) + n
         /\ \A k \in 1..Len(p) + n : (p \o [j \in 1..n |-> r])[k] = IF k <= Len(p) THEN p[k] ELSE r
<1> DEFINE q == [k \in 1..n |-> r]
<1>1. q \in Seq(S) /\ Len(q) = n /\ \A k \in 1..n : q[k] = r
  <2>1. q \in [1..n -> S]
    OBVIOUS
  <2> QED BY <2>1, SeqDef
<1>2. \A k \in 1..Len(p) + n : k > Len(p) => k - Len(p) \in 1..n
  OBVIOUS
<1> HIDE DEF q
<1>3. /\ p \o q \in Seq(S) /\ Len(p \o q) = Len(p) + n
      /\ \A k \in 1..Len(p) + n : (p \o q)[k] = IF k <= Len(p) THEN p[k] ELSE q[k - Len(p)]
  BY <1>1, ConcatProperties
<1> QED BY <1>1, <1>2, <1>3 DEF q

\* A DISCONNECTED after the CONNECTED.
LEMMA AppendTwo ==
  ASSUME NEW S, NEW s \in Seq(S), NEW d \in S
  PROVE  /\ Append(s, d) \in Seq(S) /\ Len(Append(s, d)) = Len(s) + 1
         /\ \A i \in 1..Len(s) : Append(s, d)[i] = s[i]
         /\ Append(s, d)[Len(s) + 1] = d
OBVIOUS

LEMMA AppendOne ==
  ASSUME NEW S, NEW c \in S, NEW d \in S
  PROVE  Append(<<c>>, d) = <<c, d>>
<1> DEFINE s == <<c>>
           r == <<c, d>>
<1>1. s \in Seq(S) /\ Len(s) = 1 /\ s[1] = c
  OBVIOUS
<1>2. r \in Seq(S) /\ Len(r) = 2 /\ r[1] = c /\ r[2] = d
  OBVIOUS
<1> HIDE DEF s, r
<1>3. Append(s, d) \in Seq(S) /\ Len(Append(s, d)) = 2 /\ Append(s, d)[1] = c /\ Append(s, d)[2] = d
  <2>1. /\ Append(s, d) \in Seq(S) /\ Len(Append(s, d)) = Len(s) + 1
        /\ \A i \in 1..Len(s) : Append(s, d)[i] = s[i]
        /\ Append(s, d)[Len(s) + 1] = d
    BY <1>1, AppendTwo, Zenon
  <2>2. 1 \in 1..Len(s) /\ Len(s) + 1 = 2
    BY <1>1
  <2> QED BY <1>1, <2>1, <2>2, Zenon
<1>4. \A i \in 1..2 : Append(s, d)[i] = r[i]
  BY <1>2, <1>3
<1>5. Append(s, d) = r
  BY <1>2, <1>3, <1>4, SeqEqual
<1> QED BY <1>5 DEF s, r

\* The stories of a session that was never announced and of one that is gone.
LEMMA Distinct ==
  <<>> # <<"CONNECTED">> /\ <<"CONNECTED", "DISCONNECTED">> # <<"CONNECTED">>
<1>1. Len(<<>>) = 0 /\ Len(<<"CONNECTED">>) = 1 /\ Len(<<"CONNECTED", "DISCONNECTED">>) = 2
  OBVIOUS
<1> QED BY <1>1

\* pushEvent adds to what was pushed for the session.
LEMMA PushEvent ==
  ASSUME NEW D, NEW S, NEW f \in [D -> Seq(S)], NEW x \in D, NEW e \in S
  PROVE  /\ [f EXCEPT ![x] = Append(f[x], e)] \in [D -> Seq(S)]
         /\ \A y \in D : y # x => [f EXCEPT ![x] = Append(f[x], e)][y] = f[y]
  OBVIOUS

\* A function onto a set from as many places as it has members has each once.
LEMMA OntoIsOneToOne ==
  ASSUME NEW S, IsFiniteSet(S), NEW f \in [1..Cardinality(S) -> S],
         \A x \in S : \E k \in 1..Cardinality(S) : f[k] = x
  PROVE  \A k, l \in 1..Cardinality(S) : f[k] = f[l] => k = l
<1> DEFINE D == 1..Cardinality(S)
<1>1. Cardinality(S) \in Nat
  BY FS_CardinalityType
<1>2. IsFiniteSet(D) /\ Cardinality(D) = Cardinality(S)
  BY <1>1, FS_Interval
<1>3. f \in Surjection(D, S)
  BY DEF Surjection
<1>4. f \in Injection(D, S)
  <2> HIDE DEF D
  <2> QED BY <1>2, <1>3, FS_SurjSameCardinalityImpliesInj
<1> QED BY <1>4 DEF Injection, IsInjective

-----------------------------------------------------------------------------
(* What the steps that touch sequences do.                                  *)

Completion == [slot : Slots, conn : Conns, ok : BOOLEAN]
Failed(u)  == [slot |-> slotOf[u], conn |-> u, ok |-> FALSE]

\* closesocket turns each receive of the slot's socket into a failed completion.
LEMMA CloseEffect ==
  ASSUME TypeOK, NEW i \in Slots, CloseSocketOf(i)
  PROVE  LET u == sock[i]
             n == IF u = 0 THEN 0 ELSE IF slotOf[u] = 0 THEN 0 ELSE pending[u]
         IN /\ sock' = [sock EXCEPT ![i] = 0] /\ sock' \in [Slots -> 0..MaxConns] /\ n \in Nat
            /\ pending' \in [Conns -> Nat]
            /\ \A v \in Conns : pending'[v] = IF v = u THEN 0 ELSE pending[v]
            /\ port' \in Seq(Completion) /\ Len(port') = Len(port) + n
            /\ \A k \in 1..Len(port) : port'[k] = port[k]
            /\ \A k \in Len(port) + 1..Len(port') : port'[k] = Failed(u)
<1> DEFINE u == sock[i]
           n == IF u = 0 THEN 0 ELSE IF slotOf[u] = 0 THEN 0 ELSE pending[u]
<1>1. /\ u \in 0..MaxConns /\ MaxConns \in Nat /\ port \in Seq(Completion) /\ Len(port) \in Nat
      /\ pending \in [Conns -> Nat] /\ slotOf \in [Conns -> Slots \cup {0}] /\ Conns = 1..MaxConns
      /\ sock' = [sock EXCEPT ![i] = 0] /\ sock' \in [Slots -> 0..MaxConns]
  BY PoolAssumption DEF TypeOK, Completion, CloseSocketOf, Conns
<1>2. CASE u = 0
  BY <1>1, <1>2 DEF CloseSocketOf, Conns
<1>3. CASE u # 0 /\ slotOf[u] = 0
  <2>1. pending' = [pending EXCEPT ![u] = 0] /\ port' = port
    BY <1>3 DEF CloseSocketOf, Report
  <2> QED BY <1>1, <1>3, <2>1
<1>4. CASE u # 0 /\ slotOf[u] # 0
  <2>1. /\ pending' = [pending EXCEPT ![u] = 0]
        /\ port' = port \o [k \in 1..pending[u] |-> Failed(u)]
    BY <1>4 DEF CloseSocketOf, Report, Failed
  <2>2. u \in Conns /\ pending[u] \in Nat /\ Failed(u) \in Completion
    BY <1>1, <1>4 DEF Failed, Completion
  <2> DEFINE m == pending[u]
             q == port \o [k \in 1..m |-> Failed(u)]
  <2>3. /\ q \in Seq(Completion) /\ Len(q) = Len(port) + m
        /\ \A k \in 1..Len(port) + m : q[k] = IF k <= Len(port) THEN port[k] ELSE Failed(u)
    <3>1. m \in Nat /\ Failed(u) \in Completion /\ port \in Seq(Completion)
      BY <1>1, <2>2
    <3> HIDE DEF u, m
    <3> QED BY <3>1, RepeatSeq
  <2>7. port' = q /\ n = m
    BY <1>4, <2>1
  <2> HIDE DEF u, q, m
  <2>4. pending' \in [Conns -> Nat] /\ \A v \in Conns : pending'[v] = IF v = u THEN 0 ELSE pending[v]
    BY <1>1, <2>1
  <2>5. n \in Nat /\ \A k \in 1..Len(port) : port'[k] = port[k]
    BY <1>1, <2>2, <2>3, <2>7 DEF m
  <2>6. \A k \in Len(port) + 1..Len(port') : port'[k] = Failed(u)
    BY <1>1, <2>3, <2>5, <2>7
  <2> QED BY <1>1, <2>3, <2>4, <2>5, <2>6, <2>7 DEF u
<1> QED BY <1>1, <1>2, <1>3, <1>4

\* The kernel finishes one receive; an unbound socket reports nothing.
LEMMA ReceiveEffect ==
  ASSUME TypeOK, NEW u \in Conns, Receive(u)
  PROVE  /\ pending[u] > 0 /\ pending' \in [Conns -> Nat]
         /\ \A v \in Conns : pending'[v] = IF v = u THEN pending[u] - 1 ELSE pending[v]
         /\ port' \in Seq(Completion)
         /\ \/ slotOf[u] = 0 /\ port' = port
            \/ /\ slotOf[u] \in Slots /\ Len(port') = Len(port) + 1
               /\ \A k \in 1..Len(port) : port'[k] = port[k]
               /\ port'[Len(port) + 1].slot = slotOf[u] /\ port'[Len(port) + 1].conn = u
<1>1. /\ port \in Seq(Completion) /\ Len(port) \in Nat
      /\ pending \in [Conns -> Nat] /\ slotOf \in [Conns -> Slots \cup {0}]
  BY DEF TypeOK, Completion
<1>2. /\ pending[u] > 0 /\ pending' \in [Conns -> Nat]
      /\ \A v \in Conns : pending'[v] = IF v = u THEN pending[u] - 1 ELSE pending[v]
  BY <1>1 DEF Receive
<1>3. CASE slotOf[u] = 0
  BY <1>1, <1>2, <1>3 DEF Receive, Report
<1>4. CASE slotOf[u] # 0
  <2>1. PICK ok \in BOOLEAN : port' = port \o <<[slot |-> slotOf[u], conn |-> u, ok |-> ok]>>
    BY <1>4 DEF Receive, Report
  <2> DEFINE r == [slot |-> slotOf[u], conn |-> u, ok |-> ok]
  <2>2. r \in Completion /\ r.slot = slotOf[u] /\ r.conn = u /\ slotOf[u] \in Slots
    BY <1>1, <1>4 DEF Completion
  <2> HIDE DEF r
  <2>3. port' = port \o <<r>>
    BY <2>1 DEF r
  <2>4. /\ port' \in Seq(Completion) /\ Len(port') = Len(port) + 1
        /\ \A k \in 1..Len(port) : port'[k] = port[k]
        /\ port'[Len(port) + 1] = r
    BY <1>1, <2>2, <2>3
  <2> QED BY <1>2, <2>2, <2>4
<1> QED BY <1>1, <1>3, <1>4

\* GetQueuedCompletionStatus takes the oldest completion.
LEMMA TakeEffect ==
  ASSUME TypeOK, NEW w \in Workers, TakeCompletion(w)
  PROVE  /\ port' \in Seq(Completion) /\ Len(port) > 0 /\ Len(port') = Len(port) - 1
         /\ \A k \in 1..Len(port') : port'[k] = port[k + 1]
         /\ port[1].slot \in Slots /\ port[1].conn \in Conns
         /\ at' = [at EXCEPT ![w] = port[1].slot] /\ for' = [for EXCEPT ![w] = port[1].conn]
         /\ pc[w] = "idle" /\ pc' = [pc EXCEPT ![w] = IF port[1].ok THEN "check" ELSE "drop"]
<1>1. port \in Seq(Completion) /\ port # <<>> /\ Len(port) \in Nat /\ Len(port) > 0
  BY DEF TypeOK, Completion, TakeCompletion
<1>2. /\ Tail(port) \in Seq(Completion) /\ Len(Tail(port)) = Len(port) - 1
      /\ \A k \in 1..Len(Tail(port)) : Tail(port)[k] = port[k + 1]
  BY <1>1
<1>3. Head(port) = port[1] /\ port[1] \in Completion
  BY <1>1
<1> QED BY <1>1, <1>2, <1>3 DEF TakeCompletion, Step, Goto, Completion

\* Indices come from the pool, from a completion or from an id, and stay in their types.
LEMMA TypeStep ==
  TypeOK /\ LocalInv /\ HeldInv /\ [Next]_vars => TypeOK'
<1> SUFFICES ASSUME TypeOK, LocalInv, HeldInv, [Next]_vars
             PROVE  TypeOK'
  OBVIOUS
<1> USE PoolAssumption DEF TypeOK, PCs, Threads, Step, Goto, Home, slotVars, poolVars, ioVars,
    localVars, history, LocalInv, AcceptorPCs, WorkerPCs, GamePCs, Closing
<1>1. CASE AcceptReturns
  BY <1>1 DEF AcceptReturns
<1>2. CASE ReadTop
  BY <1>2 DEF ReadTop
<1>3. CASE Pop
  <2>1. stack' \in Seq(Entry)
    <3>1. copy[Acceptor].stack \in Seq(Entry) /\ stack \in Seq(Entry)
      BY <1>3 DEF Pop, HeldInv, Entry
    <3>2. stack' = Popped(copy[Acceptor].stack) \/ stack' = Popped(stack)
      BY <1>3 DEF Pop
    <3> QED BY <3>1, <3>2, PoppedSeq
  <2> QED BY <1>3, <2>1 DEF Pop, Entry
<1>4. CASE ReturnIndex
  <2>1. CASE sid[copy[Acceptor].id.index] = copy[Acceptor].id.unique
    <3> DEFINE i == copy[Acceptor].id.index
    <3>1. i \in Slots
      BY <1>4 DEF ReturnIndex, HeldInv, Entry
    <3>2. /\ CloseSocketOf(i) /\ available' = Append(available, i)
          /\ UNCHANGED <<valid, sid, ioId, stack, counter, slotOf, at, for>>
      BY <1>4, <2>1 DEF ReturnIndex
    <3>3. sock' \in [Slots -> 0..MaxConns] /\ pending' \in [Conns -> Nat] /\ port' \in Seq(Completion)
      <4> HIDE DEF i, TypeOK, LocalInv, PCs, Threads
      <4> QED BY <3>1, <3>2, CloseEffect
    <3>4. available' \in Seq(Slots) /\ pc' \in [Threads -> PCs]
      BY <1>4, <3>1, <3>2 DEF ReturnIndex
    <3> QED BY <3>2, <3>3, <3>4 DEF Completion
  <2>2. CASE sid[copy[Acceptor].id.index] # copy[Acceptor].id.unique
    BY <1>4, <2>2 DEF ReturnIndex
  <2> QED BY <2>1, <2>2
<1>5. CASE TakeIndex
  <2>1. CASE available = <<>>
    BY <1>5, <2>1 DEF TakeIndex
  <2>2. CASE available # <<>>
    <3>1. Head(available) \in Slots /\ Tail(available) \in Seq(Slots)
      BY <2>2, HeadTailProperties
    <3>2. /\ at' = [at EXCEPT ![Acceptor] = Head(available)] /\ available' = Tail(available)
          /\ pc[Acceptor] = "process" /\ pc' = [pc EXCEPT ![Acceptor] = "initialize"]
          /\ counter' = counter + 1
          /\ UNCHANGED <<slotVars, stack, ioVars, for>>
      BY <1>5, <2>2 DEF TakeIndex
    <3>3. counter' \in 0..MaxConns
      BY <3>2
    <3>4. at' \in [Threads -> Slots \cup {0}] /\ pc' \in [Threads -> PCs]
      BY <3>1, <3>2
    <3> QED BY <3>1, <3>2, <3>3, <3>4
  <2> QED BY <2>1, <2>2
<1>6. CASE Initialize
  BY <1>6 DEF Initialize
<1>7. CASE Bind
  <2>1. at[Acceptor] \in Slots /\ for[Acceptor] \in Conns /\ pc' \in [Threads -> PCs]
    <3>1. pc[Acceptor] = "bind" /\ \E to \in {"announce", "accept"} : pc' = [pc EXCEPT ![Acceptor] = to]
      BY <1>7 DEF Bind
    <3>2. pc' \in [Threads -> PCs]
      BY <3>1
    <3>3. at[Acceptor] \in Slots /\ for[Acceptor] = counter /\ counter > 0
      BY <3>1
    <3>4. for[Acceptor] \in Conns
      <4>1. counter \in 0..MaxConns /\ MaxConns \in Nat
        OBVIOUS
      <4> HIDE DEF TypeOK, LocalInv
      <4> QED BY <3>3, <4>1 DEF Conns
    <3> QED BY <3>2, <3>3, <3>4
  <2>2. CASE slotOf' = [slotOf EXCEPT ![for[Acceptor]] = at[Acceptor]] /\ UNCHANGED <<slotVars, poolVars, pending, port, at, for>>
    <3>1. slotOf' \in [Conns -> Slots \cup {0}]
      BY <2>1, <2>2
    <3> QED BY <2>1, <2>2, <3>1
  <2>3. CASE /\ sock' = [sock EXCEPT ![at[Acceptor]] = 0] /\ available' = Append(available, at[Acceptor])
             /\ UNCHANGED <<valid, sid, ioId, stack, counter, ioVars, at, for>>
    <3>1. sock' \in [Slots -> 0..MaxConns] /\ available' \in Seq(Slots)
      BY <2>1, <2>3
    <3> QED BY <2>1, <2>3, <3>1
  <2> QED BY <1>7, <2>2, <2>3 DEF Bind
<1>8. CASE Announce
  BY <1>8 DEF Announce
<1>9. CASE RequestSendMsg
  BY <1>9 DEF RequestSendMsg, FindSession
<1>10. CASE RequestDisconnectSession
  BY <1>10 DEF RequestDisconnectSession, FindSession
<1>11. CASE SendValid
  BY <1>11 DEF SendValid
<1>12. CASE Send
  BY <1>12 DEF Send
<1>13. ASSUME NEW w \in Workers, TakeCompletion(w) PROVE TypeOK'
  <2>1. port' \in Seq(Completion)
    BY <1>13, TakeEffect
  <2>5. /\ port[1].slot \in Slots /\ port[1].conn \in Conns
        /\ at' = [at EXCEPT ![w] = port[1].slot] /\ for' = [for EXCEPT ![w] = port[1].conn]
        /\ pc' = [pc EXCEPT ![w] = IF port[1].ok THEN "check" ELSE "drop"]
    <3> HIDE DEF TypeOK, LocalInv
    <3> QED BY <1>13, TakeEffect
  <2>2. at' \in [Threads -> Slots \cup {0}] /\ pc' \in [Threads -> PCs]
    <3>1. /\ at \in [Threads -> Slots \cup {0}] /\ pc \in [Threads -> PCs]
          /\ "check" \in PCs /\ "drop" \in PCs
      BY DEF TypeOK, PCs
    <3> HIDE DEF TypeOK, LocalInv
    <3> QED BY <2>5, <3>1
  <2>3. for' \in [Threads -> 0..MaxConns]
    <3>1. for \in [Threads -> 0..MaxConns]
      BY DEF TypeOK
    <3>2. \A v \in Conns : v \in 0..MaxConns
      <4> HIDE DEF TypeOK, LocalInv
      <4> QED BY DEF Conns
    <3> HIDE DEF TypeOK, LocalInv
    <3> QED BY <2>5, <3>1, <3>2
  <2>4. UNCHANGED <<slotVars, poolVars, slotOf, pending>>
    BY <1>13 DEF TakeCompletion
  <2> QED BY <2>1, <2>2, <2>3, <2>4 DEF Completion
<1>14. ASSUME NEW w \in Workers, CheckSession(w) PROVE TypeOK'
  BY <1>14 DEF CheckSession
<1>15. ASSUME NEW w \in Workers, Parse(w) PROVE TypeOK'
  BY <1>15 DEF Parse
<1>16. ASSUME NEW t \in Threads, PostRecv(t) PROVE TypeOK'
  BY <1>16 DEF PostRecv
<1>17. ASSUME NEW t \in Threads, Submit(t) PROVE TypeOK'
  <2>1. pending' \in [Conns -> Nat] /\ UNCHANGED <<slotVars, poolVars, slotOf, port, at, for>>
    <3>1. pending' = pending \/ pending' = [pending EXCEPT ![sock[at[t]]] = pending[sock[at[t]]] + 1]
      BY <1>17 DEF Submit
    <3>2. pending \in [Conns -> Nat] /\ UNCHANGED <<slotVars, poolVars, slotOf, port, at, for>>
      BY <1>17 DEF Submit
    <3> HIDE DEF TypeOK, LocalInv
    <3> QED BY <3>1, <3>2
  <2>2. pc' \in [Threads -> PCs]
    BY <1>17 DEF Submit
  <2> QED BY <2>1, <2>2
<1>18. ASSUME NEW t \in Threads, Drop(t) PROVE TypeOK'
  <2>1. /\ at[t] \in Slots /\ valid' = [valid EXCEPT ![at[t]] = FALSE]
        /\ UNCHANGED <<sock, sid, ioId, poolVars, ioVars, at, for>>
    BY <1>18 DEF Drop
  <2>2. pc' \in [Threads -> PCs]
    <3>1. back[t] \in PCs /\ (pc' = [pc EXCEPT ![t] = "close"] \/ pc' = [pc EXCEPT ![t] = back[t]])
      BY <1>18 DEF Drop
    <3> QED BY <3>1
  <2>3. valid' \in [Slots -> BOOLEAN]
    BY <2>1
  <2> QED BY <2>1, <2>2, <2>3
<1>19. ASSUME NEW t \in Threads, CloseSocket(t) PROVE TypeOK'
  <2>1. /\ at[t] \in Slots /\ CloseSocketOf(at[t])
        /\ UNCHANGED <<valid, sid, ioId, poolVars, slotOf, at, for>>
    BY <1>19 DEF CloseSocket
  <2>2. sock' \in [Slots -> 0..MaxConns] /\ pending' \in [Conns -> Nat] /\ port' \in Seq(Completion)
    <3> HIDE DEF TypeOK, LocalInv, PCs, Threads
    <3> QED BY <2>1, CloseEffect
  <2>3. pc' \in [Threads -> PCs]
    BY <1>19 DEF CloseSocket
  <2> QED BY <2>1, <2>2, <2>3 DEF Completion
<1>20. ASSUME NEW t \in Threads, ReadStack(t) PROVE TypeOK'
  BY <1>20 DEF ReadStack
<1>21. ASSUME NEW t \in Threads, WriteStack(t) PROVE TypeOK'
  <2>1. copy[t].stack \in Seq(Entry) /\ copy[t].id \in Entry
    BY <1>21 DEF WriteStack, HeldInv
  <2>2. stack' \in Seq(Entry)
    BY <1>21, <2>1 DEF WriteStack
  <2>3. pc' \in [Threads -> PCs] /\ UNCHANGED <<slotVars, available, counter, ioVars, at, for>>
    BY <1>21 DEF WriteStack
  <2> QED BY <2>2, <2>3 DEF Entry
<1>22. ASSUME NEW t \in Threads, Goodbye(t) PROVE TypeOK'
  <2>1. pc' \in [Threads -> PCs] /\ UNCHANGED <<slotVars, poolVars, ioVars, at, for>>
    BY <1>22 DEF Goodbye, Leave
  <2> QED BY <2>1
<1>23. ASSUME NEW u \in Conns, Receive(u) PROVE TypeOK'
  <2>1. pending' \in [Conns -> Nat] /\ port' \in Seq(Completion)
    BY <1>23, ReceiveEffect
  <2>2. UNCHANGED <<slotVars, poolVars, slotOf, pc, at, for>>
    BY <1>23 DEF Receive
  <2> QED BY <2>1, <2>2 DEF Completion
<1>24. CASE UNCHANGED vars
  BY <1>24 DEF vars
<1> QED
  BY <1>1, <1>2, <1>3, <1>4, <1>5, <1>6, <1>7, <1>8, <1>9, <1>10, <1>11, <1>12, <1>13, <1>14,
     <1>15, <1>16, <1>17, <1>18, <1>19, <1>20, <1>21, <1>22, <1>23, <1>24
  DEF Next, Accepting, Working, Gaming, DisconnectSessionInternal

\* Every thread stays in its own code, with what that place in the code needs.
LEMMA LocalStep ==
  TypeOK /\ LocalInv /\ [Next]_vars => LocalInv'
<1> SUFFICES ASSUME TypeOK, LocalInv, [Next]_vars
             PROVE  LocalInv'
  OBVIOUS
<1> USE PoolAssumption DEF TypeOK, PCs, Threads, Step, Goto, Home, slotVars, poolVars, ioVars,
    localVars, history, LocalInv, AcceptorPCs, WorkerPCs, GamePCs, Closing
<1>1. CASE AcceptReturns
  BY <1>1 DEF AcceptReturns
<1>2. CASE ReadTop
  BY <1>2 DEF ReadTop
<1>3. CASE Pop
  BY <1>3 DEF Pop
<1>4. CASE ReturnIndex
  BY <1>4 DEF ReturnIndex
<1>5. CASE TakeIndex
  <2>1. CASE available = <<>>
    <3>1. /\ pc[Acceptor] = "process" /\ pc' = [pc EXCEPT ![Acceptor] = "accept"]
          /\ UNCHANGED <<at, for, back, counter, history>>
      BY <1>5, <2>1 DEF TakeIndex
    <3> QED BY <3>1
  <2>2. CASE available # <<>>
    <3>1. Head(available) \in Slots
      BY <2>2, HeadTailProperties
    <3>2. /\ at' = [at EXCEPT ![Acceptor] = Head(available)]
          /\ pc[Acceptor] = "process" /\ pc' = [pc EXCEPT ![Acceptor] = "initialize"]
          /\ counter' = counter + 1
          /\ UNCHANGED <<for, back, history>>
      BY <1>5, <2>2 DEF TakeIndex
    <3> QED BY <3>1, <3>2
  <2> QED BY <2>1, <2>2
<1>6. CASE Initialize
  BY <1>6 DEF Initialize
<1>7. CASE Bind
  BY <1>7 DEF Bind
<1>8. CASE Announce
  BY <1>8 DEF Announce
<1>9. CASE RequestSendMsg
  BY <1>9 DEF RequestSendMsg, FindSession
<1>10. CASE RequestDisconnectSession
  BY <1>10 DEF RequestDisconnectSession, FindSession
<1>11. CASE SendValid
  BY <1>11 DEF SendValid
<1>12. CASE Send
  BY <1>12 DEF Send
<1>13. ASSUME NEW w \in Workers, TakeCompletion(w) PROVE LocalInv'
  <2>1. /\ at' = [at EXCEPT ![w] = port[1].slot] /\ for' = [for EXCEPT ![w] = port[1].conn]
        /\ pc[w] = "idle" /\ pc'[w] \in {"check", "drop"} /\ \A t \in Threads \ {w} : pc'[t] = pc[t]
        /\ port[1].slot \in Slots
    <3>1. /\ at' = [at EXCEPT ![w] = port[1].slot] /\ for' = [for EXCEPT ![w] = port[1].conn]
          /\ pc[w] = "idle" /\ pc' = [pc EXCEPT ![w] = IF port[1].ok THEN "check" ELSE "drop"]
          /\ port[1].slot \in Slots
      <4> HIDE DEF TypeOK, LocalInv
      <4> QED BY <1>13, TakeEffect
    <3> QED BY <3>1
  <2>2. UNCHANGED <<counter, back, history>> /\ w # Acceptor /\ w # Game
    BY <1>13 DEF TakeCompletion
  <2>3. \A t \in Threads :
          pc'[t] \notin {"idle", "accept", "release", "pop", "return", "process"} => at'[t] \in Slots
    BY <2>1
  <2>4. for'[Acceptor] = for[Acceptor] /\ pc'[Acceptor] = pc[Acceptor] /\ pc'[Game] = pc[Game]
    BY <2>1, <2>2
  <2> QED BY <2>1, <2>2, <2>3, <2>4
<1>14. ASSUME NEW w \in Workers, CheckSession(w) PROVE LocalInv'
  BY <1>14 DEF CheckSession
<1>15. ASSUME NEW w \in Workers, Parse(w) PROVE LocalInv'
  <2>1. /\ pc[w] = "parse" /\ UNCHANGED <<at, for, counter, raced, reused>>
        /\ pc' = [pc EXCEPT ![w] = pc'[w]] /\ w # Acceptor /\ w # Game
        /\ \/ pc'[w] = "postrecv" /\ back' = back
           \/ pc'[w] = "drop" /\ \E next \in {"idle", "postrecv"} : back' = [back EXCEPT ![w] = next]
    BY <1>15 DEF Parse
  <2>2. CASE pc'[w] = "postrecv" /\ back' = back
    BY <2>1, <2>2
  <2>3. CASE pc'[w] = "drop" /\ back' = [back EXCEPT ![w] = "idle"]
    BY <2>1, <2>3
  <2>4. CASE pc'[w] = "drop" /\ back' = [back EXCEPT ![w] = "postrecv"]
    BY <2>1, <2>4
  <2> QED BY <2>1, <2>2, <2>3, <2>4
<1>16. ASSUME NEW t \in Threads, PostRecv(t) PROVE LocalInv'
  BY <1>16 DEF PostRecv
<1>17. ASSUME NEW t \in Threads, Submit(t) PROVE LocalInv'
  <2>1. /\ pc[t] = "submit" /\ UNCHANGED <<at, for, back, counter, raced, reused>>
        /\ \E to \in {"drop", Home(t)} : pc' = [pc EXCEPT ![t] = to]
    BY <1>17 DEF Submit
  <2>2. t # Game
    BY <2>1
  <2>3. CASE pc' = [pc EXCEPT ![t] = "drop"]
    BY <2>1, <2>2, <2>3
  <2>4. CASE pc' = [pc EXCEPT ![t] = Home(t)]
    BY <2>1, <2>2, <2>4
  <2> QED BY <2>1, <2>3, <2>4
<1>18. ASSUME NEW t \in Threads, Drop(t) PROVE LocalInv'
  <2>1. pc[t] = "drop" /\ UNCHANGED <<at, for, counter, raced, reused>>
    BY <1>18 DEF Drop
  <2>2. CASE valid[at[t]]
    <3>1. pc' = [pc EXCEPT ![t] = "close"] /\ back' = back
      BY <1>18, <2>2 DEF Drop
    <3> QED BY <2>1, <3>1
  <2>3. CASE ~valid[at[t]]
    <3>1. /\ pc' = [pc EXCEPT ![t] = back[t]] /\ back' = [back EXCEPT ![t] = Home(t)]
      BY <1>18, <2>3 DEF Drop
    <3>2. back[t] = Home(t) \/ (t \in Workers /\ back[t] = "postrecv")
      OBVIOUS
    <3> QED BY <2>1, <3>1, <3>2
  <2> QED BY <2>2, <2>3
<1>19. ASSUME NEW t \in Threads, CloseSocket(t) PROVE LocalInv'
  BY <1>19 DEF CloseSocket
<1>20. ASSUME NEW t \in Threads, ReadStack(t) PROVE LocalInv'
  BY <1>20 DEF ReadStack
<1>21. ASSUME NEW t \in Threads, WriteStack(t) PROVE LocalInv'
  BY <1>21 DEF WriteStack
<1>22. ASSUME NEW t \in Threads, Goodbye(t) PROVE LocalInv'
  <2>1. /\ pc[t] = "goodbye" /\ UNCHANGED <<at, for, counter, raced, reused>>
        /\ pc' = [pc EXCEPT ![t] = back[t]] /\ back' = [back EXCEPT ![t] = Home(t)]
    BY <1>22 DEF Goodbye, Leave
  <2>2. back[t] = Home(t) \/ (t \in Workers /\ back[t] = "postrecv")
    OBVIOUS
  <2> QED BY <2>1, <2>2
<1>23. ASSUME NEW u \in Conns, Receive(u) PROVE LocalInv'
  BY <1>23 DEF Receive
<1>24. CASE UNCHANGED vars
  BY <1>24 DEF vars
<1> QED
  BY <1>1, <1>2, <1>3, <1>4, <1>5, <1>6, <1>7, <1>8, <1>9, <1>10, <1>11, <1>12, <1>13, <1>14,
     <1>15, <1>16, <1>17, <1>18, <1>19, <1>20, <1>21, <1>22, <1>23, <1>24
  DEF Next, Accepting, Working, Gaming, DisconnectSessionInternal

\* A thread that has not just read the stack holds nothing of it that it will use.
LEMMA HeldKept ==
  ASSUME HeldInv, NEW t \in Threads, copy' = copy, \A v \in Threads \ {t} : pc'[v] = pc[v],
         events' = events \/ events' \in [Conns -> Seq({"CONNECTED", "DISCONNECTED"})],
         pc'[t] \notin {"pop", "return", "pushed"} \/ (pc[t] = "pop" /\ pc'[t] = "return")
  PROVE  HeldInv'
<1>1. events' \in [Conns -> Seq({"CONNECTED", "DISCONNECTED"})]
  BY DEF HeldInv
<1>2. /\ copy' \in [Threads -> [stack : Seq(Entry), id : [index : Slots \cup {0}, unique : 0..MaxConns]]]
      /\ pc'[Acceptor] \in {"pop", "return"} => copy'[Acceptor].id \in Entry
      /\ pc'[Acceptor] = "pop" => /\ copy'[Acceptor].stack # <<>>
                                 /\ copy'[Acceptor].id = copy'[Acceptor].stack[Len(copy'[Acceptor].stack)]
  BY DEF HeldInv, Threads
<1>3. \A v \in Threads : pc'[v] = "pushed" => copy'[v].id \in Entry
  BY DEF HeldInv
<1> QED BY <1>1, <1>2, <1>3 DEF HeldInv

\* What is pushed for the game thread and read of the stack has its type.
LEMMA HeldStep ==
  TypeOK /\ LocalInv /\ HeldInv /\ [Next]_vars => HeldInv'
<1> SUFFICES ASSUME TypeOK, LocalInv, HeldInv, [Next]_vars
             PROVE  HeldInv'
  OBVIOUS
<1> USE PoolAssumption DEF TypeOK, PCs, Threads, Step, Goto, Home, slotVars, poolVars, ioVars,
    localVars, history, LocalInv, AcceptorPCs, WorkerPCs, GamePCs, Closing, HeldInv, Entry, Id,
    NoCopy
<1>1. CASE AcceptReturns
  <2>1. /\ Acceptor \in Threads /\ copy' = copy /\ events' = events
        /\ \A v \in Threads \ {Acceptor} : pc'[v] = pc[v]
    BY <1>1 DEF AcceptReturns
  <2>2. pc'[Acceptor] \notin {"pop", "return", "pushed"}
    BY <1>1 DEF AcceptReturns
  <2> HIDE DEF TypeOK, LocalInv, HeldInv
  <2> QED BY <2>1, <2>2, HeldKept
<1>2. CASE ReadTop
  <2> DEFINE C == [stack : Seq(Entry), id : [index : Slots \cup {0}, unique : 0..MaxConns]]
  <2>1. stack \in Seq(Entry) /\ copy \in [Threads -> C]
    BY DEF Entry
  <2>2. /\ pc[Acceptor] = "release" /\ pc' = [pc EXCEPT ![Acceptor] = pc'[Acceptor]]
        /\ (pc'[Acceptor] = "pop" <=> stack # <<>>) /\ pc'[Acceptor] \in {"pop", "process", "accept"}
        /\ events' = events
    BY <1>2 DEF ReadTop
  <2>3. CASE stack = <<>>
    <3>1. copy' = [copy EXCEPT ![Acceptor] = NoCopy]
      BY <1>2, <2>3 DEF ReadTop
    <3>2. NoCopy \in C
      BY DEF NoCopy, Id
    <3>3. /\ copy' \in [Threads -> C]
          /\ \A t \in Threads \ {Acceptor} : copy'[t] = copy[t] /\ pc'[t] = pc[t]
      <4> HIDE DEF C
      <4> QED BY <2>1, <2>2, <3>1, <3>2
    <3> QED BY <2>2, <2>3, <3>3
  <2>4. CASE stack # <<>>
    <3> DEFINE c == [stack |-> stack, id |-> stack[Len(stack)]]
    <3>1. copy' = [copy EXCEPT ![Acceptor] = c]
      BY <1>2, <2>4 DEF ReadTop
    <3>2. stack[Len(stack)] \in Entry
      <4> HIDE DEF Entry
      <4> QED BY <2>1, <2>4, PopSeq
    <3>3. c \in C /\ c.stack = stack /\ c.id = stack[Len(stack)] /\ c.id \in Entry
      BY <2>1, <3>2
    <3>4. /\ copy'[Acceptor] = c /\ \A t \in Threads \ {Acceptor} : copy'[t] = copy[t] /\ pc'[t] = pc[t]
          /\ copy' \in [Threads -> C]
      <4> HIDE DEF c, C
      <4> QED BY <2>1, <2>2, <3>1, <3>3
    <3> HIDE DEF c
    <3> QED BY <2>2, <2>4, <3>3, <3>4
  <2> QED BY <2>3, <2>4
<1>3. CASE Pop
  <2>1. /\ Acceptor \in Threads /\ copy' = copy /\ events' = events
        /\ \A v \in Threads \ {Acceptor} : pc'[v] = pc[v]
    BY <1>3 DEF Pop
  <2>2. pc[Acceptor] = "pop" /\ pc'[Acceptor] = "return"
    BY <1>3 DEF Pop
  <2> HIDE DEF TypeOK, LocalInv, HeldInv
  <2> QED BY <2>1, <2>2, HeldKept
<1>4. CASE ReturnIndex
  <2>1. /\ Acceptor \in Threads /\ copy' = copy /\ events' = events
        /\ \A v \in Threads \ {Acceptor} : pc'[v] = pc[v]
    BY <1>4 DEF ReturnIndex
  <2>2. pc'[Acceptor] \notin {"pop", "return", "pushed"}
    BY <1>4 DEF ReturnIndex
  <2> HIDE DEF TypeOK, LocalInv, HeldInv
  <2> QED BY <2>1, <2>2, HeldKept
<1>5. CASE TakeIndex
  <2>1. /\ Acceptor \in Threads /\ copy' = copy /\ events' = events
        /\ \A v \in Threads \ {Acceptor} : pc'[v] = pc[v]
    BY <1>5 DEF TakeIndex
  <2>2. pc'[Acceptor] \notin {"pop", "return", "pushed"}
    BY <1>5 DEF TakeIndex
  <2> HIDE DEF TypeOK, LocalInv, HeldInv
  <2> QED BY <2>1, <2>2, HeldKept
<1>6. CASE Initialize
  <2>1. /\ Acceptor \in Threads /\ copy' = copy /\ events' = events
        /\ \A v \in Threads \ {Acceptor} : pc'[v] = pc[v]
    BY <1>6 DEF Initialize
  <2>2. pc'[Acceptor] \notin {"pop", "return", "pushed"}
    BY <1>6 DEF Initialize
  <2> HIDE DEF TypeOK, LocalInv, HeldInv
  <2> QED BY <2>1, <2>2, HeldKept
<1>7. CASE Bind
  <2>1. /\ Acceptor \in Threads /\ copy' = copy /\ events' = events
        /\ \A v \in Threads \ {Acceptor} : pc'[v] = pc[v]
    BY <1>7 DEF Bind
  <2>2. pc'[Acceptor] \notin {"pop", "return", "pushed"}
    BY <1>7 DEF Bind
  <2> HIDE DEF TypeOK, LocalInv, HeldInv
  <2> QED BY <2>1, <2>2, HeldKept
<1>8. CASE Announce
  <2>1. /\ copy' = copy /\ pc[Acceptor] = "announce" /\ pc' = [pc EXCEPT ![Acceptor] = "postrecv"]
        /\ events' = [events EXCEPT ![for[Acceptor]] = Append(events[for[Acceptor]], "CONNECTED")]
    BY <1>8 DEF Announce
  <2>2. events' \in [Conns -> Seq({"CONNECTED", "DISCONNECTED"})]
    <3>1. events \in [Conns -> Seq({"CONNECTED", "DISCONNECTED"})]
      OBVIOUS
    <3>2. for[Acceptor] \in Conns
      BY <2>1 DEF Conns
    <3> HIDE DEF TypeOK, LocalInv, HeldInv
    <3> QED BY <2>1, <3>1, <3>2, PushEvent
  <2> QED BY <2>1, <2>2
<1>9. CASE RequestSendMsg
  <2>1. /\ Game \in Threads /\ copy' = copy /\ events' = events
        /\ \A v \in Threads \ {Game} : pc'[v] = pc[v]
    BY <1>9 DEF RequestSendMsg, FindSession
  <2>2. pc'[Game] \notin {"pop", "return", "pushed"}
    BY <1>9 DEF RequestSendMsg, FindSession
  <2> HIDE DEF TypeOK, LocalInv, HeldInv
  <2> QED BY <2>1, <2>2, HeldKept
<1>10. CASE RequestDisconnectSession
  <2>1. /\ Game \in Threads /\ copy' = copy /\ events' = events
        /\ \A v \in Threads \ {Game} : pc'[v] = pc[v]
    BY <1>10 DEF RequestDisconnectSession, FindSession
  <2>2. pc'[Game] \notin {"pop", "return", "pushed"}
    BY <1>10 DEF RequestDisconnectSession, FindSession
  <2> HIDE DEF TypeOK, LocalInv, HeldInv
  <2> QED BY <2>1, <2>2, HeldKept
<1>11. CASE SendValid
  <2>1. /\ Game \in Threads /\ copy' = copy /\ events' = events
        /\ \A v \in Threads \ {Game} : pc'[v] = pc[v]
    BY <1>11 DEF SendValid
  <2>2. pc'[Game] \notin {"pop", "return", "pushed"}
    BY <1>11 DEF SendValid
  <2> HIDE DEF TypeOK, LocalInv, HeldInv
  <2> QED BY <2>1, <2>2, HeldKept
<1>12. CASE Send
  <2>1. /\ Game \in Threads /\ copy' = copy /\ events' = events
        /\ \A v \in Threads \ {Game} : pc'[v] = pc[v]
    BY <1>12 DEF Send
  <2>2. pc'[Game] \notin {"pop", "return", "pushed"}
    BY <1>12 DEF Send
  <2> HIDE DEF TypeOK, LocalInv, HeldInv
  <2> QED BY <2>1, <2>2, HeldKept
<1>13. ASSUME NEW w \in Workers, TakeCompletion(w) PROVE HeldInv'
  <2>1. /\ w \in Threads /\ copy' = copy /\ events' = events
        /\ \A v \in Threads \ {w} : pc'[v] = pc[v]
    BY <1>13 DEF TakeCompletion
  <2>2. pc'[w] \notin {"pop", "return", "pushed"}
    BY <1>13 DEF TakeCompletion
  <2> HIDE DEF TypeOK, LocalInv, HeldInv
  <2> QED BY <2>1, <2>2, HeldKept
<1>14. ASSUME NEW w \in Workers, CheckSession(w) PROVE HeldInv'
  <2>1. /\ w \in Threads /\ copy' = copy /\ events' = events
        /\ \A v \in Threads \ {w} : pc'[v] = pc[v]
    BY <1>14 DEF CheckSession
  <2>2. pc'[w] \notin {"pop", "return", "pushed"}
    BY <1>14 DEF CheckSession
  <2> HIDE DEF TypeOK, LocalInv, HeldInv
  <2> QED BY <2>1, <2>2, HeldKept
<1>15. ASSUME NEW w \in Workers, Parse(w) PROVE HeldInv'
  <2>1. /\ w \in Threads /\ copy' = copy /\ events' = events
        /\ \A v \in Threads \ {w} : pc'[v] = pc[v]
    BY <1>15 DEF Parse
  <2>2. pc'[w] \notin {"pop", "return", "pushed"}
    BY <1>15 DEF Parse
  <2> HIDE DEF TypeOK, LocalInv, HeldInv
  <2> QED BY <2>1, <2>2, HeldKept
<1>16. ASSUME NEW t \in Threads, PostRecv(t) PROVE HeldInv'
  <2>1. /\ t \in Threads /\ copy' = copy /\ events' = events
        /\ \A v \in Threads \ {t} : pc'[v] = pc[v]
    BY <1>16 DEF PostRecv
  <2>2. pc'[t] \notin {"pop", "return", "pushed"}
    BY <1>16 DEF PostRecv
  <2> HIDE DEF TypeOK, LocalInv, HeldInv
  <2> QED BY <2>1, <2>2, HeldKept
<1>17. ASSUME NEW t \in Threads, Submit(t) PROVE HeldInv'
  <2>1. /\ t \in Threads /\ copy' = copy /\ events' = events
        /\ \A v \in Threads \ {t} : pc'[v] = pc[v]
    BY <1>17 DEF Submit
  <2>2. pc'[t] \notin {"pop", "return", "pushed"}
    BY <1>17 DEF Submit
  <2> HIDE DEF TypeOK, LocalInv, HeldInv
  <2> QED BY <2>1, <2>2, HeldKept
<1>18. ASSUME NEW t \in Threads, Drop(t) PROVE HeldInv'
  <2>1. /\ UNCHANGED <<copy, events>> /\ pc[t] = "drop"
        /\ \E to \in {"close", "postrecv", Home(t)} : pc' = [pc EXCEPT ![t] = to]
    <3>1. /\ back[t] \in {"postrecv", Home(t)}
          /\ (pc' = [pc EXCEPT ![t] = "close"] \/ pc' = [pc EXCEPT ![t] = back[t]])
      BY <1>18 DEF Drop
    <3>2. UNCHANGED <<copy, events>> /\ pc[t] = "drop"
      BY <1>18 DEF Drop
    <3> QED BY <3>1, <3>2
  <2>2. /\ pc'[t] \notin {"pop", "return", "pushed"}
        /\ \A v \in Threads \ {t} : pc'[v] = pc[v]
    BY <2>1
  <2> HIDE DEF TypeOK, LocalInv, HeldInv
  <2> QED BY <2>1, <2>2, HeldKept
<1>19. ASSUME NEW t \in Threads, CloseSocket(t) PROVE HeldInv'
  <2>1. /\ t \in Threads /\ copy' = copy /\ events' = events
        /\ \A v \in Threads \ {t} : pc'[v] = pc[v]
    BY <1>19 DEF CloseSocket
  <2>2. pc'[t] \notin {"pop", "return", "pushed"}
    BY <1>19 DEF CloseSocket
  <2> HIDE DEF TypeOK, LocalInv, HeldInv
  <2> QED BY <2>1, <2>2, HeldKept
<1>20. ASSUME NEW t \in Threads, ReadStack(t) PROVE HeldInv'
  BY <1>20 DEF ReadStack
<1>21. ASSUME NEW t \in Threads, WriteStack(t) PROVE HeldInv'
  <2>1. /\ t \in Threads /\ copy' = copy /\ events' = events
        /\ \A v \in Threads \ {t} : pc'[v] = pc[v]
    BY <1>21 DEF WriteStack
  <2>2. pc'[t] \notin {"pop", "return", "pushed"}
    BY <1>21 DEF WriteStack
  <2> HIDE DEF TypeOK, LocalInv, HeldInv
  <2> QED BY <2>1, <2>2, HeldKept
<1>22. ASSUME NEW t \in Threads, Goodbye(t) PROVE HeldInv'
  <2>1. /\ copy' = copy /\ pc[t] = "goodbye"
        /\ \E to \in {"postrecv", Home(t)} : pc' = [pc EXCEPT ![t] = to]
    BY <1>22 DEF Goodbye, Leave
  <2>2. events' \in [Conns -> Seq({"CONNECTED", "DISCONNECTED"})]
    <3>1. events \in [Conns -> Seq({"CONNECTED", "DISCONNECTED"})]
      OBVIOUS
    <3>2. \/ events' = events
          \/ sid[at[t]] \in Conns /\ events' = [events EXCEPT ![sid[at[t]]] = Append(events[sid[at[t]]], "DISCONNECTED")]
      <4>1. sid[at[t]] # 0 => sid[at[t]] \in Conns
        <5>1. at[t] \in Slots /\ sid \in [Slots -> 0..MaxConns] /\ MaxConns \in Nat
          BY <2>1
        <5> HIDE DEF TypeOK, LocalInv, HeldInv
        <5> QED BY <5>1 DEF Conns
      <4> QED BY <1>22, <4>1 DEF Goodbye
    <3> HIDE DEF TypeOK, LocalInv, HeldInv
    <3>3. CASE events' = events
      BY <3>1, <3>3
    <3>4. CASE sid[at[t]] \in Conns /\ events' = [events EXCEPT ![sid[at[t]]] = Append(events[sid[at[t]]], "DISCONNECTED")]
      BY <3>1, <3>4, PushEvent
    <3> QED BY <3>2, <3>3, <3>4
  <2>3. /\ pc'[t] \notin {"pop", "return", "pushed"}
        /\ \A v \in Threads \ {t} : pc'[v] = pc[v]
    BY <2>1
  <2> HIDE DEF TypeOK, LocalInv, HeldInv
  <2> QED BY <2>1, <2>2, <2>3, HeldKept
<1>23. ASSUME NEW u \in Conns, Receive(u) PROVE HeldInv'
  BY <1>23 DEF Receive
<1>24. CASE UNCHANGED vars
  BY <1>24, Zenon DEF vars
<1> QED
  BY <1>1, <1>2, <1>3, <1>4, <1>5, <1>6, <1>7, <1>8, <1>9, <1>10, <1>11, <1>12, <1>13, <1>14,
     <1>15, <1>16, <1>17, <1>18, <1>19, <1>20, <1>21, <1>22, <1>23, <1>24
  DEF Next, Accepting, Working, Gaming, DisconnectSessionInternal

\* What reused and raced record is never taken back.
LEMMA HistoryStays ==
  TypeOK /\ LocalInv /\ [Next]_vars => (reused => reused') /\ (raced => raced')
BY Zenon DEF TypeOK, LocalInv, Next, vars, Accepting, Working, Gaming, DisconnectSessionInternal,
    history,
       AcceptReturns, ReadTop, Pop, ReturnIndex, TakeIndex, Initialize, Bind, Announce,
       RequestSendMsg, RequestDisconnectSession, FindSession, SendValid, Send, localVars,
       TakeCompletion, CheckSession, Parse, PostRecv, Submit, Receive,
       Drop, CloseSocket, ReadStack, WriteStack, Goodbye

\* What the types and the places in the code say, in the form the proofs below use.
LEMMA Shape ==
  ASSUME TypeOK, LocalInv, HeldInv
  PROVE  /\ sid \in [Slots -> 0..MaxConns] /\ MaxConns \in Nat
         /\ sock \in [Slots -> 0..MaxConns]
         /\ pc \in [Threads -> PCs] /\ Acceptor \in Threads /\ Game \in Threads
         /\ counter \in Nat /\ counter \in 0..MaxConns
         /\ ioId \in [Slots -> 0..MaxConns]
         /\ at \in [Threads -> Slots \cup {0}]
         /\ for \in [Threads -> 0..MaxConns]
         /\ slotOf \in [Conns -> Slots \cup {0}] /\ 0 \notin Slots
         /\ pending \in [Conns -> Nat]
         /\ port \in Seq(Completion)
         /\ valid \in [Slots -> BOOLEAN]
         /\ back \in [Threads -> PCs]
         /\ \A t \in Threads : pc[t] \in {"drop"} \cup Closing => back[t] \in {"postrecv", "idle", "accept"}
         /\ copy \in [Threads -> [stack : Seq(Entry), id : [index : Slots \cup {0}, unique : 0..MaxConns]]]
         /\ stack \in Seq(Entry)
         /\ available \in Seq(Slots)
         /\ events \in [Conns -> Seq({"CONNECTED", "DISCONNECTED"})]
         /\ pc[Acceptor] = "initialize" =>
              for[Acceptor] = counter /\ counter > 0 /\ counter \in Conns /\ at[Acceptor] \in Slots
         /\ \A t \in Threads : pc[t] \notin {"idle", "accept", "release", "pop", "return", "process"} =>
              at[t] \in Slots
         /\ pc[Acceptor] \in {"bind", "announce"} =>
              for[Acceptor] = counter /\ counter > 0 /\ counter \in Conns /\ at[Acceptor] \in Slots
         /\ pc[Acceptor] = "process" => for[Acceptor] = counter + 1
         /\ \A t \in Threads : Home(t) = IF t = Acceptor THEN "accept" ELSE "idle"
         /\ Acceptor \notin Workers /\ Game \notin Workers /\ Game # Acceptor
         /\ \A t \in Threads : pc[t] \in {"idle", "check", "parse", "sendvalid", "send"} => t # Acceptor
         /\ pc[Game] \notin {"check", "parse", "postrecv", "submit", "initialize", "bind", "announce"}
         /\ \A t \in Threads : pc[t] \in {"accept", "release", "pop", "return", "process", "initialize", "bind", "announce"} =>
              t = Acceptor
<1> USE PoolAssumption DEF Threads
<1>1. sid \in [Slots -> 0..MaxConns] /\ MaxConns \in Nat
  BY DEF TypeOK, LocalInv, HeldInv, Completion, Entry
<1>2. sock \in [Slots -> 0..MaxConns]
  BY DEF TypeOK, LocalInv, HeldInv, Completion, Entry
<1>3. pc \in [Threads -> PCs] /\ Acceptor \in Threads /\ Game \in Threads
  BY DEF TypeOK, LocalInv, HeldInv, Completion, Entry
<1>4. counter \in Nat /\ counter \in 0..MaxConns
  BY DEF TypeOK, LocalInv, HeldInv, Completion, Entry
<1>5. ioId \in [Slots -> 0..MaxConns]
  BY DEF TypeOK, LocalInv, HeldInv, Completion, Entry
<1>6. at \in [Threads -> Slots \cup {0}]
  BY DEF TypeOK, LocalInv, HeldInv, Completion, Entry
<1>7. for \in [Threads -> 0..MaxConns]
  BY DEF TypeOK, LocalInv, HeldInv, Completion, Entry
<1>8. slotOf \in [Conns -> Slots \cup {0}] /\ 0 \notin Slots
  BY DEF TypeOK, LocalInv, HeldInv, Completion, Entry
<1>9. pending \in [Conns -> Nat]
  BY DEF TypeOK, LocalInv, HeldInv, Completion, Entry
<1>10. port \in Seq(Completion)
  BY DEF TypeOK, LocalInv, HeldInv, Completion, Entry
<1>11. valid \in [Slots -> BOOLEAN]
  BY DEF TypeOK, LocalInv, HeldInv, Completion, Entry
<1>12. back \in [Threads -> PCs]
  BY DEF TypeOK, LocalInv, HeldInv, Closing, Home, AcceptorPCs, WorkerPCs, GamePCs
<1>13. \A t \in Threads : pc[t] \in {"drop"} \cup Closing => back[t] \in {"postrecv", "idle", "accept"}
  BY DEF TypeOK, LocalInv, HeldInv, Closing, Home, AcceptorPCs, WorkerPCs, GamePCs
<1>14. copy \in [Threads -> [stack : Seq(Entry), id : [index : Slots \cup {0}, unique : 0..MaxConns]]]
  BY DEF TypeOK, LocalInv, HeldInv, Completion, Entry
<1>15. stack \in Seq(Entry)
  BY DEF TypeOK, LocalInv, HeldInv, Completion, Entry
<1>16. available \in Seq(Slots)
  BY DEF TypeOK, LocalInv, HeldInv, Completion, Entry
<1>17. events \in [Conns -> Seq({"CONNECTED", "DISCONNECTED"})]
  BY DEF TypeOK, LocalInv, HeldInv, Completion, Entry
<1>18. pc[Acceptor] = "initialize" =>
         for[Acceptor] = counter /\ counter > 0 /\ counter \in Conns /\ at[Acceptor] \in Slots
  <2>1. counter \in 0..MaxConns /\ MaxConns \in Nat
    BY DEF TypeOK
  <2>2. pc[Acceptor] = "initialize" => for[Acceptor] = counter /\ counter > 0 /\ at[Acceptor] \in Slots
    BY DEF LocalInv
  <2> QED BY <2>1, <2>2 DEF Conns
<1>19. \A t \in Threads : pc[t] \notin {"idle", "accept", "release", "pop", "return", "process"} =>
         at[t] \in Slots
  BY DEF TypeOK, LocalInv, HeldInv, Closing, Home, AcceptorPCs, WorkerPCs, GamePCs
<1>20. pc[Acceptor] \in {"bind", "announce"} =>
         for[Acceptor] = counter /\ counter > 0 /\ counter \in Conns /\ at[Acceptor] \in Slots
  <2>1. counter \in 0..MaxConns /\ MaxConns \in Nat
    BY DEF TypeOK
  <2>2. pc[Acceptor] \in {"bind", "announce"} =>
          for[Acceptor] = counter /\ counter > 0 /\ at[Acceptor] \in Slots
    BY DEF LocalInv
  <2> QED BY <2>1, <2>2 DEF Conns
<1>21. pc[Acceptor] = "process" => for[Acceptor] = counter + 1
  BY DEF TypeOK, LocalInv, HeldInv, Closing, Home, AcceptorPCs, WorkerPCs, GamePCs
<1>22. \A t \in Threads : Home(t) = IF t = Acceptor THEN "accept" ELSE "idle"
  BY DEF TypeOK, LocalInv, HeldInv, Closing, Home, AcceptorPCs, WorkerPCs, GamePCs
<1>23. Acceptor \notin Workers /\ Game \notin Workers /\ Game # Acceptor
  BY DEF TypeOK, LocalInv, HeldInv, Completion, Entry
<1>24. \A t \in Threads : pc[t] \in {"idle", "check", "parse", "sendvalid", "send"} => t # Acceptor
  BY DEF TypeOK, LocalInv, HeldInv, Closing, Home, AcceptorPCs, WorkerPCs, GamePCs
<1>25. pc[Game] \notin {"check", "parse", "postrecv", "submit", "initialize", "bind", "announce"}
  BY DEF TypeOK, LocalInv, HeldInv, Closing, Home, AcceptorPCs, WorkerPCs, GamePCs
<1>26. \A t \in Threads : pc[t] \in {"accept", "release", "pop", "return", "process", "initialize", "bind", "announce"} =>
         t = Acceptor
  BY DEF TypeOK, LocalInv, HeldInv, Closing, Home, AcceptorPCs, WorkerPCs, GamePCs
<1> QED BY <1>1, <1>2, <1>3, <1>4, <1>5, <1>6, <1>7, <1>8, <1>9, <1>10, <1>11, <1>12, <1>13,
    <1>14, <1>15, <1>16, <1>17, <1>18, <1>19, <1>20, <1>21, <1>22, <1>23, <1>24, <1>25, <1>26

\* Initialize gives its slot a number no slot has, and only it changes one.
LEMMA OwnStep ==
  TypeOK /\ LocalInv /\ HeldInv /\ OwnInv
    /\ [Next]_vars => OwnInv'
<1> SUFFICES ASSUME TypeOK, LocalInv, HeldInv, OwnInv, [Next]_vars
             PROVE  OwnInv'
  OBVIOUS
<1> USE PoolAssumption DEF Threads, Step, Goto, slotVars, poolVars, ioVars, localVars, history,
    OwnInv
<1>0. /\ sid \in [Slots -> 0..MaxConns] /\ MaxConns \in Nat
      /\ sock \in [Slots -> 0..MaxConns]
      /\ counter \in Nat /\ counter \in 0..MaxConns
      /\ ioId \in [Slots -> 0..MaxConns]
      /\ pc \in [Threads -> PCs] /\ Acceptor \in Threads /\ Game \in Threads
      /\ pc[Acceptor] = "initialize" =>
           for[Acceptor] = counter /\ counter > 0 /\ counter \in Conns /\ at[Acceptor] \in Slots
      /\ back \in [Threads -> PCs]
      /\ \A t \in Threads : pc[t] \in {"drop"} \cup Closing => back[t] \in {"postrecv", "idle", "accept"}
      /\ Acceptor \notin Workers /\ Game \notin Workers /\ Game # Acceptor
      /\ \A t \in Threads : pc[t] \in {"idle", "check", "parse", "sendvalid", "send"} => t # Acceptor
      /\ pc[Game] \notin {"check", "parse", "postrecv", "submit", "initialize", "bind", "announce"}
      /\ \A t \in Threads : pc[t] \in {"accept", "release", "pop", "return", "process", "initialize", "bind", "announce"} =>
           t = Acceptor
      /\ \A t \in Threads : Home(t) = IF t = Acceptor THEN "accept" ELSE "idle"
  BY Shape
<1> USE <1>0
<1>1. CASE AcceptReturns
  BY <1>1 DEF AcceptReturns
<1>2. CASE ReadTop
  BY <1>2 DEF ReadTop
<1>3. CASE Pop
  BY <1>3 DEF Pop
<1>4. CASE ReturnIndex
  <2>1. /\ UNCHANGED <<sid, ioId, counter>> /\ pc' = [pc EXCEPT ![Acceptor] = "release"]
        /\ \A i \in Slots : sock'[i] \in {0, sock[i]}
    BY <1>4 DEF ReturnIndex, CloseSocketOf
  <2> QED BY <2>1
<1>5. CASE TakeIndex
  BY <1>5 DEF TakeIndex
<1>6. CASE Initialize
  BY <1>6 DEF Initialize
<1>7. CASE Bind
  BY <1>7 DEF Bind
<1>8. CASE Announce
  BY <1>8 DEF Announce
<1>9. CASE RequestSendMsg
  BY <1>9 DEF RequestSendMsg, FindSession
<1>10. CASE RequestDisconnectSession
  BY <1>10 DEF RequestDisconnectSession, FindSession
<1>11. CASE SendValid
  BY <1>11 DEF SendValid
<1>12. CASE Send
  BY <1>12 DEF Send
<1>13. ASSUME NEW w \in Workers, TakeCompletion(w) PROVE OwnInv'
  BY <1>13 DEF TakeCompletion
<1>14. ASSUME NEW w \in Workers, CheckSession(w) PROVE OwnInv'
  BY <1>14 DEF CheckSession
<1>15. ASSUME NEW w \in Workers, Parse(w) PROVE OwnInv'
  BY <1>15 DEF Parse
<1>16. ASSUME NEW t \in Threads, PostRecv(t) PROVE OwnInv'
  BY <1>16 DEF PostRecv
<1>17. ASSUME NEW t \in Threads, Submit(t) PROVE OwnInv'
  BY <1>17 DEF Submit
<1>18. ASSUME NEW t \in Threads, Drop(t) PROVE OwnInv'
  BY <1>18 DEF Drop
<1>19. ASSUME NEW t \in Threads, CloseSocket(t) PROVE OwnInv'
  <2>1. /\ sock' = [sock EXCEPT ![at[t]] = 0] /\ UNCHANGED <<sid, ioId, counter>> /\ pc[t] = "close"
        /\ pc' = [pc EXCEPT ![t] = "push"]
    BY <1>19 DEF CloseSocket, CloseSocketOf
  <2> QED BY <2>1
<1>20. ASSUME NEW t \in Threads, ReadStack(t) PROVE OwnInv'
  BY <1>20 DEF ReadStack
<1>21. ASSUME NEW t \in Threads, WriteStack(t) PROVE OwnInv'
  BY <1>21 DEF WriteStack
<1>22. ASSUME NEW t \in Threads, Goodbye(t) PROVE OwnInv'
  <2>1. UNCHANGED <<sid, ioId, sock, counter>> /\ pc[t] = "goodbye" /\ pc' = [pc EXCEPT ![t] = back[t]]
    BY <1>22 DEF Goodbye, Leave
  <2> QED BY <2>1 DEF Closing
<1>23. ASSUME NEW u \in Conns, Receive(u) PROVE OwnInv'
  BY <1>23 DEF Receive
<1>24. CASE UNCHANGED vars
  BY <1>24 DEF vars
<1> QED
  BY <1>1, <1>2, <1>3, <1>4, <1>5, <1>6, <1>7, <1>8, <1>9, <1>10, <1>11, <1>12, <1>13, <1>14,
     <1>15, <1>16, <1>17, <1>18, <1>19, <1>20, <1>21, <1>22, <1>23, <1>24
  DEF Next, Accepting, Working, Gaming, DisconnectSessionInternal

\* A connection is known of only from its Initialize on.
LEMMA FreshStep ==
  TypeOK /\ LocalInv /\ HeldInv /\ OwnInv /\ FreshInv
    /\ [Next]_vars => FreshInv'
<1> SUFFICES ASSUME TypeOK, LocalInv, HeldInv, OwnInv, FreshInv, [Next]_vars
             PROVE  FreshInv'
  OBVIOUS
<1> USE PoolAssumption DEF Threads, Step, Goto, slotVars, poolVars, ioVars, localVars, history,
    OwnInv, FreshInv
<1>0. /\ sid \in [Slots -> 0..MaxConns] /\ MaxConns \in Nat
      /\ sock \in [Slots -> 0..MaxConns]
      /\ counter \in Nat /\ counter \in 0..MaxConns
      /\ pc \in [Threads -> PCs] /\ Acceptor \in Threads /\ Game \in Threads
      /\ pc[Acceptor] = "initialize" =>
           for[Acceptor] = counter /\ counter > 0 /\ counter \in Conns /\ at[Acceptor] \in Slots
      /\ pc[Acceptor] \in {"bind", "announce"} =>
           for[Acceptor] = counter /\ counter > 0 /\ counter \in Conns /\ at[Acceptor] \in Slots
      /\ slotOf \in [Conns -> Slots \cup {0}] /\ 0 \notin Slots
      /\ events \in [Conns -> Seq({"CONNECTED", "DISCONNECTED"})]
      /\ back \in [Threads -> PCs]
      /\ \A t \in Threads : pc[t] \in {"drop"} \cup Closing => back[t] \in {"postrecv", "idle", "accept"}
      /\ \A t \in Threads : pc[t] \notin {"idle", "accept", "release", "pop", "return", "process"} =>
           at[t] \in Slots
      /\ pc[Acceptor] = "process" => for[Acceptor] = counter + 1
      /\ \A t \in Threads : Home(t) = IF t = Acceptor THEN "accept" ELSE "idle"
  BY Shape
<1> USE <1>0
<1>1. CASE AcceptReturns
  BY <1>1 DEF AcceptReturns
<1>2. CASE ReadTop
  BY <1>2 DEF ReadTop
<1>3. CASE Pop
  BY <1>3 DEF Pop
<1>4. CASE ReturnIndex
  BY <1>4 DEF ReturnIndex
<1>5. CASE TakeIndex
  <2>1. UNCHANGED <<events, slotOf>> /\ pc[Acceptor] = "process"
    BY <1>5 DEF TakeIndex
  <2>2. CASE counter' = counter /\ pc' = [pc EXCEPT ![Acceptor] = "accept"]
    BY <2>1, <2>2
  <2>3. CASE counter' = counter + 1 /\ pc' = [pc EXCEPT ![Acceptor] = "initialize"]
    BY <2>1, <2>3 DEF Conns
  <2> QED BY <1>5, <2>2, <2>3 DEF TakeIndex
<1>6. CASE Initialize
  BY <1>6 DEF Initialize
<1>7. CASE Bind
  BY <1>7 DEF Bind
<1>8. CASE Announce
  BY <1>8 DEF Announce
<1>9. CASE RequestSendMsg
  BY <1>9 DEF RequestSendMsg, FindSession
<1>10. CASE RequestDisconnectSession
  BY <1>10 DEF RequestDisconnectSession, FindSession
<1>11. CASE SendValid
  BY <1>11 DEF SendValid
<1>12. CASE Send
  BY <1>12 DEF Send
<1>13. ASSUME NEW w \in Workers, TakeCompletion(w) PROVE FreshInv'
  BY <1>13 DEF TakeCompletion
<1>14. ASSUME NEW w \in Workers, CheckSession(w) PROVE FreshInv'
  BY <1>14 DEF CheckSession
<1>15. ASSUME NEW w \in Workers, Parse(w) PROVE FreshInv'
  BY <1>15 DEF Parse
<1>16. ASSUME NEW t \in Threads, PostRecv(t) PROVE FreshInv'
  BY <1>16 DEF PostRecv
<1>17. ASSUME NEW t \in Threads, Submit(t) PROVE FreshInv'
  BY <1>17 DEF Submit
<1>18. ASSUME NEW t \in Threads, Drop(t) PROVE FreshInv'
  BY <1>18 DEF Drop
<1>19. ASSUME NEW t \in Threads, CloseSocket(t) PROVE FreshInv'
  <2>1. /\ UNCHANGED <<events, slotOf, counter>> /\ pc[t] = "close" /\ pc' = [pc EXCEPT ![t] = "push"]
    BY <1>19 DEF CloseSocket
  <2> QED BY <2>1
<1>20. ASSUME NEW t \in Threads, ReadStack(t) PROVE FreshInv'
  BY <1>20 DEF ReadStack
<1>21. ASSUME NEW t \in Threads, WriteStack(t) PROVE FreshInv'
  BY <1>21 DEF WriteStack
<1>22. ASSUME NEW t \in Threads, Goodbye(t) PROVE FreshInv'
  <2>1. /\ UNCHANGED <<slotOf, counter>> /\ pc[t] = "goodbye" /\ pc' = [pc EXCEPT ![t] = back[t]]
        /\ \A u \in Conns : events'[u] = events[u] \/ u = sid[at[t]]
    BY <1>22 DEF Goodbye, Leave
  <2>2. at[t] \in Slots /\ back[t] \in {"postrecv", "idle", "accept"}
    BY <2>1 DEF Closing
  <2> QED BY <2>1, <2>2
<1>23. ASSUME NEW u \in Conns, Receive(u) PROVE FreshInv'
  BY <1>23 DEF Receive
<1>24. CASE UNCHANGED vars
  BY <1>24 DEF vars
<1> QED
  BY <1>1, <1>2, <1>3, <1>4, <1>5, <1>6, <1>7, <1>8, <1>9, <1>10, <1>11, <1>12, <1>13, <1>14,
     <1>15, <1>16, <1>17, <1>18, <1>19, <1>20, <1>21, <1>22, <1>23, <1>24
  DEF Next, Accepting, Working, Gaming, DisconnectSessionInternal

\* A thread that took a completion or found a session works for the connection the
\* slot has: its being in flight keeps the slot from being reused under it.
LEMMA ServeStep ==
  TypeOK /\ LocalInv /\ HeldInv /\ OwnInv /\ WireInv /\ ServeInv /\ ~reused'
    /\ [Next]_vars => ServeInv'
<1> SUFFICES ASSUME TypeOK, LocalInv, HeldInv, OwnInv, WireInv, ServeInv, ~reused', [Next]_vars
             PROVE  ServeInv'
  OBVIOUS
<1> USE PoolAssumption DEF Threads, Step, Goto, slotVars, poolVars, ioVars, localVars, history,
    ServeInv, Serving, Touch, InFlight
<1>0. /\ sid \in [Slots -> 0..MaxConns] /\ MaxConns \in Nat
      /\ sock \in [Slots -> 0..MaxConns]
      /\ counter \in Nat /\ counter \in 0..MaxConns
      /\ pc \in [Threads -> PCs] /\ Acceptor \in Threads /\ Game \in Threads
      /\ pc[Acceptor] = "initialize" =>
           for[Acceptor] = counter /\ counter > 0 /\ counter \in Conns /\ at[Acceptor] \in Slots
      /\ at \in [Threads -> Slots \cup {0}]
      /\ for \in [Threads -> 0..MaxConns]
      /\ port \in Seq(Completion)
      /\ copy \in [Threads -> [stack : Seq(Entry), id : [index : Slots \cup {0}, unique : 0..MaxConns]]]
      /\ back \in [Threads -> PCs]
      /\ \A t \in Threads : pc[t] \in {"drop"} \cup Closing => back[t] \in {"postrecv", "idle", "accept"}
      /\ \A t \in Threads : pc[t] \notin {"idle", "accept", "release", "pop", "return", "process"} =>
           at[t] \in Slots
      /\ Acceptor \notin Workers /\ Game \notin Workers /\ Game # Acceptor
      /\ \A t \in Threads : pc[t] \in {"idle", "check", "parse", "sendvalid", "send"} => t # Acceptor
      /\ pc[Game] \notin {"check", "parse", "postrecv", "submit", "initialize", "bind", "announce"}
      /\ \A t \in Threads : pc[t] \in {"accept", "release", "pop", "return", "process", "initialize", "bind", "announce"} =>
           t = Acceptor
      /\ \A t \in Threads : Home(t) = IF t = Acceptor THEN "accept" ELSE "idle"
  BY Shape
<1> USE <1>0
<1>1. CASE AcceptReturns
  BY <1>1 DEF AcceptReturns
<1>2. CASE ReadTop
  BY <1>2 DEF ReadTop
<1>3. CASE Pop
  BY <1>3 DEF Pop
<1>4. CASE ReturnIndex
  BY <1>4 DEF ReturnIndex
<1>5. CASE TakeIndex
  <2>1. /\ pc[Acceptor] = "process" /\ pc' = [pc EXCEPT ![Acceptor] = pc'[Acceptor]]
        /\ pc'[Acceptor] \in {"accept", "initialize"}
        /\ \A t \in Threads \ {Acceptor} : at'[t] = at[t]
        /\ UNCHANGED <<sid, for, copy, crossed>>
    BY <1>5 DEF TakeIndex
  <2> QED BY <2>1
<1>6. CASE Initialize
  BY <1>6 DEF Initialize
<1>7. CASE Bind
  BY <1>7 DEF Bind
<1>8. CASE Announce
  BY <1>8 DEF Announce
<1>9. CASE RequestSendMsg
  BY <1>9 DEF RequestSendMsg, FindSession
<1>10. CASE RequestDisconnectSession
  BY <1>10 DEF RequestDisconnectSession, FindSession
<1>11. CASE SendValid
  BY <1>11 DEF SendValid
<1>12. CASE Send
  BY <1>12 DEF Send
<1>13. ASSUME NEW w \in Workers, TakeCompletion(w) PROVE ServeInv'
  <2>1. /\ at' = [at EXCEPT ![w] = port[1].slot] /\ for' = [for EXCEPT ![w] = port[1].conn]
        /\ pc' = [pc EXCEPT ![w] = IF port[1].ok THEN "check" ELSE "drop"] /\ Len(port) > 0
    BY <1>13, TakeEffect
  <2>2. 1 \in 1..Len(port)
    BY <2>1 DEF TypeOK
  <2>3. sid[port[1].slot] = port[1].conn
    BY <2>2 DEF WireInv
  <2>4. UNCHANGED <<sid, copy, crossed>>
    BY <1>13 DEF TakeCompletion
  <2> QED BY <2>1, <2>3, <2>4
<1>14. ASSUME NEW w \in Workers, CheckSession(w) PROVE ServeInv'
  BY <1>14 DEF CheckSession
<1>15. ASSUME NEW w \in Workers, Parse(w) PROVE ServeInv'
  BY <1>15 DEF Parse
<1>16. ASSUME NEW t \in Threads, PostRecv(t) PROVE ServeInv'
  BY <1>16 DEF PostRecv
<1>17. ASSUME NEW t \in Threads, Submit(t) PROVE ServeInv'
  BY <1>17 DEF Submit
<1>18. ASSUME NEW t \in Threads, Drop(t) PROVE ServeInv'
  <2>1. /\ pc[t] = "drop" /\ pc' = [pc EXCEPT ![t] = pc'[t]]
        /\ pc'[t] \in {"close", "postrecv", "idle", "accept"}
        /\ UNCHANGED <<sid, at, for, copy>>
    BY <1>18 DEF Drop
  <2>2. for[t] = sid[at[t]]
    BY <2>1
  <2>3. crossed' = {}
    BY <1>18, <2>2 DEF Drop
  <2> QED BY <2>1, <2>3
<1>19. ASSUME NEW t \in Threads, CloseSocket(t) PROVE ServeInv'
  BY <1>19 DEF CloseSocket
<1>20. ASSUME NEW t \in Threads, ReadStack(t) PROVE ServeInv'
  BY <1>20 DEF ReadStack
<1>21. ASSUME NEW t \in Threads, WriteStack(t) PROVE ServeInv'
  BY <1>21 DEF WriteStack
<1>22. ASSUME NEW t \in Threads, Goodbye(t) PROVE ServeInv'
  <2>1. /\ UNCHANGED <<sid, at, for, copy>> /\ pc[t] = "goodbye" /\ pc' = [pc EXCEPT ![t] = back[t]]
        /\ back[t] \in {"postrecv", "idle", "accept"}
    BY <1>22 DEF Goodbye, Leave, Closing
  <2>2. copy[t].id = Id(at[t], sid[at[t]])
    BY <2>1
  <2>3. crossed' = {}
    BY <1>22, <2>2 DEF Goodbye, Id
  <2> QED BY <2>1, <2>3
<1>23. ASSUME NEW u \in Conns, Receive(u) PROVE ServeInv'
  BY <1>23 DEF Receive
<1>24. CASE UNCHANGED vars
  BY <1>24 DEF vars
<1> QED
  BY <1>1, <1>2, <1>3, <1>4, <1>5, <1>6, <1>7, <1>8, <1>9, <1>10, <1>11, <1>12, <1>13, <1>14,
     <1>15, <1>16, <1>17, <1>18, <1>19, <1>20, <1>21, <1>22, <1>23, <1>24
  DEF Next, Accepting, Working, Gaming, DisconnectSessionInternal

\* closesocket reports receives of the connection that holds the slot.
LEMMA WireClose ==
  ASSUME TypeOK, LocalInv, HeldInv, WireInv, NEW i \in Slots, CloseSocketOf(i), UNCHANGED <<sid, slotOf>>
  PROVE  WireInv'
<1> DEFINE u == sock[i]
           n == IF u = 0 THEN 0 ELSE IF slotOf[u] = 0 THEN 0 ELSE pending[u]
<1>1. /\ n \in Nat /\ Len(port') = Len(port) + n /\ port \in Seq(Completion)
      /\ \A v \in Conns : pending'[v] = IF v = u THEN 0 ELSE pending[v]
      /\ \A k \in 1..Len(port) : port'[k] = port[k]
      /\ \A k \in Len(port) + 1..Len(port') : port'[k] = Failed(u)
  BY CloseEffect, Shape
<1>2. u \in Conns \/ u = 0
  BY Shape DEF Conns
<1>3. ASSUME NEW k \in 1..Len(port') PROVE sid[port'[k].slot] = port'[k].conn
  <2>1. CASE k \in 1..Len(port)
    BY <1>1, <2>1 DEF WireInv
  <2>2. CASE k \in Len(port) + 1..Len(port')
    <3>1. n > 0
      BY <1>1, <2>2
    <3>2. u \in Conns /\ pending[u] > 0
      BY <1>1, <1>2, <3>1
    <3>3. sid[slotOf[u]] = u
      BY <3>2 DEF WireInv
    <3> QED BY <1>1, <2>2, <3>3 DEF Failed
  <2> QED BY <1>1, <2>1, <2>2
<1> QED BY <1>1, <1>3 DEF WireInv

\* Receives are posted on the socket the slot has, and reported with its key.
LEMMA WireStep ==
  TypeOK /\ LocalInv /\ HeldInv /\ OwnInv /\ WireInv /\ ServeInv
    /\ (\A i \in Slots : SessionInv(i)) /\ ~reused'
    /\ [Next]_vars => WireInv'
<1> SUFFICES ASSUME TypeOK, LocalInv, HeldInv, OwnInv, WireInv, ServeInv,
    (\A i \in Slots : SessionInv(i)), ~reused', [Next]_vars
             PROVE  WireInv'
  OBVIOUS
<1> USE PoolAssumption DEF Threads, Step, Goto, slotVars, poolVars, ioVars, localVars, history,
    WireInv
<1>0. /\ sid \in [Slots -> 0..MaxConns] /\ MaxConns \in Nat
      /\ sock \in [Slots -> 0..MaxConns]
      /\ counter \in Nat /\ counter \in 0..MaxConns
      /\ pc \in [Threads -> PCs] /\ Acceptor \in Threads /\ Game \in Threads
      /\ pc[Acceptor] = "initialize" =>
           for[Acceptor] = counter /\ counter > 0 /\ counter \in Conns /\ at[Acceptor] \in Slots
      /\ pc[Acceptor] \in {"bind", "announce"} =>
           for[Acceptor] = counter /\ counter > 0 /\ counter \in Conns /\ at[Acceptor] \in Slots
      /\ slotOf \in [Conns -> Slots \cup {0}] /\ 0 \notin Slots
      /\ pending \in [Conns -> Nat]
      /\ port \in Seq(Completion)
      /\ at \in [Threads -> Slots \cup {0}]
      /\ for \in [Threads -> 0..MaxConns]
      /\ \A t \in Threads : pc[t] \notin {"idle", "accept", "release", "pop", "return", "process"} =>
           at[t] \in Slots
  BY Shape
<1> USE <1>0
<1>1. CASE AcceptReturns
  BY <1>1 DEF AcceptReturns
<1>2. CASE ReadTop
  BY <1>2 DEF ReadTop
<1>3. CASE Pop
  BY <1>3 DEF Pop
<1>4. CASE ReturnIndex
  <2> DEFINE i == copy[Acceptor].id.index
  <2>1. CASE CloseSocketOf(i)
    <3>1. i \in Slots /\ UNCHANGED <<sid, slotOf>>
      BY <1>4 DEF ReturnIndex, HeldInv, Entry
    <3> HIDE DEF i
    <3> QED BY <2>1, <3>1, WireClose
  <2>2. CASE UNCHANGED <<sid, slotOf, pending, port>>
    BY <2>2
  <2> QED BY <1>4, <2>1, <2>2 DEF ReturnIndex
<1>5. CASE TakeIndex
  BY <1>5 DEF TakeIndex
<1>6. CASE Initialize
  <2>1. /\ ~InFlight(at[Acceptor]) /\ UNCHANGED <<slotOf, pending, port>> /\ pc[Acceptor] = "initialize"
        /\ \A i \in Slots \ {at[Acceptor]} : sid'[i] = sid[i]
    BY <1>6 DEF Initialize
  <2>2. \A k \in 1..Len(port) : port[k].slot \in Slots \ {at[Acceptor]}
    <3>1. \A k \in 1..Len(port) : port[k] \in Completion
      OBVIOUS
    <3> QED BY <2>1, <3>1 DEF InFlight, Completion
  <2>3. \A u \in Conns : pending[u] > 0 => slotOf[u] # at[Acceptor]
    BY <2>1 DEF InFlight
  <2> QED BY <2>1, <2>2, <2>3
<1>7. CASE Bind
  <2>1. /\ pc[Acceptor] = "bind" /\ UNCHANGED <<sid, pending, port>>
        /\ slotOf' = slotOf \/ slotOf' = [slotOf EXCEPT ![for[Acceptor]] = at[Acceptor]]
    BY <1>7 DEF Bind
  <2>2. for[Acceptor] = sid[at[Acceptor]] /\ at[Acceptor] \in Slots
    BY <2>1 DEF ServeInv, Serving
  <2> QED BY <2>1, <2>2
<1>8. CASE Announce
  BY <1>8 DEF Announce
<1>9. CASE RequestSendMsg
  BY <1>9 DEF RequestSendMsg, FindSession
<1>10. CASE RequestDisconnectSession
  BY <1>10 DEF RequestDisconnectSession, FindSession
<1>11. CASE SendValid
  BY <1>11 DEF SendValid
<1>12. CASE Send
  BY <1>12 DEF Send
<1>13. ASSUME NEW w \in Workers, TakeCompletion(w) PROVE WireInv'
  <2>1. Len(port') = Len(port) - 1 /\ \A k \in 1..Len(port') : port'[k] = port[k + 1]
    BY <1>13, TakeEffect
  <2>2. UNCHANGED <<sid, slotOf, pending>>
    BY <1>13 DEF TakeCompletion
  <2>3. \A k \in 1..Len(port') : sid'[port'[k].slot] = port'[k].conn
    <3>1. Len(port) \in Nat /\ \A k \in 1..Len(port') : k + 1 \in 1..Len(port)
      BY <2>1
    <3>2. ASSUME NEW k \in 1..Len(port') PROVE sid[port[k + 1].slot] = port[k + 1].conn
      BY <3>1
    <3> QED BY <2>1, <2>2, <3>2
  <2> QED BY <2>2, <2>3
<1>14. ASSUME NEW w \in Workers, CheckSession(w) PROVE WireInv'
  BY <1>14 DEF CheckSession
<1>15. ASSUME NEW w \in Workers, Parse(w) PROVE WireInv'
  BY <1>15 DEF Parse
<1>16. ASSUME NEW t \in Threads, PostRecv(t) PROVE WireInv'
  BY <1>16 DEF PostRecv
<1>17. ASSUME NEW t \in Threads, Submit(t) PROVE WireInv'
  <2> DEFINE i == at[t]
  <2>1. i \in Slots /\ UNCHANGED <<sid, slotOf, port>> /\ pc[t] = "submit"
    BY <1>17 DEF Submit
  <2>2. CASE pending' = pending
    BY <2>1, <2>2
  <2>3. CASE sock[i] # 0 /\ pending' = [pending EXCEPT ![sock[i]] = pending[sock[i]] + 1]
    <3>1. sock[i] = sid[i]
      BY <2>1, <2>3 DEF OwnInv
    <3>2. ~Vacant(i) /\ ~Binding(i)
      BY <2>1, <2>3 DEF SessionInv, QuietInv, Vacant, Binding, Presenting, InFlight
    <3>3. slotOf[sid[i]] = i
      BY <2>1, <3>2 DEF SessionInv, QuietInv
    <3> QED BY <2>1, <2>3, <3>1, <3>3
  <2> QED BY <1>17, <2>1, <2>2, <2>3 DEF Submit
<1>18. ASSUME NEW t \in Threads, Drop(t) PROVE WireInv'
  BY <1>18 DEF Drop
<1>19. ASSUME NEW t \in Threads, CloseSocket(t) PROVE WireInv'
  <2>1. at[t] \in Slots /\ CloseSocketOf(at[t]) /\ UNCHANGED <<sid, slotOf>>
    BY <1>19 DEF CloseSocket
  <2> QED BY <2>1, WireClose
<1>20. ASSUME NEW t \in Threads, ReadStack(t) PROVE WireInv'
  BY <1>20 DEF ReadStack
<1>21. ASSUME NEW t \in Threads, WriteStack(t) PROVE WireInv'
  BY <1>21 DEF WriteStack
<1>22. ASSUME NEW t \in Threads, Goodbye(t) PROVE WireInv'
  BY <1>22 DEF Goodbye
<1>23. ASSUME NEW u \in Conns, Receive(u) PROVE WireInv'
  <2>1. /\ pending[u] > 0 /\ \A v \in Conns : pending'[v] > 0 => pending[v] > 0
        /\ \/ port' = port
           \/ /\ Len(port') = Len(port) + 1 /\ \A k \in 1..Len(port) : port'[k] = port[k]
              /\ port'[Len(port) + 1].slot = slotOf[u] /\ port'[Len(port) + 1].conn = u
    BY <1>23, ReceiveEffect
  <2>2. UNCHANGED <<sid, slotOf>>
    BY <1>23 DEF Receive
  <2>3. \A v \in Conns : pending'[v] > 0 => slotOf'[v] \in Slots /\ sid'[slotOf'[v]] = v
    BY <2>1, <2>2
  <2>4. Len(port) \in Nat /\ slotOf[u] \in Slots /\ sid[slotOf[u]] = u
    BY <2>1
  <2>5. ASSUME NEW k \in 1..Len(port') PROVE sid'[port'[k].slot] = port'[k].conn
    <3>1. CASE port' = port
      BY <2>2, <3>1
    <3>2. CASE port' # port
      <4>1. k \in 1..Len(port) \/ k = Len(port) + 1
        BY <2>1, <2>4, <3>2
      <4> QED BY <2>1, <2>2, <2>4, <3>2, <4>1
    <3> QED BY <3>1, <3>2
  <2> QED BY <2>3, <2>5
<1>24. CASE UNCHANGED vars
  BY <1>24 DEF vars
<1> QED
  BY <1>1, <1>2, <1>3, <1>4, <1>5, <1>6, <1>7, <1>8, <1>9, <1>10, <1>11, <1>12, <1>13, <1>14,
     <1>15, <1>16, <1>17, <1>18, <1>19, <1>20, <1>21, <1>22, <1>23, <1>24
  DEF Next, Accepting, Working, Gaming, DisconnectSessionInternal

\* What the threads have read of the stack are ids.
LEMMA Entries ==
  ASSUME TypeOK, LocalInv, HeldInv
  PROVE  /\ \A k \in 1..Len(stack) : stack[k].unique \in Nat
         /\ \A t \in Threads : /\ copy[t].id.unique \in Nat
                               /\ \A k \in 1..Len(copy[t].stack) : copy[t].stack[k].unique \in Nat
<1>1. ASSUME NEW s \in Seq(Entry) PROVE \A k \in 1..Len(s) : s[k].unique \in Nat
  <2>1. \A k \in 1..Len(s) : s[k] \in Entry
    BY <1>1
  <2> QED BY <2>1, PoolAssumption DEF Entry
<1>2. \A t \in Threads : copy[t].stack \in Seq(Entry) /\ copy[t].id.unique \in Nat
  BY PoolAssumption DEF HeldInv
<1>3. stack \in Seq(Entry)
  BY Shape
<1> QED BY <1>1, <1>2, <1>3

\* A session that has ended stays ended until its slot is initialised again.
LEMMA EndedKept ==
  ASSUME UNCHANGED <<sid, counter>>, pc'[Acceptor] = "initialize" => pc[Acceptor] = "initialize",
         \A i \in Slots : (~valid[i] => ~valid'[i]) /\ (sock[i] = 0 => sock'[i] = 0)
  PROVE  \A e : Ended(e) => Ended(e)'
BY DEF Ended

\* Only a session that was torn down is pushed, and it is not served again.
LEMMA StackStep ==
  TypeOK /\ LocalInv /\ HeldInv /\ OwnInv /\ StackInv /\ (\A i \in Slots : SessionInv(i))
    /\ ~reused'
    /\ [Next]_vars => StackInv'
<1> SUFFICES ASSUME TypeOK, LocalInv, HeldInv, OwnInv, StackInv, (\A i \in Slots : SessionInv(i)),
    ~reused', [Next]_vars
             PROVE  StackInv'
  OBVIOUS
<1> USE PoolAssumption DEF Threads, Step, Goto, slotVars, poolVars, ioVars, localVars, history,
    StackInv
<1>0. /\ sid \in [Slots -> 0..MaxConns] /\ MaxConns \in Nat
      /\ sock \in [Slots -> 0..MaxConns]
      /\ valid \in [Slots -> BOOLEAN]
      /\ counter \in Nat /\ counter \in 0..MaxConns
      /\ pc \in [Threads -> PCs] /\ Acceptor \in Threads /\ Game \in Threads
      /\ pc[Acceptor] = "initialize" =>
           for[Acceptor] = counter /\ counter > 0 /\ counter \in Conns /\ at[Acceptor] \in Slots
      /\ pc[Acceptor] \in {"bind", "announce"} =>
           for[Acceptor] = counter /\ counter > 0 /\ counter \in Conns /\ at[Acceptor] \in Slots
      /\ at \in [Threads -> Slots \cup {0}]
      /\ for \in [Threads -> 0..MaxConns]
      /\ \A t \in Threads : pc[t] \notin {"idle", "accept", "release", "pop", "return", "process"} =>
           at[t] \in Slots
      /\ back \in [Threads -> PCs]
      /\ \A t \in Threads : pc[t] \in {"drop"} \cup Closing => back[t] \in {"postrecv", "idle", "accept"}
      /\ \A t \in Threads : Home(t) = IF t = Acceptor THEN "accept" ELSE "idle"
      /\ Acceptor \notin Workers /\ Game \notin Workers /\ Game # Acceptor
      /\ \A t \in Threads : pc[t] \in {"idle", "check", "parse", "sendvalid", "send"} => t # Acceptor
      /\ pc[Game] \notin {"check", "parse", "postrecv", "submit", "initialize", "bind", "announce"}
      /\ \A t \in Threads : pc[t] \in {"accept", "release", "pop", "return", "process", "initialize", "bind", "announce"} =>
           t = Acceptor
      /\ copy \in [Threads -> [stack : Seq(Entry), id : [index : Slots \cup {0}, unique : 0..MaxConns]]]
      /\ stack \in Seq(Entry)
  BY Shape
<1> USE <1>0
<1>1. CASE AcceptReturns
  <2>9. UNCHANGED <<sid, counter>> /\ (pc'[Acceptor] = "initialize" => pc[Acceptor] = "initialize")
        /\ \A i \in Slots : (~valid[i] => ~valid'[i]) /\ (sock[i] = 0 => sock'[i] = 0)
    BY <1>1 DEF AcceptReturns
  <2>8. \A e : Ended(e) => Ended(e)'
    BY <2>9, EndedKept
  <2>7. UNCHANGED <<stack, copy>>
    BY <1>1 DEF AcceptReturns
  <2> QED BY <2>7, <2>8
<1>2. CASE ReadTop
  <2>1. /\ UNCHANGED <<sid, valid, sock, counter, stack>> /\ pc[Acceptor] = "release"
        /\ pc' = [pc EXCEPT ![Acceptor] = pc'[Acceptor]] /\ pc'[Acceptor] # "initialize"
    BY <1>2 DEF ReadTop
  <2>9. UNCHANGED <<sid, counter>> /\ (pc'[Acceptor] = "initialize" => pc[Acceptor] = "initialize")
        /\ \A i \in Slots : (~valid[i] => ~valid'[i]) /\ (sock[i] = 0 => sock'[i] = 0)
    BY <2>1
  <2>8. \A e : Ended(e) => Ended(e)'
    BY <2>9, EndedKept
  <2>2. \A t \in Threads \ {Acceptor} : copy'[t] = copy[t]
    BY <1>2 DEF ReadTop
  <2>3. CASE stack = <<>>
    <3>1. copy'[Acceptor] = NoCopy
      BY <1>2, <2>3 DEF ReadTop
    <3>2. Ended(Id(0, 0))
      BY DEF Id, Ended
    <3> QED BY <2>1, <2>2, <2>8, <3>1, <3>2 DEF NoCopy
  <2>4. CASE stack # <<>>
    <3>1. Len(stack) \in 1..Len(stack)
      BY <2>4
    <3>2. copy'[Acceptor].stack = stack /\ copy'[Acceptor].id = stack[Len(stack)]
      BY <1>2, <2>4 DEF ReadTop
    <3> QED BY <2>1, <2>2, <2>8, <3>1, <3>2
  <2> QED BY <2>3, <2>4
<1>3. CASE Pop
  <2>1. /\ UNCHANGED <<sid, valid, sock, counter, copy>> /\ pc[Acceptor] = "pop"
        /\ pc' = [pc EXCEPT ![Acceptor] = "return"] /\ copy[Acceptor].stack \in Seq(Entry)
        /\ stack' = Popped(copy[Acceptor].stack) \/ stack' = Popped(stack)
    BY <1>3 DEF Pop, HeldInv
  <2>9. UNCHANGED <<sid, counter>> /\ (pc'[Acceptor] = "initialize" => pc[Acceptor] = "initialize")
        /\ \A i \in Slots : (~valid[i] => ~valid'[i]) /\ (sock[i] = 0 => sock'[i] = 0)
    BY <2>1
  <2>8. \A e : Ended(e) => Ended(e)'
    BY <2>9, EndedKept
  <2>2. PICK s \in {copy[Acceptor].stack, stack} : stack' = Popped(s)
    BY <2>1
  <2>3. s \in Seq(Entry) /\ \A k \in 1..Len(s) : Ended(s[k])
    BY <2>1, <2>2
  <2>4. \A k \in 1..Len(stack') : k \in 1..Len(s) /\ stack'[k] = s[k]
    BY <2>2, <2>3, PoppedSeq
  <2>5. \A k \in 1..Len(stack') : Ended(stack'[k])
    BY <2>3, <2>4
  <2> QED BY <2>1, <2>5, <2>8
<1>4. CASE ReturnIndex
  <2>1. /\ UNCHANGED <<sid, valid, counter>> /\ pc' = [pc EXCEPT ![Acceptor] = "release"]
        /\ sock' = sock \/ sock' = [sock EXCEPT ![copy[Acceptor].id.index] = 0]
    BY <1>4 DEF ReturnIndex, CloseSocketOf
  <2>9. UNCHANGED <<sid, counter>> /\ (pc'[Acceptor] = "initialize" => pc[Acceptor] = "initialize")
        /\ \A i \in Slots : (~valid[i] => ~valid'[i]) /\ (sock[i] = 0 => sock'[i] = 0)
    BY <2>1
  <2>8. \A e : Ended(e) => Ended(e)'
    BY <2>9, EndedKept
  <2>7. UNCHANGED <<stack, copy>>
    BY <1>4 DEF ReturnIndex
  <2> QED BY <2>7, <2>8
<1>5. CASE TakeIndex
  <2>1. UNCHANGED <<sid, valid, sock, stack, copy>> /\ pc[Acceptor] = "process"
    BY <1>5 DEF TakeIndex
  <2>2. \/ counter' = counter /\ pc' = [pc EXCEPT ![Acceptor] = "accept"]
        \/ counter' = counter + 1 /\ pc' = [pc EXCEPT ![Acceptor] = "initialize"]
    BY <1>5 DEF TakeIndex
  <2>3. ASSUME NEW e, Ended(e), e.unique \in Nat PROVE Ended(e)'
    BY <2>1, <2>2, <2>3 DEF Ended
  <2> QED BY <2>1, <2>3, Entries
<1>6. CASE Initialize
  <2>1. /\ UNCHANGED <<counter, stack, copy>> /\ pc[Acceptor] = "initialize"
        /\ pc' = [pc EXCEPT ![Acceptor] = "bind"]
        /\ valid' = [valid EXCEPT ![at[Acceptor]] = TRUE]
        /\ sock' = [sock EXCEPT ![at[Acceptor]] = counter]
        /\ sid' = [sid EXCEPT ![at[Acceptor]] = counter]
    BY <1>6 DEF Initialize
  <2>2. ASSUME NEW e, Ended(e), e.unique \in Nat PROVE Ended(e)'
    BY <2>1, <2>2 DEF Ended
  <2> QED BY <2>1, <2>2, Entries
<1>7. CASE Bind
  <2>9. UNCHANGED <<sid, counter>> /\ (pc'[Acceptor] = "initialize" => pc[Acceptor] = "initialize")
        /\ \A i \in Slots : (~valid[i] => ~valid'[i]) /\ (sock[i] = 0 => sock'[i] = 0)
    BY <1>7 DEF Bind
  <2>8. \A e : Ended(e) => Ended(e)'
    BY <2>9, EndedKept
  <2>7. UNCHANGED <<stack, copy>>
    BY <1>7 DEF Bind
  <2> QED BY <2>7, <2>8
<1>8. CASE Announce
  <2>9. UNCHANGED <<sid, counter>> /\ (pc'[Acceptor] = "initialize" => pc[Acceptor] = "initialize")
        /\ \A i \in Slots : (~valid[i] => ~valid'[i]) /\ (sock[i] = 0 => sock'[i] = 0)
    BY <1>8 DEF Announce
  <2>8. \A e : Ended(e) => Ended(e)'
    BY <2>9, EndedKept
  <2>7. UNCHANGED <<stack, copy>>
    BY <1>8 DEF Announce
  <2> QED BY <2>7, <2>8
<1>9. CASE RequestSendMsg
  <2>9. UNCHANGED <<sid, counter>> /\ (pc'[Acceptor] = "initialize" => pc[Acceptor] = "initialize")
        /\ \A i \in Slots : (~valid[i] => ~valid'[i]) /\ (sock[i] = 0 => sock'[i] = 0)
    BY <1>9 DEF RequestSendMsg, FindSession
  <2>8. \A e : Ended(e) => Ended(e)'
    BY <2>9, EndedKept
  <2>7. UNCHANGED <<stack, copy>>
    BY <1>9 DEF RequestSendMsg, FindSession
  <2> QED BY <2>7, <2>8
<1>10. CASE RequestDisconnectSession
  <2>9. UNCHANGED <<sid, counter>> /\ (pc'[Acceptor] = "initialize" => pc[Acceptor] = "initialize")
        /\ \A i \in Slots : (~valid[i] => ~valid'[i]) /\ (sock[i] = 0 => sock'[i] = 0)
    BY <1>10 DEF RequestDisconnectSession, FindSession
  <2>8. \A e : Ended(e) => Ended(e)'
    BY <2>9, EndedKept
  <2>7. UNCHANGED <<stack, copy>>
    BY <1>10 DEF RequestDisconnectSession, FindSession
  <2> QED BY <2>7, <2>8
<1>11. CASE SendValid
  <2>9. UNCHANGED <<sid, counter>> /\ (pc'[Acceptor] = "initialize" => pc[Acceptor] = "initialize")
        /\ \A i \in Slots : (~valid[i] => ~valid'[i]) /\ (sock[i] = 0 => sock'[i] = 0)
    BY <1>11 DEF SendValid
  <2>8. \A e : Ended(e) => Ended(e)'
    BY <2>9, EndedKept
  <2>7. UNCHANGED <<stack, copy>>
    BY <1>11 DEF SendValid
  <2> QED BY <2>7, <2>8
<1>12. CASE Send
  <2>9. UNCHANGED <<sid, counter>> /\ (pc'[Acceptor] = "initialize" => pc[Acceptor] = "initialize")
        /\ \A i \in Slots : (~valid[i] => ~valid'[i]) /\ (sock[i] = 0 => sock'[i] = 0)
    BY <1>12 DEF Send
  <2>8. \A e : Ended(e) => Ended(e)'
    BY <2>9, EndedKept
  <2>7. UNCHANGED <<stack, copy>>
    BY <1>12 DEF Send
  <2> QED BY <2>7, <2>8
<1>13. ASSUME NEW w \in Workers, TakeCompletion(w) PROVE StackInv'
  <2>9. UNCHANGED <<sid, counter>> /\ (pc'[Acceptor] = "initialize" => pc[Acceptor] = "initialize")
        /\ \A i \in Slots : (~valid[i] => ~valid'[i]) /\ (sock[i] = 0 => sock'[i] = 0)
    BY <1>13 DEF TakeCompletion
  <2>8. \A e : Ended(e) => Ended(e)'
    BY <2>9, EndedKept
  <2>7. UNCHANGED <<stack, copy>>
    BY <1>13 DEF TakeCompletion
  <2> QED BY <2>7, <2>8
<1>14. ASSUME NEW w \in Workers, CheckSession(w) PROVE StackInv'
  <2>9. UNCHANGED <<sid, counter>> /\ (pc'[Acceptor] = "initialize" => pc[Acceptor] = "initialize")
        /\ \A i \in Slots : (~valid[i] => ~valid'[i]) /\ (sock[i] = 0 => sock'[i] = 0)
    BY <1>14 DEF CheckSession
  <2>8. \A e : Ended(e) => Ended(e)'
    BY <2>9, EndedKept
  <2>7. UNCHANGED <<stack, copy>>
    BY <1>14 DEF CheckSession
  <2> QED BY <2>7, <2>8
<1>15. ASSUME NEW w \in Workers, Parse(w) PROVE StackInv'
  <2>9. UNCHANGED <<sid, counter>> /\ (pc'[Acceptor] = "initialize" => pc[Acceptor] = "initialize")
        /\ \A i \in Slots : (~valid[i] => ~valid'[i]) /\ (sock[i] = 0 => sock'[i] = 0)
    BY <1>15 DEF Parse
  <2>8. \A e : Ended(e) => Ended(e)'
    BY <2>9, EndedKept
  <2>7. UNCHANGED <<stack, copy>>
    BY <1>15 DEF Parse
  <2> QED BY <2>7, <2>8
<1>16. ASSUME NEW t \in Threads, PostRecv(t) PROVE StackInv'
  <2>9. UNCHANGED <<sid, counter>> /\ (pc'[Acceptor] = "initialize" => pc[Acceptor] = "initialize")
        /\ \A i \in Slots : (~valid[i] => ~valid'[i]) /\ (sock[i] = 0 => sock'[i] = 0)
    BY <1>16 DEF PostRecv
  <2>8. \A e : Ended(e) => Ended(e)'
    BY <2>9, EndedKept
  <2>7. UNCHANGED <<stack, copy>>
    BY <1>16 DEF PostRecv
  <2> QED BY <2>7, <2>8
<1>17. ASSUME NEW t \in Threads, Submit(t) PROVE StackInv'
  <2>9. UNCHANGED <<sid, counter>> /\ (pc'[Acceptor] = "initialize" => pc[Acceptor] = "initialize")
        /\ \A i \in Slots : (~valid[i] => ~valid'[i]) /\ (sock[i] = 0 => sock'[i] = 0)
    BY <1>17 DEF Submit
  <2>8. \A e : Ended(e) => Ended(e)'
    BY <2>9, EndedKept
  <2>7. UNCHANGED <<stack, copy>>
    BY <1>17 DEF Submit
  <2> QED BY <2>7, <2>8
<1>18. ASSUME NEW t \in Threads, Drop(t) PROVE StackInv'
  <2>1. pc[t] = "drop" /\ (pc' = [pc EXCEPT ![t] = "close"] \/ pc' = [pc EXCEPT ![t] = back[t]])
        /\ UNCHANGED <<sid, counter, sock>> /\ valid' = [valid EXCEPT ![at[t]] = FALSE]
    BY <1>18 DEF Drop
  <2>9. UNCHANGED <<sid, counter>> /\ (pc'[Acceptor] = "initialize" => pc[Acceptor] = "initialize")
        /\ \A i \in Slots : (~valid[i] => ~valid'[i]) /\ (sock[i] = 0 => sock'[i] = 0)
    BY <2>1 DEF Closing
  <2>8. \A e : Ended(e) => Ended(e)'
    BY <2>9, EndedKept
  <2>7. UNCHANGED <<stack, copy>>
    BY <1>18 DEF Drop
  <2> QED BY <2>7, <2>8
<1>19. ASSUME NEW t \in Threads, CloseSocket(t) PROVE StackInv'
  <2>1. /\ UNCHANGED <<sid, valid, counter>> /\ pc[t] = "close" /\ pc' = [pc EXCEPT ![t] = "push"]
        /\ sock' = [sock EXCEPT ![at[t]] = 0]
    BY <1>19 DEF CloseSocket, CloseSocketOf
  <2>9. UNCHANGED <<sid, counter>> /\ (pc'[Acceptor] = "initialize" => pc[Acceptor] = "initialize")
        /\ \A i \in Slots : (~valid[i] => ~valid'[i]) /\ (sock[i] = 0 => sock'[i] = 0)
    BY <2>1
  <2>8. \A e : Ended(e) => Ended(e)'
    BY <2>9, EndedKept
  <2>7. UNCHANGED <<stack, copy>>
    BY <1>19 DEF CloseSocket
  <2> QED BY <2>7, <2>8
<1>20. ASSUME NEW t \in Threads, ReadStack(t) PROVE StackInv'
  <2> DEFINE e == Id(at[t], sid[at[t]])
  <2>1. /\ UNCHANGED <<sid, valid, sock, counter, stack>> /\ pc[t] = "push"
        /\ pc' = [pc EXCEPT ![t] = "pushed"]
        /\ copy' = [copy EXCEPT ![t] = [stack |-> stack, id |-> e]]
    BY <1>20 DEF ReadStack
  <2>9. UNCHANGED <<sid, counter>> /\ (pc'[Acceptor] = "initialize" => pc[Acceptor] = "initialize")
        /\ \A i \in Slots : (~valid[i] => ~valid'[i]) /\ (sock[i] = 0 => sock'[i] = 0)
    BY <2>1
  <2>8. \A x : Ended(x) => Ended(x)'
    BY <2>9, EndedKept
  <2>3. Ended(e)
    <3>1. at[t] \in Slots /\ ~valid[at[t]] /\ sock[at[t]] = 0
      BY <2>1 DEF SessionInv, LifeInv, Ending, Closing
    <3>2. e.unique = sid[at[t]] /\ e.index = at[t]
      BY DEF Id
    <3> QED BY <3>1, <3>2 DEF OwnInv, Ended
  <2>4. copy'[t].stack = stack /\ copy'[t].id = e /\ \A v \in Threads \ {t} : copy'[v] = copy[v]
    <3> HIDE DEF e
    <3> QED BY <2>1
  <2> HIDE DEF e
  <2> QED BY <2>1, <2>3, <2>4, <2>8
<1>21. ASSUME NEW t \in Threads, WriteStack(t) PROVE StackInv'
  <2>1. /\ UNCHANGED <<sid, valid, sock, counter, copy>> /\ pc[t] = "pushed"
        /\ pc' = [pc EXCEPT ![t] = "goodbye"]
        /\ stack' = Append(copy[t].stack, copy[t].id) /\ copy[t].stack \in Seq(Entry)
    BY <1>21 DEF WriteStack, HeldInv
  <2>9. UNCHANGED <<sid, counter>> /\ (pc'[Acceptor] = "initialize" => pc[Acceptor] = "initialize")
        /\ \A i \in Slots : (~valid[i] => ~valid'[i]) /\ (sock[i] = 0 => sock'[i] = 0)
    BY <2>1
  <2>8. \A e : Ended(e) => Ended(e)'
    BY <2>9, EndedKept
  <2>2. \A k \in 1..Len(stack') : (k \in 1..Len(copy[t].stack) /\ stack'[k] = copy[t].stack[k]) \/ stack'[k] = copy[t].id
    BY <2>1
  <2> QED BY <2>1, <2>2, <2>8
<1>22. ASSUME NEW t \in Threads, Goodbye(t) PROVE StackInv'
  <2>1. UNCHANGED <<sid, valid, sock, counter>> /\ pc[t] = "goodbye" /\ pc' = [pc EXCEPT ![t] = back[t]]
    BY <1>22 DEF Goodbye, Leave
  <2>9. UNCHANGED <<sid, counter>> /\ (pc'[Acceptor] = "initialize" => pc[Acceptor] = "initialize")
        /\ \A i \in Slots : (~valid[i] => ~valid'[i]) /\ (sock[i] = 0 => sock'[i] = 0)
    BY <2>1 DEF Closing
  <2>8. \A e : Ended(e) => Ended(e)'
    BY <2>9, EndedKept
  <2>7. UNCHANGED <<stack, copy>>
    BY <1>22 DEF Goodbye
  <2> QED BY <2>7, <2>8
<1>23. ASSUME NEW u \in Conns, Receive(u) PROVE StackInv'
  <2>9. UNCHANGED <<sid, counter>> /\ (pc'[Acceptor] = "initialize" => pc[Acceptor] = "initialize")
        /\ \A i \in Slots : (~valid[i] => ~valid'[i]) /\ (sock[i] = 0 => sock'[i] = 0)
    BY <1>23 DEF Receive
  <2>8. \A e : Ended(e) => Ended(e)'
    BY <2>9, EndedKept
  <2>7. UNCHANGED <<stack, copy>>
    BY <1>23 DEF Receive
  <2> QED BY <2>7, <2>8
<1>24. CASE UNCHANGED vars
  <2>1. UNCHANGED <<sid, valid, sock, counter, pc, stack, copy>>
    BY <1>24 DEF vars
  <2> QED BY <2>1, EndedKept
<1> QED
  BY <1>1, <1>2, <1>3, <1>4, <1>5, <1>6, <1>7, <1>8, <1>9, <1>10, <1>11, <1>12, <1>13, <1>14,
     <1>15, <1>16, <1>17, <1>18, <1>19, <1>20, <1>21, <1>22, <1>23, <1>24
  DEF Next, Accepting, Working, Gaming, DisconnectSessionInternal

\* ReleaseSession closes no socket: that of a session that has ended is closed.
LEMMA ReturnEffect ==
  ASSUME TypeOK, LocalInv, HeldInv, StackInv, ReturnIndex
  PROVE  UNCHANGED <<slotVars, ioVars, stack, counter, events, localVars, history>>
<1> DEFINE i == copy[Acceptor].id.index
<1>1. /\ pc[Acceptor] = "return"
      /\ UNCHANGED <<valid, sid, ioId, stack, counter, slotOf, events, localVars, history>>
  BY DEF ReturnIndex, Step
<1>2. i \in Slots /\ sock \in [Slots -> 0..MaxConns]
  BY <1>1, Shape DEF HeldInv, Entry
<1>3. CASE sid[i] = copy[Acceptor].id.unique
  <2>1. sock[i] = 0
    BY <1>2, <1>3, PoolAssumption DEF StackInv, Ended, Threads
  <2>2. sock' = [sock EXCEPT ![i] = 0] /\ UNCHANGED <<pending, port>>
    BY <1>3, <2>1 DEF ReturnIndex, CloseSocketOf
  <2>3. sock' = sock
    BY <1>2, <2>1, <2>2
  <2> QED BY <1>1, <2>2, <2>3 DEF slotVars, ioVars
<1>4. CASE sid[i] # copy[Acceptor].id.unique
  BY <1>1, <1>4 DEF ReturnIndex, slotVars, ioVars
<1> QED BY <1>3, <1>4

\* A step of a thread on another slot does not concern a session.
LEMMA LifeOther ==
  ASSUME NEW i \in Slots, NEW t \in Threads, OwnInv, SessionInv(i), at[t] # i, at'[t] # i,
         \A v \in Threads \ {t} : pc'[v] = pc[v] /\ at'[v] = at[v],
         valid'[i] = valid[i], sock'[i] = sock[i], sid'[i] = sid[i],
         sid[i] # 0 => events'[sid[i]] = events[sid[i]]
  PROVE  LifeInv(i)'
<1>1. \A v \in Threads : (Ending(v, i)' <=> Ending(v, i)) /\ (Ending(v, i) => pc'[v] = pc[v])
  BY DEF Ending
<1>2. Presenting(i)' <=> Presenting(i)
  BY DEF Presenting, Threads
<1>3. InUse(i) => sid[i] # 0
  BY DEF OwnInv, InUse
<1>4. ~valid[i] => sid[i] # 0
  BY DEF SessionInv, QuietInv, Vacant, Binding, Presenting
<1>5. /\ valid[i] => \A v \in Threads : ~Ending(v, i)
      /\ \A v, w \in Threads : Ending(v, i) /\ Ending(w, i) => v = w
      /\ \A v \in Threads : Ending(v, i) /\ pc[v] # "close" => sock[i] = 0
      /\ InUse(i) /\ ~Presenting(i) => events[sid[i]] = <<"CONNECTED">>
      /\ \A v \in Threads : Ending(v, i) => events[sid[i]] = <<"CONNECTED">>
      /\ ~valid[i] /\ (\A v \in Threads : ~Ending(v, i)) => events[sid[i]] = <<"CONNECTED", "DISCONNECTED">>
  BY DEF SessionInv, LifeInv
<1>6. InUse(i)' <=> InUse(i)
  BY DEF InUse
<1> QED BY <1>1, <1>2, <1>3, <1>4, <1>5, <1>6 DEF LifeInv

\* Nor does one that neither presents it nor ends it.
LEMMA LifeSame ==
  ASSUME NEW i \in Slots, LifeInv(i), UNCHANGED <<valid, sock, sid, events>>, NEW t \in Threads,
         \A v \in Threads \ {t} : pc'[v] = pc[v] /\ at'[v] = at[v],
         pc[t] \notin Closing \cup {"bind", "announce"}, pc'[t] \notin Closing \cup {"bind", "announce"}
  PROVE  LifeInv(i)'
<1>1. \A v \in Threads : (Ending(v, i)' <=> Ending(v, i)) /\ (Ending(v, i) => pc'[v] = pc[v])
  BY DEF Ending
<1>2. Presenting(i)' <=> Presenting(i)
  BY DEF Presenting, Threads
<1>3. InUse(i)' <=> InUse(i)
  BY DEF InUse
<1> QED BY <1>1, <1>2, <1>3 DEF LifeInv

\* The exchange of _valid lets one thread end a session, between its two events.
LEMMA LifeStep ==
  TypeOK /\ LocalInv /\ HeldInv /\ OwnInv /\ ServeInv /\ FreshInv /\ StackInv
    /\ (\A i \in Slots : SessionInv(i)) /\ ~reused'
    /\ [Next]_vars => \A i \in Slots : LifeInv(i)'
<1> SUFFICES ASSUME TypeOK, LocalInv, HeldInv, OwnInv, ServeInv, FreshInv, StackInv,
    (\A i \in Slots : SessionInv(i)), ~reused', [Next]_vars, NEW i \in Slots
             PROVE  LifeInv(i)'
  OBVIOUS
<1> USE PoolAssumption DEF Threads, Step, Goto, slotVars, poolVars, ioVars, localVars, history,
    SessionInv, LifeInv, QuietInv, Ending, Closing, Presenting, InUse, Vacant, InFlight
<1>0. /\ sid \in [Slots -> 0..MaxConns] /\ MaxConns \in Nat
      /\ sock \in [Slots -> 0..MaxConns]
      /\ valid \in [Slots -> BOOLEAN]
      /\ counter \in Nat /\ counter \in 0..MaxConns
      /\ pc \in [Threads -> PCs] /\ Acceptor \in Threads /\ Game \in Threads
      /\ pc[Acceptor] = "initialize" =>
           for[Acceptor] = counter /\ counter > 0 /\ counter \in Conns /\ at[Acceptor] \in Slots
      /\ pc[Acceptor] \in {"bind", "announce"} =>
           for[Acceptor] = counter /\ counter > 0 /\ counter \in Conns /\ at[Acceptor] \in Slots
      /\ at \in [Threads -> Slots \cup {0}]
      /\ for \in [Threads -> 0..MaxConns]
      /\ \A t \in Threads : pc[t] \notin {"idle", "accept", "release", "pop", "return", "process"} =>
           at[t] \in Slots
      /\ back \in [Threads -> PCs]
      /\ \A t \in Threads : pc[t] \in {"drop"} \cup Closing => back[t] \in {"postrecv", "idle", "accept"}
      /\ \A t \in Threads : Home(t) = IF t = Acceptor THEN "accept" ELSE "idle"
      /\ Acceptor \notin Workers /\ Game \notin Workers /\ Game # Acceptor
      /\ \A t \in Threads : pc[t] \in {"idle", "check", "parse", "sendvalid", "send"} => t # Acceptor
      /\ pc[Game] \notin {"check", "parse", "postrecv", "submit", "initialize", "bind", "announce"}
      /\ \A t \in Threads : pc[t] \in {"accept", "release", "pop", "return", "process", "initialize", "bind", "announce"} =>
           t = Acceptor
      /\ events \in [Conns -> Seq({"CONNECTED", "DISCONNECTED"})]
  BY Shape
<1> USE <1>0
<1>1. CASE AcceptReturns
  BY <1>1 DEF AcceptReturns
<1>2. CASE ReadTop
  BY <1>2 DEF ReadTop
<1>3. CASE Pop
  BY <1>3 DEF Pop
<1>4. CASE ReturnIndex
  <2>1. UNCHANGED <<slotVars, events, at>>
    BY <1>4, ReturnEffect
  <2>2. pc[Acceptor] = "return" /\ pc' = [pc EXCEPT ![Acceptor] = "release"]
    BY <1>4 DEF ReturnIndex
  <2> QED BY <2>1, <2>2
<1>5. CASE TakeIndex
  <2>1. /\ pc[Acceptor] = "process" /\ pc'[Acceptor] \in {"accept", "initialize"}
        /\ \A v \in Threads \ {Acceptor} : pc'[v] = pc[v] /\ at'[v] = at[v]
    BY <1>5 DEF TakeIndex
  <2>2. UNCHANGED <<slotVars, events>>
    BY <1>5 DEF TakeIndex
  <2> QED BY <2>1, <2>2, LifeSame
<1>6. CASE Initialize
  <2> DEFINE j == at[Acceptor]
  <2>1. /\ pc[Acceptor] = "initialize" /\ pc' = [pc EXCEPT ![Acceptor] = "bind"]
        /\ UNCHANGED <<events, at>>
        /\ j \in Slots /\ sid' = [sid EXCEPT ![j] = counter] /\ sock' = [sock EXCEPT ![j] = counter]
        /\ valid' = [valid EXCEPT ![j] = TRUE] /\ ~InFlight(j)
    BY <1>6 DEF Initialize
  <2>2. CASE i # j
    BY <2>1, <2>2, LifeOther
  <2>3. CASE i = j
    <3>1. \A t \in Threads : ~Ending(t, i)'
      BY <2>1, <2>3
    <3>2. Presenting(i)' /\ valid'[i]
      BY <2>1, <2>3
    <3> QED BY <3>1, <3>2
  <2> QED BY <2>2, <2>3
<1>7. CASE Bind
  <2> DEFINE j == at[Acceptor]
  <2>1. /\ pc[Acceptor] = "bind"
        /\ \E to \in {"announce", "accept"} : pc' = [pc EXCEPT ![Acceptor] = to]
        /\ UNCHANGED <<events, at, sid, valid>>
        /\ j \in Slots
        /\ \/ pc'[Acceptor] = "announce" /\ sock' = sock
           \/ sock' = [sock EXCEPT ![j] = 0]
    BY <1>7 DEF Bind
  <2>2. CASE i # j
    BY <2>1, <2>2, LifeOther
  <2>3. CASE i = j
    <3>1. valid[i] /\ \A t \in Threads : ~Ending(t, i)
      BY <2>1, <2>3
    <3>2. \A t \in Threads : ~Ending(t, i)'
      BY <2>1, <3>1
    <3>3. InUse(i)' => Presenting(i)'
      BY <2>1, <2>3
    <3> QED BY <2>1, <3>1, <3>2, <3>3
  <2> QED BY <2>2, <2>3
<1>8. CASE Announce
  <2> DEFINE j == at[Acceptor]
  <2>1. /\ pc[Acceptor] = "announce" /\ pc' = [pc EXCEPT ![Acceptor] = "postrecv"]
        /\ UNCHANGED <<slotVars, at>>
        /\ j \in Slots /\ sid[j] \in Conns /\ sid[j] # 0
        /\ events' = [events EXCEPT ![sid[j]] = Append(events[sid[j]], "CONNECTED")]
    <3>1. pc[Acceptor] = "announce" /\ for[Acceptor] \in Conns /\ j \in Slots
      BY <1>8 DEF Announce
    <3>2. for[Acceptor] = sid[j]
      BY <3>1 DEF ServeInv, Serving
    <3> QED BY <1>8, <3>1, <3>2 DEF Announce, Conns
  <2>2. CASE i # j
    <3>1. sid[i] # 0 => sid[i] # sid[j] /\ sid[i] \in Conns
      BY <2>1, <2>2 DEF OwnInv, Conns
    <3> QED BY <2>1, <2>2, <3>1, LifeOther
  <2>3. CASE i = j
    <3>1. valid[i] /\ events[sid[i]] = <<>> /\ \A t \in Threads : ~Ending(t, i)
      BY <2>1, <2>3
    <3>2. events'[sid'[i]] = <<"CONNECTED">>
      BY <2>1, <2>3, <3>1
    <3>3. valid'[i] /\ \A t \in Threads : ~Ending(t, i)'
      BY <2>1, <3>1
    <3> QED BY <3>2, <3>3
  <2> QED BY <2>2, <2>3
<1>9. CASE RequestSendMsg
  BY <1>9 DEF RequestSendMsg, FindSession
<1>10. CASE RequestDisconnectSession
  BY <1>10 DEF RequestDisconnectSession, FindSession
<1>11. CASE SendValid
  BY <1>11 DEF SendValid
<1>12. CASE Send
  BY <1>12 DEF Send
<1>13. ASSUME NEW w \in Workers, TakeCompletion(w) PROVE LifeInv(i)'
  BY <1>13 DEF TakeCompletion
<1>14. ASSUME NEW w \in Workers, CheckSession(w) PROVE LifeInv(i)'
  BY <1>14 DEF CheckSession
<1>15. ASSUME NEW w \in Workers, Parse(w) PROVE LifeInv(i)'
  BY <1>15 DEF Parse
<1>16. ASSUME NEW t \in Threads, PostRecv(t) PROVE LifeInv(i)'
  BY <1>16 DEF PostRecv
<1>17. ASSUME NEW t \in Threads, Submit(t) PROVE LifeInv(i)'
  <2>1. /\ pc[t] = "submit" /\ pc'[t] \in {"drop", "idle", "accept"}
        /\ \A v \in Threads \ {t} : pc'[v] = pc[v]
        /\ UNCHANGED <<slotVars, events, at>>
    BY <1>17 DEF Submit
  <2>2. /\ LifeInv(i) /\ UNCHANGED <<valid, sock, sid, events>>
        /\ \A v \in Threads \ {t} : pc'[v] = pc[v] /\ at'[v] = at[v]
    BY <2>1
  <2> HIDE DEF SessionInv, LifeInv, QuietInv
  <2> QED BY <2>1, <2>2, LifeSame
<1>18. ASSUME NEW t \in Threads, Drop(t) PROVE LifeInv(i)'
  <2> DEFINE j == at[t]
  <2>1. /\ pc[t] = "drop" /\ UNCHANGED <<sock, sid, events, at>> /\ j \in Slots
        /\ valid' = [valid EXCEPT ![j] = FALSE] /\ \A v \in Threads \ {t} : pc'[v] = pc[v]
        /\ pc'[t] = IF valid[j] THEN "close" ELSE back[t]
    BY <1>18 DEF Drop
  <2>2. CASE i # j
    <3>1. valid'[i] = valid[i]
      BY <2>1, <2>2
    <3> HIDE DEF SessionInv, LifeInv, QuietInv
    <3> QED BY <2>1, <2>2, <3>1, LifeOther
  <2>3. CASE i = j /\ valid[j]
    <3>1. ~Vacant(i) /\ ~Presenting(i)
      BY <2>1, <2>3 DEF Serving
    <3>2. events[sid[i]] = <<"CONNECTED">> /\ \A v \in Threads : ~Ending(v, i)
      BY <2>3, <3>1
    <3>3. ~valid'[i] /\ Ending(t, i)' /\ pc'[t] = "close" /\ \A v \in Threads : Ending(v, i)' => v = t
      BY <2>1, <2>3, <3>2
    <3> QED BY <2>1, <3>2, <3>3
  <2>4. CASE i = j /\ ~valid[j]
    <3>1. pc'[t] \in {"postrecv", "idle", "accept"} /\ ~valid'[i]
      BY <2>1, <2>4
    <3>2. \A v \in Threads : Ending(v, i)' <=> Ending(v, i)
      BY <2>1, <3>1
    <3> QED BY <2>1, <2>4, <3>1, <3>2
  <2> QED BY <2>2, <2>3, <2>4
<1>19. ASSUME NEW t \in Threads, CloseSocket(t) PROVE LifeInv(i)'
  <2> DEFINE j == at[t]
  <2>1. /\ pc[t] = "close" /\ UNCHANGED <<valid, sid, events, at>> /\ j \in Slots
        /\ sock' = [sock EXCEPT ![j] = 0] /\ pc' = [pc EXCEPT ![t] = "push"]
    BY <1>19 DEF CloseSocket, CloseSocketOf
  <2>2. CASE i # j
    BY <2>1, <2>2, LifeOther
  <2>3. CASE i = j
    <3>1. \A v \in Threads : Ending(v, i)' <=> Ending(v, i)
      BY <2>1
    <3>2. Ending(t, i) /\ ~valid[i]
      BY <2>1, <2>3
    <3> QED BY <2>1, <2>3, <3>1, <3>2
  <2> QED BY <2>2, <2>3
<1>20. ASSUME NEW t \in Threads, ReadStack(t) PROVE LifeInv(i)'
  BY <1>20 DEF ReadStack
<1>21. ASSUME NEW t \in Threads, WriteStack(t) PROVE LifeInv(i)'
  BY <1>21 DEF WriteStack
<1>22. ASSUME NEW t \in Threads, Goodbye(t) PROVE LifeInv(i)'
  <2> DEFINE j == at[t]
  <2>1. /\ pc[t] = "goodbye" /\ UNCHANGED <<slotVars, at>> /\ j \in Slots
        /\ pc' = [pc EXCEPT ![t] = back[t]] /\ back[t] \in {"postrecv", "idle", "accept"}
    BY <1>22 DEF Goodbye, Leave
  <2>2. Ending(t, j) /\ ~valid[j] /\ sid[j] # 0 /\ sid[j] \in Conns /\ events[sid[j]] = <<"CONNECTED">>
    <3>1. Ending(t, j) /\ sid[j] \in 0..MaxConns
      BY <2>1
    <3>2. ~valid[j] /\ events[sid[j]] = <<"CONNECTED">>
      BY <2>1, <3>1
    <3>3. sid[j] # 0
      BY <2>1, <3>2 DEF Binding
    <3> QED BY <3>1, <3>2, <3>3 DEF Conns
  <2>3. events' = [events EXCEPT ![sid[j]] = Append(events[sid[j]], "DISCONNECTED")]
    BY <1>22, <2>2 DEF Goodbye
  <2>4. CASE i # j
    <3>1. sid[i] # 0 => sid[i] # sid[j] /\ sid[i] \in Conns
      BY <2>1, <2>4 DEF OwnInv, Conns
    <3> QED BY <2>1, <2>2, <2>3, <2>4, <3>1, LifeOther
  <2>5. CASE i = j
    <3>1. \A v \in Threads : ~Ending(v, i)'
      BY <2>1, <2>2, <2>5
    <3>2. ~valid'[i] /\ sid' = sid
      BY <2>1, <2>2, <2>5
    <3>3. events'[sid[i]] = <<"CONNECTED", "DISCONNECTED">>
      <4>1. events'[sid[j]] = Append(<<"CONNECTED">>, "DISCONNECTED")
        BY <2>2, <2>3
      <4>2. Append(<<"CONNECTED">>, "DISCONNECTED") = <<"CONNECTED", "DISCONNECTED">>
        <5> DEFINE S == {"CONNECTED", "DISCONNECTED"}
        <5>1. "CONNECTED" \in S /\ "DISCONNECTED" \in S
          OBVIOUS
        <5> HIDE DEF S
        <5> QED BY <5>1, AppendOne
      <4> QED BY <2>5, <4>1, <4>2
    <3> QED BY <3>1, <3>2, <3>3
  <2> QED BY <2>4, <2>5
<1>23. ASSUME NEW u \in Conns, Receive(u) PROVE LifeInv(i)'
  BY <1>23 DEF Receive
<1>24. CASE UNCHANGED vars
  BY <1>24 DEF vars
<1> QED
  BY <1>1, <1>2, <1>3, <1>4, <1>5, <1>6, <1>7, <1>8, <1>9, <1>10, <1>11, <1>12, <1>13, <1>14,
     <1>15, <1>16, <1>17, <1>18, <1>19, <1>20, <1>21, <1>22, <1>23, <1>24
  DEF Next, Accepting, Working, Gaming, DisconnectSessionInternal

\* What a session that nothing happens to keeps.
LEMMA QuietKept ==
  ASSUME NEW i \in Slots, QuietInv(i), valid'[i] = valid[i], sock'[i] = sock[i], sid'[i] = sid[i],
         sid[i] # 0 => events'[sid[i]] = events[sid[i]] /\ slotOf'[sid[i]] = slotOf[sid[i]],
         Presenting(i)' <=> Presenting(i), Binding(i)' <=> Binding(i),
         (Serving(Acceptor) /\ at[Acceptor] = i)' => Serving(Acceptor) /\ at[Acceptor] = i,
         InFlight(i)' => InFlight(i)
  PROVE  QuietInv(i)'
<1>1. Vacant(i)' <=> Vacant(i)
  BY DEF Vacant
<1> QED BY <1>1 DEF QuietInv

\* A session that is served is neither vacant nor being presented.
LEMMA QuietServed ==
  ASSUME NEW i \in Slots, QuietInv(i), ~Vacant(i), ~Binding(i), ~Vacant(i)', ~Presenting(i)',
         sid'[i] = sid[i], slotOf' = slotOf
  PROVE  QuietInv(i)'
BY DEF QuietInv, Binding, Presenting

\* A thread on a slot is serving a session that was announced.
LEMMA Served ==
  ASSUME TypeOK, LocalInv, HeldInv, NEW t \in Threads, Serving(t), pc[t] \notin {"bind", "announce"},
         SessionInv(at[t])
  PROVE  /\ ~Vacant(at[t]) /\ ~Binding(at[t]) /\ ~Presenting(at[t]) /\ QuietInv(at[t])
         /\ sid[at[t]] # 0 /\ slotOf[sid[at[t]]] = at[t]
<1>1. t # Acceptor => InFlight(at[t])
  BY DEF Serving, InFlight
<1>2. QuietInv(at[t])
  BY DEF SessionInv
<1>3. ~Presenting(at[t])
  BY <1>1, <1>2 DEF QuietInv, Presenting
<1>4. ~Vacant(at[t]) /\ ~Binding(at[t])
  BY <1>1, <1>2, <1>3 DEF QuietInv, Binding, Presenting
<1> QED BY <1>2, <1>3, <1>4 DEF QuietInv

\* A step of a thread on another slot puts nothing in flight on this one.
LEMMA QuietOther ==
  ASSUME NEW i \in Slots, NEW t \in Threads, SessionInv(i), at[t] # i, at'[t] # i,
         \A v \in Threads \ {t} : pc'[v] = pc[v] /\ at'[v] = at[v],
         valid'[i] = valid[i], sock'[i] = sock[i], sid'[i] = sid[i],
         sid[i] # 0 => events'[sid[i]] = events[sid[i]] /\ slotOf'[sid[i]] = slotOf[sid[i]],
         \A u \in Conns : slotOf'[u] = i /\ pending'[u] > 0 => slotOf[u] = i /\ pending[u] > 0,
         \A k \in 1..Len(port') : (k \in 1..Len(port) /\ port'[k] = port[k]) \/ port'[k].slot # i
  PROVE  QuietInv(i)'
<1>1. InFlight(i)' => InFlight(i)
  BY DEF InFlight
<1>2. (Presenting(i)' <=> Presenting(i)) /\ (Binding(i)' <=> Binding(i))
  BY DEF Presenting, Binding, Threads
<1>3. (Serving(Acceptor) /\ at[Acceptor] = i)' => Serving(Acceptor) /\ at[Acceptor] = i
  BY DEF Serving, Threads
<1>4. QuietInv(i)
  BY DEF SessionInv
<1> QED BY <1>1, <1>2, <1>3, <1>4, QuietKept

\* Until it is announced nothing can be in flight on a session's slot.
LEMMA QuietStep ==
  TypeOK /\ LocalInv /\ HeldInv /\ OwnInv /\ WireInv /\ ServeInv /\ FreshInv /\ StackInv
    /\ (\A i \in Slots : SessionInv(i)) /\ ~reused'
    /\ [Next]_vars => \A i \in Slots : QuietInv(i)'
<1> SUFFICES ASSUME TypeOK, LocalInv, HeldInv, OwnInv, WireInv, ServeInv, FreshInv, StackInv,
    (\A i \in Slots : SessionInv(i)), ~reused', [Next]_vars, NEW i \in Slots
             PROVE  QuietInv(i)'
  OBVIOUS
<1> USE PoolAssumption DEF Threads, Step, Goto, slotVars, poolVars, ioVars, localVars, history
<1>0. /\ sid \in [Slots -> 0..MaxConns] /\ MaxConns \in Nat
      /\ sock \in [Slots -> 0..MaxConns]
      /\ valid \in [Slots -> BOOLEAN]
      /\ counter \in Nat /\ counter \in 0..MaxConns
      /\ pc \in [Threads -> PCs] /\ Acceptor \in Threads /\ Game \in Threads
      /\ pc[Acceptor] = "initialize" =>
           for[Acceptor] = counter /\ counter > 0 /\ counter \in Conns /\ at[Acceptor] \in Slots
      /\ pc[Acceptor] \in {"bind", "announce"} =>
           for[Acceptor] = counter /\ counter > 0 /\ counter \in Conns /\ at[Acceptor] \in Slots
      /\ at \in [Threads -> Slots \cup {0}]
      /\ for \in [Threads -> 0..MaxConns]
      /\ \A t \in Threads : pc[t] \notin {"idle", "accept", "release", "pop", "return", "process"} =>
           at[t] \in Slots
      /\ back \in [Threads -> PCs]
      /\ \A t \in Threads : pc[t] \in {"drop"} \cup Closing => back[t] \in {"postrecv", "idle", "accept"}
      /\ \A t \in Threads : Home(t) = IF t = Acceptor THEN "accept" ELSE "idle"
      /\ Acceptor \notin Workers /\ Game \notin Workers /\ Game # Acceptor
      /\ \A t \in Threads : pc[t] \in {"idle", "check", "parse", "sendvalid", "send"} => t # Acceptor
      /\ pc[Game] \notin {"check", "parse", "postrecv", "submit", "initialize", "bind", "announce"}
      /\ \A t \in Threads : pc[t] \in {"accept", "release", "pop", "return", "process", "initialize", "bind", "announce"} =>
           t = Acceptor
      /\ events \in [Conns -> Seq({"CONNECTED", "DISCONNECTED"})]
      /\ slotOf \in [Conns -> Slots \cup {0}] /\ 0 \notin Slots
      /\ pending \in [Conns -> Nat]
      /\ port \in Seq(Completion)
  BY Shape
<1> USE <1>0
<1>1. CASE AcceptReturns
  BY <1>1 DEF AcceptReturns, SessionInv, LifeInv, QuietInv, Ending, Closing, Presenting, Binding,
      InUse, Vacant, InFlight, Serving
<1>2. CASE ReadTop
  BY <1>2 DEF ReadTop, SessionInv, LifeInv, QuietInv, Ending, Closing, Presenting, Binding, InUse,
      Vacant, InFlight, Serving
<1>3. CASE Pop
  BY <1>3 DEF Pop, SessionInv, LifeInv, QuietInv, Ending, Closing, Presenting, Binding, InUse,
      Vacant, InFlight, Serving
<1>4. CASE ReturnIndex
  <2>1. UNCHANGED <<slotVars, events, at, slotOf, pending, port>>
    BY <1>4, ReturnEffect
  <2>2. pc[Acceptor] = "return" /\ pc' = [pc EXCEPT ![Acceptor] = "release"]
    BY <1>4 DEF ReturnIndex
  <2>3. InFlight(i)' => InFlight(i)
    BY <2>1, <2>2 DEF InFlight
  <2>4. (Presenting(i)' <=> Presenting(i)) /\ (Binding(i)' <=> Binding(i)) /\ ~Serving(Acceptor)'
    BY <2>1, <2>2 DEF Presenting, Binding, Serving
  <2> QED BY <2>1, <2>3, <2>4, QuietKept DEF SessionInv
<1>5. CASE TakeIndex
  <2>1. /\ pc[Acceptor] = "process" /\ pc'[Acceptor] \in {"accept", "initialize"}
        /\ \A v \in Threads \ {Acceptor} : pc'[v] = pc[v] /\ at'[v] = at[v]
    BY <1>5 DEF TakeIndex
  <2>2. UNCHANGED <<slotVars, events, slotOf, pending, port>>
    BY <1>5 DEF TakeIndex
  <2>3. InFlight(i)' => InFlight(i)
    BY <2>1, <2>2 DEF InFlight
  <2>4. (Presenting(i)' <=> Presenting(i)) /\ (Binding(i)' <=> Binding(i)) /\ ~Serving(Acceptor)'
    BY <2>1, <2>2 DEF Presenting, Binding, Serving
  <2> QED BY <2>2, <2>3, <2>4, QuietKept DEF SessionInv
<1>6. CASE Initialize
  <2> DEFINE j == at[Acceptor]
  <2>1. /\ pc[Acceptor] = "initialize" /\ pc' = [pc EXCEPT ![Acceptor] = "bind"]
        /\ UNCHANGED <<events, at, slotOf, pending, port>>
        /\ j \in Slots /\ sid' = [sid EXCEPT ![j] = counter] /\ sock' = [sock EXCEPT ![j] = counter]
        /\ valid' = [valid EXCEPT ![j] = TRUE] /\ ~InFlight(j)
    BY <1>6 DEF Initialize
  <2>2. CASE i # j
    BY <2>1, <2>2, QuietOther
  <2>3. CASE i = j
    <3>1. ~InFlight(i)'
      BY <2>1, <2>3 DEF InFlight
    <3>2. Binding(i)' /\ ~Vacant(i)' /\ valid'[i] /\ sock'[i] # 0 /\ sid'[i] = counter
      BY <2>1, <2>3 DEF Binding, Vacant
    <3>3. events'[counter] = <<>>
      BY <2>1 DEF FreshInv
    <3> QED BY <3>1, <3>2, <3>3 DEF QuietInv
  <2> QED BY <2>2, <2>3
<1>7. CASE Bind
  <2> DEFINE j == at[Acceptor]
  <2>1. /\ pc[Acceptor] = "bind" /\ UNCHANGED <<events, at, sid, valid, pending, port>>
        /\ j \in Slots /\ for[Acceptor] = counter /\ counter \in Conns /\ counter # 0
    BY <1>7 DEF Bind
  <2>2. sid[j] = counter /\ Binding(j) /\ Presenting(j)
    BY <2>1 DEF ServeInv, Serving, Binding, Presenting
  <2>3. valid[j] /\ sock[j] # 0 /\ ~InFlight(j) /\ events[counter] = <<>>
    BY <2>1, <2>2 DEF SessionInv, QuietInv
  <2>4. CASE pc' = [pc EXCEPT ![Acceptor] = "announce"] /\ slotOf' = [slotOf EXCEPT ![counter] = j] /\ sock' = sock
    <3>1. pending[counter] = 0
      <4>1. pending[counter] > 0 => slotOf[counter] \in Slots /\ sid[slotOf[counter]] = counter
        BY <2>1 DEF WireInv
      <4>2. pending[counter] > 0 => slotOf[counter] = j
        BY <2>1, <2>2, <4>1 DEF OwnInv
      <4> QED BY <2>1, <2>3, <4>2 DEF InFlight
    <3>2. CASE i # j
      <4>1. sid[i] # 0 => sid[i] # counter /\ sid[i] \in Conns
        BY <2>1, <2>2, <3>2 DEF OwnInv, Conns
      <4>2. sid[i] # 0 => slotOf'[sid[i]] = slotOf[sid[i]]
        BY <2>1, <2>4, <4>1
      <4>3. \A u \in Conns : slotOf'[u] = i /\ pending'[u] > 0 => slotOf[u] = i /\ pending[u] > 0
        BY <2>1, <2>4, <3>2
      <4> QED BY <2>1, <2>4, <3>2, <4>2, <4>3, QuietOther
    <3>3. CASE i = j
      <4>1. ~InFlight(i)'
        BY <2>1, <2>3, <2>4, <3>1, <3>3 DEF InFlight
      <4>2. /\ Presenting(i)' /\ ~Binding(i)' /\ ~Vacant(i)' /\ valid'[i] /\ sock'[i] # 0
            /\ slotOf'[sid'[i]] = i
        BY <2>1, <2>2, <2>3, <2>4, <3>3 DEF Presenting, Binding, Vacant
      <4> QED BY <2>1, <2>2, <2>3, <3>3, <4>1, <4>2 DEF QuietInv
    <3> QED BY <3>2, <3>3
  <2>5. CASE pc' = [pc EXCEPT ![Acceptor] = "accept"] /\ slotOf' = slotOf /\ sock' = [sock EXCEPT ![j] = 0]
    <3>1. CASE i # j
      BY <2>1, <2>5, <3>1, QuietOther
    <3>2. CASE i = j
      <4>1. ~InFlight(i)'
        BY <2>1, <2>3, <2>5, <3>2 DEF InFlight
      <4>2. ~Presenting(i)' /\ ~Serving(Acceptor)' /\ Vacant(i)'
        BY <2>1, <2>3, <2>5, <3>2 DEF Presenting, Serving, Vacant
      <4> QED BY <2>1, <2>2, <2>3, <3>2, <4>1, <4>2 DEF QuietInv
    <3> QED BY <3>1, <3>2
  <2>6. \/ pc' = [pc EXCEPT ![Acceptor] = "announce"] /\ slotOf' = [slotOf EXCEPT ![counter] = j] /\ sock' = sock
        \/ pc' = [pc EXCEPT ![Acceptor] = "accept"] /\ slotOf' = slotOf /\ sock' = [sock EXCEPT ![j] = 0]
    BY <1>7, <2>1 DEF Bind
  <2> QED BY <2>4, <2>5, <2>6
<1>8. CASE Announce
  <2> DEFINE j == at[Acceptor]
  <2>1. /\ pc[Acceptor] = "announce" /\ pc' = [pc EXCEPT ![Acceptor] = "postrecv"]
        /\ UNCHANGED <<at, sid, valid, sock, slotOf, pending, port>>
        /\ j \in Slots /\ for[Acceptor] = counter /\ counter \in Conns /\ counter # 0
        /\ events' = [events EXCEPT ![counter] = Append(events[counter], "CONNECTED")]
    BY <1>8 DEF Announce
  <2>2. sid[j] = counter /\ ~Binding(j) /\ Presenting(j)
    BY <2>1 DEF ServeInv, Serving, Binding, Presenting
  <2>3. CASE i # j
    <3>1. sid[i] # 0 => sid[i] # counter /\ sid[i] \in Conns
      BY <2>1, <2>2, <2>3 DEF OwnInv, Conns
    <3> QED BY <2>1, <2>3, <3>1, QuietOther
  <2>4. CASE i = j
    <3>1. QuietInv(i) /\ ~Vacant(i)
      BY <2>2, <2>4 DEF SessionInv, QuietInv, Vacant
    <3>2. ~Vacant(i)' /\ ~Presenting(i)'
      BY <2>1, <3>1 DEF Vacant, Presenting
    <3> QED BY <2>1, <2>2, <2>4, <3>1, <3>2, QuietServed
  <2> QED BY <2>3, <2>4
<1>9. CASE RequestSendMsg
  <2>0. PICK j \in Slots, u \in Conns :
           /\ events[u] # <<>> /\ sid[j] = u /\ pc[Game] = "idle" /\ at' = [at EXCEPT ![Game] = j]
           /\ \E to \in {"sendvalid", "drop"} : pc' = [pc EXCEPT ![Game] = to]
           /\ UNCHANGED <<slotVars, events, slotOf, pending, port>>
    BY <1>9 DEF RequestSendMsg, FindSession
  <2>1. /\ sid[j] \in Conns /\ events[sid[j]] # <<>> /\ at' = [at EXCEPT ![Game] = j]
        /\ pc[Game] = "idle"
        /\ \A v \in Threads \ {Game} : pc'[v] = pc[v] /\ at'[v] = at[v]
        /\ UNCHANGED <<slotVars, events, slotOf, pending, port>>
    BY <2>0
  <2>2. (Presenting(i)' <=> Presenting(i)) /\ (Binding(i)' <=> Binding(i)) /\ (Vacant(i)' <=> Vacant(i))
    BY <2>1 DEF Presenting, Binding, Vacant
  <2>3. CASE i = j
    <3>1. sid[i] # 0 /\ ~Vacant(i) /\ ~Presenting(i)
      BY <2>1, <2>3 DEF SessionInv, QuietInv, Conns
    <3>2. ~Binding(i) /\ QuietInv(i)
      BY <3>1 DEF Binding, Presenting, SessionInv
    <3> QED BY <2>1, <2>2, <3>1, <3>2, QuietServed
  <2>4. CASE i # j
    <3>1. InFlight(i)' => InFlight(i)
      BY <2>1, <2>4 DEF InFlight
    <3>2. Serving(Acceptor)' <=> Serving(Acceptor)
      BY <2>1 DEF Serving
    <3> QED BY <2>1, <2>2, <3>1, <3>2, QuietKept DEF SessionInv
  <2> QED BY <2>3, <2>4
<1>10. CASE RequestDisconnectSession
  <2>0. PICK j \in Slots, u \in Conns :
           /\ events[u] # <<>> /\ sid[j] = u /\ pc[Game] = "idle" /\ at' = [at EXCEPT ![Game] = j]
           /\ \E to \in {"sendvalid", "drop"} : pc' = [pc EXCEPT ![Game] = to]
           /\ UNCHANGED <<slotVars, events, slotOf, pending, port>>
    BY <1>10 DEF RequestDisconnectSession, FindSession
  <2>1. /\ sid[j] \in Conns /\ events[sid[j]] # <<>> /\ at' = [at EXCEPT ![Game] = j]
        /\ pc[Game] = "idle"
        /\ \A v \in Threads \ {Game} : pc'[v] = pc[v] /\ at'[v] = at[v]
        /\ UNCHANGED <<slotVars, events, slotOf, pending, port>>
    BY <2>0
  <2>2. (Presenting(i)' <=> Presenting(i)) /\ (Binding(i)' <=> Binding(i)) /\ (Vacant(i)' <=> Vacant(i))
    BY <2>1 DEF Presenting, Binding, Vacant
  <2>3. CASE i = j
    <3>1. sid[i] # 0 /\ ~Vacant(i) /\ ~Presenting(i)
      BY <2>1, <2>3 DEF SessionInv, QuietInv, Conns
    <3>2. ~Binding(i) /\ QuietInv(i)
      BY <3>1 DEF Binding, Presenting, SessionInv
    <3> QED BY <2>1, <2>2, <3>1, <3>2, QuietServed
  <2>4. CASE i # j
    <3>1. InFlight(i)' => InFlight(i)
      BY <2>1, <2>4 DEF InFlight
    <3>2. Serving(Acceptor)' <=> Serving(Acceptor)
      BY <2>1 DEF Serving
    <3> QED BY <2>1, <2>2, <3>1, <3>2, QuietKept DEF SessionInv
  <2> QED BY <2>3, <2>4
<1>11. CASE SendValid
  BY <1>11 DEF SendValid, SessionInv, LifeInv, QuietInv, Ending, Closing, Presenting, Binding,
      InUse, Vacant, InFlight, Serving
<1>12. CASE Send
  BY <1>12 DEF Send, SessionInv, LifeInv, QuietInv, Ending, Closing, Presenting, Binding, InUse,
      Vacant, InFlight, Serving
<1>13. ASSUME NEW w \in Workers, TakeCompletion(w) PROVE QuietInv(i)'
  BY <1>13 DEF TakeCompletion, SessionInv, LifeInv, QuietInv, Ending, Closing, Presenting,
      Binding, InUse, Vacant, InFlight, Serving
<1>14. ASSUME NEW w \in Workers, CheckSession(w) PROVE QuietInv(i)'
  BY <1>14 DEF CheckSession, SessionInv, LifeInv, QuietInv, Ending, Closing, Presenting, Binding,
      InUse, Vacant, InFlight, Serving
<1>15. ASSUME NEW w \in Workers, Parse(w) PROVE QuietInv(i)'
  BY <1>15 DEF Parse, SessionInv, LifeInv, QuietInv, Ending, Closing, Presenting, Binding, InUse,
      Vacant, InFlight, Serving
<1>16. ASSUME NEW t \in Threads, PostRecv(t) PROVE QuietInv(i)'
  BY <1>16 DEF PostRecv, SessionInv, LifeInv, QuietInv, Ending, Closing, Presenting, Binding,
      InUse, Vacant, InFlight, Serving
<1>17. ASSUME NEW t \in Threads, Submit(t) PROVE QuietInv(i)'
  <2> DEFINE j == at[t]
  <2>1. /\ pc[t] = "submit" /\ pc' = [pc EXCEPT ![t] = pc'[t]] /\ pc'[t] \in {"drop", "idle", "accept"}
        /\ j \in Slots /\ UNCHANGED <<slotVars, events, at, slotOf, port>>
        /\ pending' = pending \/ (sock[j] # 0 /\ pending' = [pending EXCEPT ![sock[j]] = pending[sock[j]] + 1])
    BY <1>17 DEF Submit
  <2>2. Serving(t) /\ pc[t] \notin {"bind", "announce"} /\ SessionInv(j)
    BY <2>1 DEF Serving
  <2>3. /\ ~Vacant(j) /\ ~Binding(j) /\ ~Presenting(j) /\ QuietInv(j)
        /\ sid[j] # 0 /\ slotOf[sid[j]] = j
    BY <2>1, <2>2, Served
  <2>4. CASE i = j
    <3>1. ~Vacant(i)' /\ ~Presenting(i)'
      BY <2>1, <2>3, <2>4 DEF Vacant, Presenting
    <3> QED BY <2>1, <2>3, <2>4, <3>1, QuietServed
  <2>5. CASE i # j
    <3>1. sock[j] # 0 => slotOf[sock[j]] = j
      BY <2>1, <2>3 DEF OwnInv
    <3>2. \A u \in Conns : slotOf'[u] = i /\ pending'[u] > 0 => slotOf[u] = i /\ pending[u] > 0
      BY <2>1, <2>5, <3>1
    <3> QED BY <2>1, <2>5, <3>2, QuietOther
  <2> QED BY <2>4, <2>5
<1>18. ASSUME NEW t \in Threads, Drop(t) PROVE QuietInv(i)'
  <2> DEFINE j == at[t]
  <2>1. /\ pc[t] = "drop" /\ pc' = [pc EXCEPT ![t] = pc'[t]]
        /\ pc'[t] \in {"close", "postrecv", "idle", "accept"}
        /\ j \in Slots /\ UNCHANGED <<sock, sid, events, at, slotOf, pending, port>>
        /\ valid' = [valid EXCEPT ![j] = FALSE]
    BY <1>18 DEF Drop, Closing
  <2>2. Serving(t) /\ pc[t] \notin {"bind", "announce"} /\ SessionInv(j)
    BY <2>1 DEF Serving
  <2>3. /\ ~Vacant(j) /\ ~Binding(j) /\ ~Presenting(j) /\ QuietInv(j)
        /\ sid[j] # 0 /\ slotOf[sid[j]] = j
    BY <2>1, <2>2, Served
  <2>4. CASE i = j
    <3>1. ~Vacant(i)' /\ ~Presenting(i)'
      <4>1. ~valid'[i]
        BY <2>1, <2>4
      <4>2. pc'[Acceptor] = pc[Acceptor] \/ pc'[Acceptor] \in {"close", "postrecv", "idle", "accept"}
        BY <2>1
      <4>3. ~Presenting(i)'
        BY <2>1, <2>3, <2>4, <4>2 DEF Presenting
      <4> QED BY <4>1, <4>3 DEF Vacant
    <3> QED BY <2>1, <2>3, <2>4, <3>1, QuietServed
  <2>5. CASE i # j
    BY <2>1, <2>5, QuietOther
  <2> QED BY <2>4, <2>5
<1>19. ASSUME NEW t \in Threads, CloseSocket(t) PROVE QuietInv(i)'
  <2> DEFINE j == at[t]
  <2>1. /\ pc[t] = "close" /\ pc' = [pc EXCEPT ![t] = "push"] /\ CloseSocketOf(j)
        /\ sock' = [sock EXCEPT ![j] = 0] /\ j \in Slots /\ UNCHANGED <<sid, valid, events, at, slotOf>>
    BY <1>19 DEF CloseSocket, CloseSocketOf
  <2>2. Serving(t) /\ pc[t] \notin {"bind", "announce"} /\ SessionInv(j)
    BY <2>1 DEF Serving
  <2>3. /\ ~Vacant(j) /\ ~Binding(j) /\ ~Presenting(j) /\ QuietInv(j)
        /\ sid[j] # 0 /\ slotOf[sid[j]] = j
    BY <2>1, <2>2, Served
  <2>4. CASE i = j
    <3>1. ~Vacant(i)' /\ ~Presenting(i)'
      <4>1. ~valid'[i]
        BY <2>1, <2>2, <2>4 DEF SessionInv, LifeInv, Ending, Closing
      <4>2. ~Presenting(i)'
        BY <2>1, <2>3, <2>4 DEF Presenting
      <4> QED BY <4>1, <4>2 DEF Vacant
    <3> QED BY <2>1, <2>3, <2>4, <3>1, QuietServed
  <2>5. CASE i # j
    <3>1. slotOf[sock[j]] = j \/ sock[j] = 0
      BY <2>1, <2>3 DEF OwnInv
    <3>2. /\ sock' = [sock EXCEPT ![j] = 0] /\ \A u \in Conns : pending'[u] > 0 => pending[u] > 0
          /\ \A k \in 1..Len(port) : port'[k] = port[k]
          /\ \A k \in 1..Len(port') : k \in 1..Len(port) \/ (sock[j] # 0 /\ port'[k] = Failed(sock[j]))
      <4> DEFINE n == IF sock[j] = 0 THEN 0 ELSE IF slotOf[sock[j]] = 0 THEN 0 ELSE pending[sock[j]]
      <4>1. /\ sock' = [sock EXCEPT ![j] = 0] /\ n \in Nat
            /\ \A u \in Conns : pending'[u] = IF u = sock[j] THEN 0 ELSE pending[u]
            /\ Len(port') = Len(port) + n
            /\ \A k \in 1..Len(port) : port'[k] = port[k]
            /\ \A k \in Len(port) + 1..Len(port') : port'[k] = Failed(sock[j])
        <5> HIDE DEF j
        <5> QED BY <2>1, CloseEffect
      <4>2. sock[j] = 0 => n = 0
        OBVIOUS
      <4> HIDE DEF n
      <4>3. Len(port) \in Nat
        OBVIOUS
      <4>4. ASSUME NEW u \in Conns, pending'[u] > 0
            PROVE  pending[u] > 0
        <5>1. u # sock[j]
          BY <4>1, <4>4
        <5> QED BY <4>1, <4>4, <5>1
      <4>5. ASSUME NEW k \in 1..Len(port'), k \notin 1..Len(port)
            PROVE  sock[j] # 0 /\ port'[k] = Failed(sock[j])
        <5>1. k \in Len(port) + 1..Len(port') /\ n # 0
          BY <4>1, <4>3, <4>5
        <5> QED BY <4>1, <4>2, <5>1
      <4> QED BY <4>1, <4>4, <4>5
    <3>3. \A k \in 1..Len(port') : (k \in 1..Len(port) /\ port'[k] = port[k]) \/ port'[k].slot # i
      <4>1. ASSUME NEW k \in 1..Len(port'), k \notin 1..Len(port) PROVE port'[k].slot # i
        <5>1. sock[j] # 0 /\ port'[k] = Failed(sock[j])
          BY <3>2, <4>1
        <5>2. port'[k].slot = slotOf[sock[j]]
          BY <5>1 DEF Failed
        <5> QED BY <2>5, <3>1, <5>1, <5>2
      <4> QED BY <3>2, <4>1
    <3>4. sock'[i] = sock[i] /\ \A u \in Conns : slotOf'[u] = i /\ pending'[u] > 0 => slotOf[u] = i /\ pending[u] > 0
      BY <2>1, <2>5, <3>2
    <3> QED BY <2>1, <2>5, <3>3, <3>4, QuietOther
  <2> QED BY <2>4, <2>5
<1>20. ASSUME NEW t \in Threads, ReadStack(t) PROVE QuietInv(i)'
  BY <1>20 DEF ReadStack, SessionInv, LifeInv, QuietInv, Ending, Closing, Presenting, Binding,
      InUse, Vacant, InFlight, Serving
<1>21. ASSUME NEW t \in Threads, WriteStack(t) PROVE QuietInv(i)'
  BY <1>21 DEF WriteStack, SessionInv, LifeInv, QuietInv, Ending, Closing, Presenting, Binding,
      InUse, Vacant, InFlight, Serving
<1>22. ASSUME NEW t \in Threads, Goodbye(t) PROVE QuietInv(i)'
  <2>8. events' = events \/ events' = [events EXCEPT ![sid[at[t]]] = Append(events[sid[at[t]]], "DISCONNECTED")]
    BY <1>22 DEF Goodbye
  <2> DEFINE j == at[t]
  <2>1. /\ pc[t] = "goodbye" /\ pc' = [pc EXCEPT ![t] = pc'[t]]
        /\ pc'[t] \in {"postrecv", "idle", "accept"}
        /\ j \in Slots /\ UNCHANGED <<slotVars, at, slotOf, pending, port>>
    BY <1>22 DEF Goodbye, Leave, Closing
  <2>2. Serving(t) /\ pc[t] \notin {"bind", "announce"} /\ SessionInv(j)
    BY <2>1 DEF Serving
  <2>3. /\ ~Vacant(j) /\ ~Binding(j) /\ ~Presenting(j) /\ QuietInv(j)
        /\ sid[j] # 0 /\ slotOf[sid[j]] = j
    BY <2>1, <2>2, Served
  <2>4. CASE i = j
    <3>1. ~Vacant(i)' /\ ~Presenting(i)'
      BY <2>1, <2>3, <2>4 DEF Vacant, Presenting
    <3> QED BY <2>1, <2>3, <2>4, <3>1, QuietServed
  <2>5. CASE i # j
    <3>0. sid[i] \in 0..MaxConns /\ sid[j] \in 0..MaxConns
      BY <2>1
    <3>1. sid[i] # 0 => sid[i] # sid[j] /\ sid[i] \in Conns /\ sid[j] \in Conns
      BY <2>1, <2>3, <2>5, <3>0 DEF OwnInv, Conns
    <3>2. sid[i] # 0 => events'[sid[i]] = events[sid[i]]
      BY <2>8, <3>1
    <3> QED BY <2>1, <2>5, <3>2, QuietOther
  <2> QED BY <2>4, <2>5
<1>23. ASSUME NEW u \in Conns, Receive(u) PROVE QuietInv(i)'
  <2>1. /\ pending[u] > 0 /\ \A v \in Conns : pending'[v] > 0 => pending[v] > 0
        /\ \/ port' = port
           \/ /\ Len(port') = Len(port) + 1 /\ \A k \in 1..Len(port) : port'[k] = port[k]
              /\ port'[Len(port) + 1].slot = slotOf[u] /\ port'[Len(port) + 1].conn = u
    BY <1>23, ReceiveEffect
  <2>2. UNCHANGED <<slotVars, events, pc, at, slotOf>>
    BY <1>23 DEF Receive
  <2>3. InFlight(i)' => InFlight(i)
    <3>1. ASSUME NEW k \in 1..Len(port'), port'[k].slot = i
          PROVE  slotOf[u] = i \/ (k \in 1..Len(port) /\ port[k].slot = i)
      <4>1. CASE port' = port
        BY <3>1, <4>1
      <4>2. CASE Len(port') = Len(port) + 1
        <5>1. k \in 1..Len(port) \/ k = Len(port) + 1
          BY <4>2
        <5>2. CASE k = Len(port) + 1
          <6>1. port' # port
            BY <4>2
          <6> QED BY <2>1, <3>1, <5>2, <6>1
        <5>3. CASE k \in 1..Len(port)
          BY <2>1, <3>1, <5>3
        <5> QED BY <5>1, <5>2, <5>3
      <4> QED BY <2>1, <4>1, <4>2
    <3>2. (\E k \in 1..Len(port') : port'[k].slot = i) => InFlight(i)
      BY <2>1, <3>1 DEF InFlight
    <3>3. (\E v \in Conns : slotOf'[v] = i /\ pending'[v] > 0) => InFlight(i)
      BY <2>1, <2>2 DEF InFlight
    <3> QED BY <2>2, <3>2, <3>3 DEF InFlight
  <2>4. /\ (Presenting(i)' <=> Presenting(i)) /\ (Binding(i)' <=> Binding(i))
        /\ (Serving(Acceptor)' <=> Serving(Acceptor))
    BY <2>2 DEF Presenting, Binding, Serving
  <2> QED BY <2>2, <2>3, <2>4, QuietKept DEF SessionInv
<1>24. CASE UNCHANGED vars
  BY <1>24 DEF vars, SessionInv, LifeInv, QuietInv, Ending, Closing, Presenting, Binding, InUse,
      Vacant, InFlight, Serving
<1> QED
  BY <1>1, <1>2, <1>3, <1>4, <1>5, <1>6, <1>7, <1>8, <1>9, <1>10, <1>11, <1>12, <1>13, <1>14,
     <1>15, <1>16, <1>17, <1>18, <1>19, <1>20, <1>21, <1>22, <1>23, <1>24
  DEF Next, Accepting, Working, Gaming, DisconnectSessionInternal

\* What is added to the port for one slot leaves the others' completions alone.
LEMMA PortGrows ==
  ASSUME NEW i \in Slots, NEW s, NEW n \in Nat, port \in Seq(Completion), port' \in Seq(Completion),
         Len(port') = Len(port) + n, \A k \in 1..Len(port) : port'[k] = port[k],
         \A k \in Len(port) + 1..Len(port') : port'[k].slot = s
  PROVE  /\ i # s \/ n = 0 => (AtPort(i)' <=> AtPort(i)) /\ (OneAtPort(i) => OneAtPort(i)')
         /\ n = 1 /\ ~AtPort(i) => OneAtPort(i)'
         /\ n = 1 /\ i = s => AtPort(i)'
<1>1. Len(port) \in Nat /\ Len(port') \in Nat
  OBVIOUS
<1>2. \A k \in 1..Len(port') : k \in 1..Len(port) \/ (k \in Len(port) + 1..Len(port') /\ n # 0)
  BY <1>1
<1>3. \A k \in 1..Len(port) : k \in 1..Len(port')
  BY <1>1
<1>4. ASSUME i # s \/ n = 0
      PROVE  /\ \A k \in 1..Len(port') : port'[k].slot = i => k \in 1..Len(port) /\ port[k].slot = i
             /\ \A k \in 1..Len(port) : port[k].slot = i => port'[k].slot = i
  BY <1>2, <1>4
<1>5. i # s \/ n = 0 => (AtPort(i)' <=> AtPort(i)) /\ (OneAtPort(i) => OneAtPort(i)')
  BY <1>3, <1>4 DEF AtPort, OneAtPort
<1>6. ASSUME n = 1, ~AtPort(i) PROVE OneAtPort(i)'
  <2>1. \A k \in 1..Len(port') : port'[k].slot = i => k \in Len(port) + 1..Len(port')
    BY <1>2, <1>6 DEF AtPort
  <2>2. \A k \in Len(port) + 1..Len(port') : k = Len(port) + 1
    BY <1>1, <1>6
  <2> QED BY <2>1, <2>2 DEF OneAtPort
<1>7. ASSUME n = 1, i = s PROVE AtPort(i)'
  <2>1. Len(port) + 1 \in 1..Len(port') /\ Len(port) + 1 \in Len(port) + 1..Len(port')
    BY <1>1, <1>7
  <2> QED BY <1>7, <2>1 DEF AtPort
<1> QED BY <1>5, <1>6, <1>7

\* A completion that is taken was the only one of its slot.
LEMMA PortShrinks ==
  ASSUME NEW i \in Slots, port \in Seq(Completion), port' \in Seq(Completion), OneAtPort(i),
         Len(port) > 0, Len(port') = Len(port) - 1, \A k \in 1..Len(port') : port'[k] = port[k + 1]
  PROVE  /\ OneAtPort(i)'
         /\ i # port[1].slot => (AtPort(i)' <=> AtPort(i))
         /\ i = port[1].slot => AtPort(i) /\ ~AtPort(i)'
<1>1. Len(port) \in Nat /\ Len(port') \in Nat
  OBVIOUS
<1>2. \A k \in 1..Len(port') : k + 1 \in 1..Len(port)
  BY <1>1
<1>3. \A k \in 1..Len(port) : k = 1 \/ (k - 1 \in 1..Len(port') /\ (k - 1) + 1 = k)
  BY <1>1
<1>4. OneAtPort(i)'
  <2> SUFFICES ASSUME NEW k \in 1..Len(port'), NEW l \in 1..Len(port'), port'[k].slot = i, port'[l].slot = i
               PROVE  k = l
    BY DEF OneAtPort
  <2>1. port[k + 1].slot = i /\ port[l + 1].slot = i
    OBVIOUS
  <2>2. k + 1 = l + 1
    BY <1>2, <2>1 DEF OneAtPort
  <2> QED BY <1>1, <2>2
<1>5. AtPort(i)' => AtPort(i)
  BY <1>2 DEF AtPort
<1>6. i # port[1].slot /\ AtPort(i) => AtPort(i)'
  <2> SUFFICES ASSUME i # port[1].slot, NEW k \in 1..Len(port), port[k].slot = i PROVE AtPort(i)'
    BY DEF AtPort
  <2>1. k - 1 \in 1..Len(port') /\ (k - 1) + 1 = k
    BY <1>3
  <2>2. port'[k - 1] = port[(k - 1) + 1]
    BY <2>1
  <2>3. port'[k - 1].slot = i
    BY <2>1, <2>2
  <2> QED BY <2>1, <2>3 DEF AtPort
<1>7. ASSUME i = port[1].slot PROVE AtPort(i) /\ ~AtPort(i)'
  <2>1. 1 \in 1..Len(port)
    BY <1>1
  <2>2. ASSUME NEW k \in 1..Len(port'), port'[k].slot = i PROVE FALSE
    <3>1. port[k + 1].slot = i /\ k + 1 \in 1..Len(port)
      BY <1>2, <2>2
    <3>2. k + 1 = 1
      BY <1>7, <2>1, <3>1 DEF OneAtPort
    <3> QED BY <1>1, <3>2
  <2> QED BY <1>7, <2>1, <2>2 DEF AtPort
<1> QED BY <1>4, <1>5, <1>6, <1>7

\* What a session keeps whose receive stays where it is, or goes no further
\* than the steps of the thread that has it.
LEMMA ReceiveKept ==
  ASSUME NEW i \in Slots, NEW t \in Threads, ReceiveInv(i), sid'[i] = sid[i],
         \A u \in Conns : sid[i] = u => pending'[u] = pending[u],
         AtPort(i)' <=> AtPort(i), OneAtPort(i)',
         \A v \in Threads \ {t} : pc'[v] = pc[v] /\ at'[v] = at[v] /\ back'[v] = back[v],
         Receiving(t, i)' => Receiving(t, i), InUse(i)' => InUse(i),
         InUse(i)' => (Receiving(t, i) \/ Failing(t, i) => (Receiving(t, i) \/ Failing(t, i))')
  PROVE  ReceiveInv(i)'
<1>1. InKernel(i)' <=> InKernel(i)
  BY DEF InKernel
<1>2. \A v \in Threads \ {t} : (Receiving(v, i)' <=> Receiving(v, i)) /\ (Failing(v, i)' <=> Failing(v, i))
  BY DEF Receiving, Failing
<1>3. \A v \in Threads : Receiving(v, i)' => Receiving(v, i)
  BY <1>2
<1>4. InUse(i)' /\ (\E v \in Threads : Receiving(v, i) \/ Failing(v, i))
        => \E v \in Threads : (Receiving(v, i) \/ Failing(v, i))'
  BY <1>2
<1> QED BY <1>1, <1>3, <1>4 DEF ReceiveInv

\* The same of a step that touches neither the receives nor the slots.
LEMMA ReceiveSame ==
  ASSUME NEW i \in Slots, NEW t \in Threads, ReceiveInv(i), UNCHANGED <<sid, pending, port, valid, sock>>,
         \A v \in Threads \ {t} : pc'[v] = pc[v] /\ at'[v] = at[v] /\ back'[v] = back[v],
         Receiving(t, i)' => Receiving(t, i),
         InUse(i) => (Receiving(t, i) \/ Failing(t, i) => (Receiving(t, i) \/ Failing(t, i))')
  PROVE  ReceiveInv(i)'
<1>1. (AtPort(i)' <=> AtPort(i)) /\ OneAtPort(i)' /\ (InUse(i)' <=> InUse(i))
  BY DEF AtPort, OneAtPort, InUse, ReceiveInv
<1> QED BY <1>1, ReceiveKept

\* The receive of a session moves between the kernel, the port and a thread; while
\* the session is in use it is not lost.
LEMMA ReceiveStep ==
  TypeOK /\ LocalInv /\ HeldInv /\ OwnInv /\ WireInv /\ FreshInv /\ StackInv
    /\ (\A i \in Slots : SessionInv(i)) /\ (\A i \in Slots : ReceiveInv(i)) /\ ~reused'
    /\ [Next]_vars => \A i \in Slots : ReceiveInv(i)'
<1> SUFFICES ASSUME TypeOK, LocalInv, HeldInv, OwnInv, WireInv, FreshInv, StackInv,
    (\A i \in Slots : SessionInv(i)), (\A i \in Slots : ReceiveInv(i)), ~reused', [Next]_vars,
    NEW i \in Slots
             PROVE  ReceiveInv(i)'
  OBVIOUS
<1> USE PoolAssumption DEF Threads, Step, Goto, slotVars, poolVars, ioVars, localVars, history
<1>0. /\ sid \in [Slots -> 0..MaxConns] /\ MaxConns \in Nat
      /\ sock \in [Slots -> 0..MaxConns]
      /\ valid \in [Slots -> BOOLEAN]
      /\ counter \in Nat /\ counter \in 0..MaxConns
      /\ pc \in [Threads -> PCs] /\ Acceptor \in Threads /\ Game \in Threads
      /\ pc[Acceptor] = "initialize" =>
           for[Acceptor] = counter /\ counter > 0 /\ counter \in Conns /\ at[Acceptor] \in Slots
      /\ pc[Acceptor] \in {"bind", "announce"} =>
           for[Acceptor] = counter /\ counter > 0 /\ counter \in Conns /\ at[Acceptor] \in Slots
      /\ at \in [Threads -> Slots \cup {0}]
      /\ \A t \in Threads : pc[t] \notin {"idle", "accept", "release", "pop", "return", "process"} =>
           at[t] \in Slots
      /\ back \in [Threads -> PCs]
      /\ \A t \in Threads : pc[t] \in {"drop"} \cup Closing => back[t] \in {"postrecv", "idle", "accept"}
      /\ \A t \in Threads : Home(t) = IF t = Acceptor THEN "accept" ELSE "idle"
      /\ Acceptor \notin Workers /\ Game \notin Workers /\ Game # Acceptor
      /\ \A t \in Threads : pc[t] \in {"idle", "check", "parse", "sendvalid", "send"} => t # Acceptor
      /\ pc[Game] \notin {"check", "parse", "postrecv", "submit", "initialize", "bind", "announce"}
      /\ \A t \in Threads : pc[t] \in {"accept", "release", "pop", "return", "process", "initialize", "bind", "announce"} =>
           t = Acceptor
      /\ slotOf \in [Conns -> Slots \cup {0}] /\ 0 \notin Slots
      /\ pending \in [Conns -> Nat]
      /\ port \in Seq(Completion)
  BY Shape
<1> USE <1>0
<1>1. CASE AcceptReturns
  <2>1. /\ UNCHANGED <<sid, pending, port, valid, sock>>
        /\ \A v \in Threads \ {Acceptor} : pc'[v] = pc[v] /\ at'[v] = at[v] /\ back'[v] = back[v]
    BY <1>1 DEF AcceptReturns
  <2>2. /\ (Receiving(Acceptor, i)' => Receiving(Acceptor, i))
        /\ (InUse(i) /\ Receiving(Acceptor, i) => (Receiving(Acceptor, i) \/ Failing(Acceptor, i))')
    BY <1>1 DEF AcceptReturns, Receiving, Failing, Closing, InUse
  <2>3. Failing(Acceptor, i) => Failing(Acceptor, i)'
    BY <1>1 DEF AcceptReturns, Failing
  <2>4. ReceiveInv(i)
    OBVIOUS
  <2> QED BY <2>1, <2>2, <2>3, <2>4, ReceiveSame
<1>2. CASE ReadTop
  <2>1. /\ UNCHANGED <<sid, pending, port, valid, sock>>
        /\ \A v \in Threads \ {Acceptor} : pc'[v] = pc[v] /\ at'[v] = at[v] /\ back'[v] = back[v]
    BY <1>2 DEF ReadTop
  <2>2. /\ (Receiving(Acceptor, i)' => Receiving(Acceptor, i))
        /\ (InUse(i) /\ Receiving(Acceptor, i) => (Receiving(Acceptor, i) \/ Failing(Acceptor, i))')
    BY <1>2 DEF ReadTop, Receiving, Failing, Closing, InUse
  <2>3. Failing(Acceptor, i) => Failing(Acceptor, i)'
    BY <1>2 DEF ReadTop, Failing
  <2>4. ReceiveInv(i)
    OBVIOUS
  <2> QED BY <2>1, <2>2, <2>3, <2>4, ReceiveSame
<1>3. CASE Pop
  <2>1. /\ UNCHANGED <<sid, pending, port, valid, sock>>
        /\ \A v \in Threads \ {Acceptor} : pc'[v] = pc[v] /\ at'[v] = at[v] /\ back'[v] = back[v]
    BY <1>3 DEF Pop
  <2>2. /\ (Receiving(Acceptor, i)' => Receiving(Acceptor, i))
        /\ (InUse(i) /\ Receiving(Acceptor, i) => (Receiving(Acceptor, i) \/ Failing(Acceptor, i))')
    BY <1>3 DEF Pop, Receiving, Failing, Closing, InUse
  <2>3. Failing(Acceptor, i) => Failing(Acceptor, i)'
    BY <1>3 DEF Pop, Failing
  <2>4. ReceiveInv(i)
    OBVIOUS
  <2> QED BY <2>1, <2>2, <2>3, <2>4, ReceiveSame
<1>4. CASE ReturnIndex
  <2>1. UNCHANGED <<slotVars, ioVars, at, back>>
    BY <1>4, ReturnEffect
  <2>2. pc[Acceptor] = "return" /\ pc' = [pc EXCEPT ![Acceptor] = "release"]
    BY <1>4 DEF ReturnIndex
  <2>3. ~Receiving(Acceptor, i) /\ ~Receiving(Acceptor, i)' /\ ~Failing(Acceptor, i)
    BY <2>2 DEF Receiving, Failing, Closing
  <2>4. ReceiveInv(i) /\ UNCHANGED <<sid, pending, port, valid, sock>>
    BY <2>1
  <2> QED BY <2>1, <2>2, <2>3, <2>4, ReceiveSame
<1>5. CASE TakeIndex
  <2>1. /\ UNCHANGED <<sid, pending, port, valid, sock>>
        /\ \A v \in Threads \ {Acceptor} : pc'[v] = pc[v] /\ at'[v] = at[v] /\ back'[v] = back[v]
    BY <1>5 DEF TakeIndex
  <2>2. /\ (Receiving(Acceptor, i)' => Receiving(Acceptor, i))
        /\ (InUse(i) /\ Receiving(Acceptor, i) => (Receiving(Acceptor, i) \/ Failing(Acceptor, i))')
    BY <1>5 DEF TakeIndex, Receiving, Failing, Closing, InUse
  <2>3. Failing(Acceptor, i) => Failing(Acceptor, i)'
    BY <1>5 DEF TakeIndex, Failing
  <2>4. ReceiveInv(i)
    OBVIOUS
  <2> QED BY <2>1, <2>2, <2>3, <2>4, ReceiveSame
<1>6. CASE Initialize
  <2> DEFINE j == at[Acceptor]
  <2>1. /\ pc[Acceptor] = "initialize" /\ pc' = [pc EXCEPT ![Acceptor] = "bind"]
        /\ UNCHANGED <<pending, port, at, back>>
        /\ j \in Slots /\ sid' = [sid EXCEPT ![j] = counter] /\ sock' = [sock EXCEPT ![j] = counter]
        /\ valid' = [valid EXCEPT ![j] = TRUE] /\ ~InFlight(j) /\ counter \in Conns
    BY <1>6 DEF Initialize
  <2>2. CASE i # j
    <3>1. /\ sid'[i] = sid[i] /\ (InUse(i)' <=> InUse(i)) /\ (AtPort(i)' <=> AtPort(i)) /\ OneAtPort(i)'
          /\ ReceiveInv(i)
      BY <2>1, <2>2 DEF InUse, AtPort, OneAtPort, ReceiveInv
    <3>2. ~Receiving(Acceptor, i) /\ ~Receiving(Acceptor, i)' /\ ~Failing(Acceptor, i)
      BY <2>1, <2>2 DEF Receiving, Failing
    <3> QED BY <2>1, <3>1, <3>2, ReceiveKept
  <2>3. CASE i = j
    <3>1. ~AtPort(i) /\ \A t \in Threads \ {Acceptor} : ~Receiving(t, i)
      BY <2>1, <2>3 DEF InFlight, AtPort, Receiving, Closing
    <3>2. ~AtPort(i)' /\ \A t \in Threads \ {Acceptor} : ~Receiving(t, i)'
      BY <2>1, <3>1 DEF AtPort, Receiving
    <3>3. pending[counter] = 0
      <4>1. slotOf[counter] = 0
        BY <2>1 DEF FreshInv
      <4>2. ~(pending[counter] > 0)
        BY <2>1, <4>1 DEF WireInv
      <4> QED BY <2>1, <4>2
    <3>4. ~InKernel(i)' /\ \A u \in Conns : sid'[i] = u => pending'[u] <= 1
      BY <2>1, <2>3, <3>3 DEF InKernel
    <3>5. Receiving(Acceptor, i)'
      BY <2>1, <2>3 DEF Receiving
    <3>6. OneAtPort(i)'
      BY <3>2 DEF AtPort, OneAtPort
    <3> QED BY <3>2, <3>4, <3>5, <3>6 DEF ReceiveInv
  <2> QED BY <2>2, <2>3
<1>7. CASE Bind
  <2> DEFINE j == at[Acceptor]
  <2>1. /\ pc[Acceptor] = "bind" /\ UNCHANGED <<pending, port, at, back, sid, valid>> /\ j \in Slots
        /\ \/ pc' = [pc EXCEPT ![Acceptor] = "announce"] /\ sock' = sock
           \/ pc' = [pc EXCEPT ![Acceptor] = "accept"] /\ sock' = [sock EXCEPT ![j] = 0]
    BY <1>7 DEF Bind
  <2>2. (AtPort(i)' <=> AtPort(i)) /\ OneAtPort(i)' /\ ReceiveInv(i)
    <3>1. ReceiveInv(i) /\ port' = port
      BY <2>1
    <3>2. OneAtPort(i)
      BY <3>1 DEF ReceiveInv
    <3> QED BY <3>1, <3>2 DEF AtPort, OneAtPort
  <2>3. /\ (InUse(i)' => InUse(i)) /\ (Receiving(Acceptor, i)' => Receiving(Acceptor, i))
        /\ ~Failing(Acceptor, i)
    BY <2>1 DEF InUse, Receiving, Failing, Closing
  <2>4. InUse(i)' /\ Receiving(Acceptor, i) => Receiving(Acceptor, i)'
    BY <2>1 DEF InUse, Receiving, Closing
  <2> QED BY <2>1, <2>2, <2>3, <2>4, ReceiveKept
<1>8. CASE Announce
  <2>1. /\ UNCHANGED <<sid, pending, port, valid, sock>>
        /\ \A v \in Threads \ {Acceptor} : pc'[v] = pc[v] /\ at'[v] = at[v] /\ back'[v] = back[v]
    BY <1>8 DEF Announce
  <2>2. /\ (Receiving(Acceptor, i)' => Receiving(Acceptor, i))
        /\ (InUse(i) /\ Receiving(Acceptor, i) => (Receiving(Acceptor, i) \/ Failing(Acceptor, i))')
    BY <1>8 DEF Announce, Receiving, Failing, Closing, InUse
  <2>3. Failing(Acceptor, i) => Failing(Acceptor, i)'
    BY <1>8 DEF Announce, Failing
  <2>4. ReceiveInv(i)
    OBVIOUS
  <2> QED BY <2>1, <2>2, <2>3, <2>4, ReceiveSame
<1>9. CASE RequestSendMsg
  <2>0. back[Game] = "idle" /\ back' = back /\ pc'[Game] # "postrecv"
    BY <1>9 DEF RequestSendMsg, FindSession, LocalInv, Home
  <2>1. /\ UNCHANGED <<sid, pending, port, valid, sock>>
        /\ \A v \in Threads \ {Game} : pc'[v] = pc[v] /\ at'[v] = at[v] /\ back'[v] = back[v]
    BY <1>9 DEF RequestSendMsg, FindSession
  <2>2. /\ (Receiving(Game, i)' => Receiving(Game, i))
        /\ (InUse(i) /\ Receiving(Game, i) => (Receiving(Game, i) \/ Failing(Game, i))')
    BY <1>9, <2>0 DEF RequestSendMsg, FindSession, Receiving, Failing, Closing, InUse
  <2>3. Failing(Game, i) => Failing(Game, i)'
    BY <1>9 DEF RequestSendMsg, FindSession, Failing
  <2>4. ReceiveInv(i)
    OBVIOUS
  <2> QED BY <2>1, <2>2, <2>3, <2>4, ReceiveSame
<1>10. CASE RequestDisconnectSession
  <2>0. back[Game] = "idle" /\ back' = back /\ pc'[Game] # "postrecv"
    BY <1>10 DEF RequestDisconnectSession, FindSession, LocalInv, Home
  <2>1. /\ UNCHANGED <<sid, pending, port, valid, sock>>
        /\ \A v \in Threads \ {Game} : pc'[v] = pc[v] /\ at'[v] = at[v] /\ back'[v] = back[v]
    BY <1>10 DEF RequestDisconnectSession, FindSession
  <2>2. /\ (Receiving(Game, i)' => Receiving(Game, i))
        /\ (InUse(i) /\ Receiving(Game, i) => (Receiving(Game, i) \/ Failing(Game, i))')
    BY <1>10, <2>0 DEF RequestDisconnectSession, FindSession, Receiving, Failing, Closing, InUse
  <2>3. Failing(Game, i) => Failing(Game, i)'
    BY <1>10 DEF RequestDisconnectSession, FindSession, Failing
  <2>4. ReceiveInv(i)
    OBVIOUS
  <2> QED BY <2>1, <2>2, <2>3, <2>4, ReceiveSame
<1>11. CASE SendValid
  <2>0. back[Game] = "idle" /\ back' = back /\ pc'[Game] # "postrecv"
    BY <1>11 DEF SendValid, LocalInv, Home
  <2>1. /\ UNCHANGED <<sid, pending, port, valid, sock>>
        /\ \A v \in Threads \ {Game} : pc'[v] = pc[v] /\ at'[v] = at[v] /\ back'[v] = back[v]
    BY <1>11 DEF SendValid
  <2>2. /\ (Receiving(Game, i)' => Receiving(Game, i))
        /\ (InUse(i) /\ Receiving(Game, i) => (Receiving(Game, i) \/ Failing(Game, i))')
    BY <1>11, <2>0 DEF SendValid, Receiving, Failing, Closing, InUse
  <2>3. Failing(Game, i) => Failing(Game, i)'
    BY <1>11 DEF SendValid, Failing
  <2>4. ReceiveInv(i)
    OBVIOUS
  <2> QED BY <2>1, <2>2, <2>3, <2>4, ReceiveSame
<1>12. CASE Send
  <2>0. back[Game] = "idle" /\ back' = back /\ pc'[Game] # "postrecv"
    BY <1>12 DEF Send, LocalInv, Home
  <2>1. /\ UNCHANGED <<sid, pending, port, valid, sock>>
        /\ \A v \in Threads \ {Game} : pc'[v] = pc[v] /\ at'[v] = at[v] /\ back'[v] = back[v]
    BY <1>12 DEF Send
  <2>2. /\ (Receiving(Game, i)' => Receiving(Game, i))
        /\ (InUse(i) /\ Receiving(Game, i) => (Receiving(Game, i) \/ Failing(Game, i))')
    BY <1>12, <2>0 DEF Send, Receiving, Failing, Closing, InUse
  <2>3. Failing(Game, i) => Failing(Game, i)'
    BY <1>12 DEF Send, Failing
  <2>4. ReceiveInv(i)
    OBVIOUS
  <2> QED BY <2>1, <2>2, <2>3, <2>4, ReceiveSame
<1>13. ASSUME NEW w \in Workers, TakeCompletion(w) PROVE ReceiveInv(i)'
  <2> DEFINE j == port[1].slot
  <2>1. /\ port' \in Seq(Completion) /\ Len(port) > 0 /\ Len(port') = Len(port) - 1
        /\ \A k \in 1..Len(port') : port'[k] = port[k + 1]
        /\ at' = [at EXCEPT ![w] = j] /\ j \in Slots
        /\ pc[w] = "idle" /\ pc' = [pc EXCEPT ![w] = IF port[1].ok THEN "check" ELSE "drop"]
    BY <1>13, TakeEffect
  <2>2. UNCHANGED <<slotVars, pending, back>> /\ w # Game /\ w \in Threads /\ back[w] \in {Home(w), "postrecv"}
        /\ ~Receiving(w, i) /\ ~Failing(w, i) /\ back[w] = Home(w)
    BY <1>13, <2>1 DEF TakeCompletion, LocalInv, Receiving, Failing, Closing
  <2>3. ReceiveInv(i) /\ (InUse(i)' <=> InUse(i)) /\ OneAtPort(i)
    BY <2>2 DEF InUse, ReceiveInv
  <2>4. /\ OneAtPort(i)'
        /\ i # j => (AtPort(i)' <=> AtPort(i))
        /\ i = j => AtPort(i) /\ ~AtPort(i)'
    <3> HIDE DEF ReceiveInv
    <3> QED BY <2>1, <2>3, PortShrinks
  <2>5. \A v \in Threads \ {w} : pc'[v] = pc[v] /\ at'[v] = at[v] /\ back'[v] = back[v]
    BY <2>1, <2>2
  <2>6. CASE i # j
    <3>1. ~Receiving(w, i)' /\ \A u \in Conns : sid[i] = u => pending'[u] = pending[u]
      BY <2>1, <2>2, <2>6 DEF Receiving
    <3>2. sid'[i] = sid[i]
      BY <2>2
    <3> QED BY <2>2, <2>3, <2>4, <2>5, <2>6, <3>1, <3>2, ReceiveKept
  <2>7. CASE i = j
    <3>1. AtPort(i) /\ ~AtPort(i)' /\ ~InKernel(i) /\ \A v \in Threads : ~Receiving(v, i)
      BY <2>3, <2>4, <2>7 DEF ReceiveInv
    <3>2. ~InKernel(i)' /\ \A u \in Conns : sid'[i] = u => pending'[u] <= 1
      BY <2>2, <2>3, <3>1 DEF InKernel, ReceiveInv
    <3>3. \A v \in Threads \ {w} : ~Receiving(v, i)'
      BY <2>5, <3>1 DEF Receiving
    <3>4. Receiving(w, i)' \/ Failing(w, i)'
      BY <2>1, <2>2, <2>7 DEF Receiving, Failing
    <3> QED BY <2>2, <2>4, <3>1, <3>2, <3>3, <3>4 DEF ReceiveInv
  <2> QED BY <2>6, <2>7
<1>14. ASSUME NEW w \in Workers, CheckSession(w) PROVE ReceiveInv(i)'
  <2>1. /\ UNCHANGED <<sid, pending, port, valid, sock>>
        /\ \A v \in Threads \ {w} : pc'[v] = pc[v] /\ at'[v] = at[v] /\ back'[v] = back[v]
    BY <1>14 DEF CheckSession
  <2>2. /\ (Receiving(w, i)' => Receiving(w, i))
        /\ (InUse(i) /\ Receiving(w, i) => (Receiving(w, i) \/ Failing(w, i))')
    BY <1>14 DEF CheckSession, Receiving, Failing, Closing, InUse, OwnInv
  <2>3. Failing(w, i) => Failing(w, i)'
    BY <1>14 DEF CheckSession, Failing
  <2>4. ReceiveInv(i)
    OBVIOUS
  <2> QED BY <2>1, <2>2, <2>3, <2>4, ReceiveSame
<1>15. ASSUME NEW w \in Workers, Parse(w) PROVE ReceiveInv(i)'
  <2>1. /\ UNCHANGED <<sid, pending, port, valid, sock>>
        /\ \A v \in Threads \ {w} : pc'[v] = pc[v] /\ at'[v] = at[v] /\ back'[v] = back[v]
    BY <1>15 DEF Parse
  <2>2. /\ (Receiving(w, i)' => Receiving(w, i))
        /\ (InUse(i) /\ Receiving(w, i) => (Receiving(w, i) \/ Failing(w, i))')
    BY <1>15 DEF Parse, Receiving, Failing, Closing, InUse
  <2>3. Failing(w, i) => Failing(w, i)'
    BY <1>15 DEF Parse, Failing
  <2>4. ReceiveInv(i)
    OBVIOUS
  <2> QED BY <2>1, <2>2, <2>3, <2>4, ReceiveSame
<1>16. ASSUME NEW t \in Threads, PostRecv(t) PROVE ReceiveInv(i)'
  <2>1. /\ UNCHANGED <<sid, pending, port, valid, sock>>
        /\ \A v \in Threads \ {t} : pc'[v] = pc[v] /\ at'[v] = at[v] /\ back'[v] = back[v]
    BY <1>16 DEF PostRecv
  <2>2. /\ (Receiving(t, i)' => Receiving(t, i))
        /\ (InUse(i) /\ Receiving(t, i) => (Receiving(t, i) \/ Failing(t, i))')
    BY <1>16 DEF PostRecv, Receiving, Failing, Closing, InUse
  <2>3. Failing(t, i) => Failing(t, i)'
    BY <1>16 DEF PostRecv, Failing
  <2>4. ReceiveInv(i)
    OBVIOUS
  <2> QED BY <2>1, <2>2, <2>3, <2>4, ReceiveSame
<1>17. ASSUME NEW t \in Threads, Submit(t) PROVE ReceiveInv(i)'
  <2> DEFINE j == at[t]
  <2>1. /\ pc[t] = "submit" /\ pc' = [pc EXCEPT ![t] = pc'[t]] /\ j \in Slots /\ t # Game
        /\ UNCHANGED <<slotVars, port, at, back>> /\ back[t] = Home(t)
        /\ \/ pc'[t] = "drop" /\ pending' = pending
           \/ /\ pc'[t] \in {"idle", "accept"} /\ sock[j] # 0
              /\ pending' = [pending EXCEPT ![sock[j]] = pending[sock[j]] + 1]
    BY <1>17 DEF Submit, LocalInv, Closing
  <2>2. (AtPort(i)' <=> AtPort(i)) /\ OneAtPort(i)' /\ ReceiveInv(i) /\ (InUse(i)' <=> InUse(i))
    <3>1. ReceiveInv(i) /\ port' = port /\ UNCHANGED <<valid, sock>>
      BY <2>1
    <3>2. OneAtPort(i)
      BY <3>1 DEF ReceiveInv
    <3> QED BY <3>1, <3>2 DEF AtPort, OneAtPort, InUse
  <2>3. ~Receiving(t, i)' /\ ~Failing(t, i)
    BY <2>1 DEF Receiving, Closing, Failing
  <2>4. CASE i # j
    <3>1. ~Receiving(t, i)
      BY <2>4 DEF Receiving
    <3>2. \A u \in Conns : sid[i] = u => pending'[u] = pending[u]
      BY <2>1, <2>4 DEF OwnInv, Conns
    <3>3. /\ sid'[i] = sid[i]
          /\ \A v \in Threads \ {t} : pc'[v] = pc[v] /\ at'[v] = at[v] /\ back'[v] = back[v]
      BY <2>1
    <3> QED BY <2>2, <2>3, <3>1, <3>2, <3>3, ReceiveKept
  <2>5. CASE i = j /\ pc'[t] = "drop"
    <3>1. Failing(t, i)' /\ pending' = pending
      BY <2>1, <2>5 DEF Failing
    <3>2. /\ sid'[i] = sid[i]
          /\ \A v \in Threads \ {t} : pc'[v] = pc[v] /\ at'[v] = at[v] /\ back'[v] = back[v]
      BY <2>1
    <3> QED BY <2>2, <2>3, <3>1, <3>2, ReceiveKept
  <2>6. CASE i = j /\ pc'[t] # "drop"
    <3>1. sock[i] = sid[i] /\ sid[i] # 0 /\ sid[i] \in Conns
      BY <2>1, <2>6 DEF OwnInv, Conns
    <3>2. Receiving(t, i)
      BY <2>1, <2>6 DEF Receiving
    <3>3. ~InKernel(i) /\ ~AtPort(i) /\ \A v \in Threads : Receiving(v, i) => v = t
      BY <2>2, <3>2 DEF ReceiveInv
    <3>4. pending[sid[i]] = 0 /\ sid' = sid
      BY <2>1, <3>1, <3>3 DEF InKernel
    <3>5. pending'[sid[i]] = 1
      BY <2>1, <2>6, <3>1, <3>4
    <3>6. \A v \in Threads : ~Receiving(v, i)'
      <4>1. ASSUME NEW v \in Threads, v # t PROVE ~Receiving(v, i)'
        BY <2>1, <3>3, <4>1 DEF Receiving
      <4> QED BY <2>3, <4>1
    <3>7. InKernel(i)'
      BY <3>1, <3>4, <3>5 DEF InKernel
    <3>8. \A u \in Conns : sid'[i] = u => pending'[u] <= 1
      BY <3>4, <3>5
    <3> QED BY <2>2, <3>3, <3>6, <3>7, <3>8 DEF ReceiveInv
  <2> QED BY <2>4, <2>5, <2>6
<1>18. ASSUME NEW t \in Threads, Drop(t) PROVE ReceiveInv(i)'
  <2> DEFINE j == at[t]
  <2>1. /\ pc[t] = "drop" /\ UNCHANGED <<sock, sid, pending, port, at>> /\ j \in Slots
        /\ valid' = [valid EXCEPT ![j] = FALSE]
        /\ \A v \in Threads \ {t} : pc'[v] = pc[v] /\ back'[v] = back[v]
        /\ pc'[t] = (IF valid[j] THEN "close" ELSE back[t])
        /\ back'[t] = (IF valid[j] THEN back[t] ELSE Home(t))
        /\ back[t] \in {Home(t), "postrecv"}
    BY <1>18 DEF Drop, LocalInv
  <2>2. (AtPort(i)' <=> AtPort(i)) /\ OneAtPort(i)' /\ ReceiveInv(i)
    <3>1. ReceiveInv(i) /\ port' = port
      BY <2>1
    <3>2. OneAtPort(i)
      BY <3>1 DEF ReceiveInv
    <3> QED BY <3>1, <3>2 DEF AtPort, OneAtPort
  <2>3. InUse(i)' => InUse(i) /\ i # j
    BY <2>1 DEF InUse
  <2>4. Receiving(t, i)' => Receiving(t, i)
    BY <2>1 DEF Receiving, Closing
  <2>5. i # j => ~Receiving(t, i) /\ ~Failing(t, i)
    BY DEF Receiving, Failing
  <2> QED BY <2>1, <2>2, <2>3, <2>4, <2>5, ReceiveKept
<1>19. ASSUME NEW t \in Threads, CloseSocket(t) PROVE ReceiveInv(i)'
  <2> DEFINE j == at[t]
           n == IF sock[j] = 0 THEN 0 ELSE IF slotOf[sock[j]] = 0 THEN 0 ELSE pending[sock[j]]
  <2>1. /\ pc[t] = "close" /\ pc' = [pc EXCEPT ![t] = "push"] /\ j \in Slots
        /\ UNCHANGED <<sid, valid, at, back>> /\ CloseSocketOf(j)
    BY <1>19 DEF CloseSocket
  <2>2. /\ sock' = [sock EXCEPT ![j] = 0] /\ n \in Nat
        /\ \A u \in Conns : pending'[u] = IF u = sock[j] THEN 0 ELSE pending[u]
        /\ port' \in Seq(Completion) /\ Len(port') = Len(port) + n
        /\ \A k \in 1..Len(port) : port'[k] = port[k]
        /\ \A k \in Len(port) + 1..Len(port') : port'[k] = Failed(sock[j])
    <3> HIDE DEF j
    <3> QED BY <2>1, CloseEffect
  <2>3. Serving(t) /\ pc[t] \notin {"bind", "announce"} /\ SessionInv(j) /\ Ending(t, j)
    BY <2>1 DEF Serving, Ending, Closing
  <2>4. sid[j] # 0 /\ slotOf[sid[j]] = j /\ ~valid[j] /\ sock[j] \in {0, sid[j]} /\ sid[j] \in Conns
    <3>1. sid[j] # 0 /\ slotOf[sid[j]] = j
      BY <2>3, Served
    <3>2. ~valid[j]
      BY <2>3 DEF SessionInv, LifeInv
    <3>3. sock[j] \in {0, sid[j]} /\ sid[j] \in 0..MaxConns
      BY <2>1 DEF OwnInv
    <3> QED BY <3>1, <3>2, <3>3 DEF Conns
  <2>5. /\ sock[j] = 0 => n = 0
        /\ sock[j] # 0 => n = pending[sid[j]]
    <3>1. ASSUME sock[j] # 0 PROVE n = pending[sid[j]]
      <4>1. sock[j] = sid[j] /\ slotOf[sock[j]] # 0
        BY <2>1, <2>4, <3>1
      <4> QED BY <3>1, <4>1
    <3> QED BY <3>1
  <2>6. /\ ReceiveInv(i) /\ (InUse(i)' => InUse(i)) /\ (Receiving(t, i)' <=> Receiving(t, i))
        /\ ~Failing(t, i)
    BY <2>1, <2>2 DEF InUse, Receiving, Failing, Closing
  <2>7. \A v \in Threads \ {t} : pc'[v] = pc[v] /\ at'[v] = at[v] /\ back'[v] = back[v]
    BY <2>1
  <2>8. \A k \in Len(port) + 1..Len(port') : port'[k].slot = slotOf[sock[j]]
    BY <2>2 DEF Failed
  <2> HIDE DEF n
  <2>9. /\ i # slotOf[sock[j]] \/ n = 0 => (AtPort(i)' <=> AtPort(i)) /\ (OneAtPort(i) => OneAtPort(i)')
        /\ n = 1 /\ ~AtPort(i) => OneAtPort(i)'
        /\ n = 1 /\ i = slotOf[sock[j]] => AtPort(i)'
    <3> HIDE DEF j
    <3> QED BY <2>2, <2>8, PortGrows
  <2>10. OneAtPort(i) /\ \A u \in Conns : sid[i] = u => pending[u] \in {0, 1}
    <3>1. OneAtPort(i) /\ \A u \in Conns : sid[i] = u => pending[u] <= 1 /\ pending[u] \in Nat
      BY <2>6 DEF ReceiveInv
    <3> QED BY <3>1
  <2>11. CASE i # j
    <3>1. sock[j] # 0 => i # slotOf[sock[j]] /\ sid[i] # sock[j]
      BY <2>1, <2>4, <2>11 DEF OwnInv
    <3>2. (AtPort(i)' <=> AtPort(i)) /\ OneAtPort(i)'
      BY <2>5, <2>9, <2>10, <3>1
    <3>3. \A u \in Conns : sid[i] = u => pending'[u] = pending[u]
      BY <2>2, <3>1, PoolAssumption DEF Conns
    <3>4. sid'[i] = sid[i]
      BY <2>1
    <3> QED BY <2>6, <2>7, <3>2, <3>3, <3>4, ReceiveKept
  <2>12. CASE i = j /\ n = 0
    <3>1. (AtPort(i)' <=> AtPort(i)) /\ OneAtPort(i)'
      BY <2>9, <2>10, <2>12
    <3>2. ASSUME NEW u \in Conns, sid[i] = u PROVE pending'[u] = pending[u]
      <4>1. CASE u = sock[j]
        BY <2>2, <2>4, <2>5, <2>12, <3>2, <4>1
      <4>2. CASE u # sock[j]
        BY <2>2, <4>2
      <4> QED BY <4>1, <4>2
    <3>3. sid'[i] = sid[i]
      BY <2>1
    <3> QED BY <2>6, <2>7, <3>1, <3>2, <3>3, ReceiveKept
  <2>13. CASE i = j /\ n # 0
    <3>1. sock[j] # 0 /\ sock[j] = sid[j] /\ n = pending[sid[j]]
      BY <2>4, <2>5, <2>13
    <3>2. n = 1
      BY <2>4, <2>10, <2>13, <3>1
    <3>3. InKernel(i)
      <4>1. pending[sid[i]] > 0
        BY <2>13, <3>1, <3>2
      <4> QED BY <2>4, <2>13, <4>1 DEF InKernel
    <3>4. ~AtPort(i) /\ \A v \in Threads : ~Receiving(v, i)
      BY <2>6, <3>3 DEF ReceiveInv
    <3>5. \A v \in Threads : ~Receiving(v, i)'
      BY <2>6, <2>7, <3>4 DEF Receiving
    <3>6. OneAtPort(i)'
      BY <2>9, <3>2, <3>4
    <3>7. sid'[i] = sid[j] /\ pending'[sid[j]] = 0
      BY <2>1, <2>2, <2>4, <2>13, <3>1
    <3>8. ~InKernel(i)' /\ \A u \in Conns : sid'[i] = u => pending'[u] <= 1
      BY <3>7 DEF InKernel
    <3>9. ~InUse(i)'
      BY <2>1, <2>4, <2>13 DEF InUse
    <3> QED BY <3>5, <3>6, <3>8, <3>9 DEF ReceiveInv
  <2> QED BY <2>11, <2>12, <2>13
<1>20. ASSUME NEW t \in Threads, ReadStack(t) PROVE ReceiveInv(i)'
  <2>1. /\ UNCHANGED <<sid, pending, port, valid, sock>>
        /\ \A v \in Threads \ {t} : pc'[v] = pc[v] /\ at'[v] = at[v] /\ back'[v] = back[v]
    BY <1>20 DEF ReadStack
  <2>2. /\ (Receiving(t, i)' => Receiving(t, i))
        /\ (InUse(i) /\ Receiving(t, i) => (Receiving(t, i) \/ Failing(t, i))')
    BY <1>20 DEF ReadStack, Receiving, Failing, Closing, InUse
  <2>3. Failing(t, i) => Failing(t, i)'
    BY <1>20 DEF ReadStack, Failing
  <2>4. ReceiveInv(i)
    OBVIOUS
  <2> QED BY <2>1, <2>2, <2>3, <2>4, ReceiveSame
<1>21. ASSUME NEW t \in Threads, WriteStack(t) PROVE ReceiveInv(i)'
  <2>1. /\ UNCHANGED <<sid, pending, port, valid, sock>>
        /\ \A v \in Threads \ {t} : pc'[v] = pc[v] /\ at'[v] = at[v] /\ back'[v] = back[v]
    BY <1>21 DEF WriteStack
  <2>2. /\ (Receiving(t, i)' => Receiving(t, i))
        /\ (InUse(i) /\ Receiving(t, i) => (Receiving(t, i) \/ Failing(t, i))')
    BY <1>21 DEF WriteStack, Receiving, Failing, Closing, InUse
  <2>3. Failing(t, i) => Failing(t, i)'
    BY <1>21 DEF WriteStack, Failing
  <2>4. ReceiveInv(i)
    OBVIOUS
  <2> QED BY <2>1, <2>2, <2>3, <2>4, ReceiveSame
<1>22. ASSUME NEW t \in Threads, Goodbye(t) PROVE ReceiveInv(i)'
  <2>1. /\ pc[t] = "goodbye" /\ UNCHANGED <<slotVars, pending, port, at>> /\ at[t] \in Slots
        /\ \A v \in Threads \ {t} : pc'[v] = pc[v] /\ back'[v] = back[v]
        /\ pc'[t] = back[t] /\ back[t] \in {Home(t), "postrecv"}
    BY <1>22 DEF Goodbye, Leave, LocalInv
  <2>2. ReceiveInv(i) /\ UNCHANGED <<sid, pending, port, valid, sock>>
    BY <2>1
  <2>3. Receiving(t, i)' => Receiving(t, i)
    BY <2>1 DEF Receiving, Closing
  <2>4. ~Failing(t, i) /\ (Receiving(t, i) => ~InUse(i))
    <3>1. at[t] = i => SessionInv(i) /\ Ending(t, i)
      BY <2>1 DEF Ending, Closing
    <3>2. at[t] = i => ~valid[i]
      BY <3>1 DEF SessionInv, LifeInv
    <3> QED BY <2>1, <3>2 DEF Failing, Receiving, InUse
  <2> QED BY <2>1, <2>2, <2>3, <2>4, ReceiveSame
<1>23. ASSUME NEW u \in Conns, Receive(u) PROVE ReceiveInv(i)'
  <2> DEFINE j == slotOf[u]
  <2>1. /\ pending[u] > 0 /\ \A v \in Conns : pending'[v] = IF v = u THEN pending[u] - 1 ELSE pending[v]
        /\ port' \in Seq(Completion)
        /\ \/ j = 0 /\ port' = port
           \/ /\ j \in Slots /\ Len(port') = Len(port) + 1
              /\ \A k \in 1..Len(port) : port'[k] = port[k]
              /\ port'[Len(port) + 1].slot = j /\ port'[Len(port) + 1].conn = u
    BY <1>23, ReceiveEffect
  <2>2. UNCHANGED <<slotVars, pc, at, back>>
    BY <1>23 DEF Receive
  <2>3. j \in Slots /\ sid[j] = u /\ u # 0
    BY <2>1 DEF WireInv, Conns
  <2>4. ReceiveInv(i) /\ (InUse(i)' <=> InUse(i)) /\ OneAtPort(i)
    BY <2>2 DEF InUse, ReceiveInv
  <2>5. \A v \in Threads : (Receiving(v, i)' <=> Receiving(v, i)) /\ (Failing(v, i)' <=> Failing(v, i))
    BY <2>2 DEF Receiving, Failing
  <2>6. /\ Len(port') = Len(port) + 1 /\ \A k \in 1..Len(port) : port'[k] = port[k]
        /\ \A k \in Len(port) + 1..Len(port') : port'[k].slot = j
    <3>1. j # 0
      BY <2>3
    <3>2. Len(port) \in Nat /\ \A k \in Len(port) + 1..Len(port) + 1 : k = Len(port) + 1
      OBVIOUS
    <3> QED BY <2>1, <3>1, <3>2
  <2>7. /\ i # j => (AtPort(i)' <=> AtPort(i)) /\ (OneAtPort(i) => OneAtPort(i)')
        /\ ~AtPort(i) => OneAtPort(i)'
        /\ i = j => AtPort(i)'
    <3> HIDE DEF j
    <3> QED BY <2>1, <2>6, PortGrows
  <2>8. CASE i # j
    <3>1. sid[i] # u
      BY <2>3, <2>8 DEF OwnInv
    <3>2. \A v \in Conns : sid[i] = v => pending'[v] = pending[v]
      BY <2>1, <3>1
    <3>3. \A v \in Threads \ {Game} : pc'[v] = pc[v] /\ at'[v] = at[v] /\ back'[v] = back[v]
      BY <2>2
    <3>4. sid'[i] = sid[i] /\ Game \in Threads
      BY <2>2
    <3> QED BY <2>4, <2>5, <2>7, <2>8, <3>2, <3>3, <3>4, ReceiveKept
  <2>9. CASE i = j
    <3>1. InKernel(i) /\ pending[u] <= 1
      BY <2>1, <2>3, <2>4, <2>9 DEF InKernel, ReceiveInv
    <3>2. ~AtPort(i) /\ \A v \in Threads : ~Receiving(v, i)
      BY <2>4, <3>1 DEF ReceiveInv
    <3>3. pending'[u] = 0 /\ sid'[i] = u
      BY <2>1, <2>2, <2>3, <2>9, <3>1
    <3>4. ~InKernel(i)' /\ \A v \in Conns : sid'[i] = v => pending'[v] <= 1
      BY <3>3 DEF InKernel
    <3> QED BY <2>5, <2>7, <2>9, <3>2, <3>4 DEF ReceiveInv
  <2> QED BY <2>8, <2>9
<1>24. CASE UNCHANGED vars
  <2>1. /\ UNCHANGED <<sid, pending, port, valid, sock, pc, at, back>> /\ ReceiveInv(i)
        /\ Game \in Threads
    BY <1>24 DEF vars
  <2>2. (Receiving(Game, i)' <=> Receiving(Game, i)) /\ (Failing(Game, i)' <=> Failing(Game, i))
    BY <2>1 DEF Receiving, Failing
  <2> QED BY <2>1, <2>2, ReceiveSame
<1> QED
  BY <1>1, <1>2, <1>3, <1>4, <1>5, <1>6, <1>7, <1>8, <1>9, <1>10, <1>11, <1>12, <1>13, <1>14,
     <1>15, <1>16, <1>17, <1>18, <1>19, <1>20, <1>21, <1>22, <1>23, <1>24
  DEF Next, Accepting, Working, Gaming, DisconnectSessionInternal

\* A slot is initialised again only when its last session was never announced or
\* has been heard to end.
LEMMA PastStep ==
  TypeOK /\ LocalInv /\ HeldInv /\ OwnInv /\ WireInv /\ ServeInv
    /\ (\A i \in Slots : SessionInv(i)) /\ (\A i \in Slots : ReceiveInv(i)) /\ PastInv
    /\ ~reused'
    /\ [Next]_vars => PastInv'
<1> SUFFICES ASSUME TypeOK, LocalInv, HeldInv, OwnInv, WireInv, ServeInv,
    (\A i \in Slots : SessionInv(i)), (\A i \in Slots : ReceiveInv(i)), PastInv, ~reused',
    [Next]_vars
             PROVE  PastInv'
  OBVIOUS
<1> USE PoolAssumption DEF Threads, Step, Goto, slotVars, poolVars, ioVars, localVars, history
<1>0. /\ sid \in [Slots -> 0..MaxConns] /\ MaxConns \in Nat
      /\ sock \in [Slots -> 0..MaxConns]
      /\ valid \in [Slots -> BOOLEAN]
      /\ counter \in Nat /\ counter \in 0..MaxConns
      /\ pc \in [Threads -> PCs] /\ Acceptor \in Threads /\ Game \in Threads
      /\ pc[Acceptor] = "initialize" =>
           for[Acceptor] = counter /\ counter > 0 /\ counter \in Conns /\ at[Acceptor] \in Slots
      /\ pc[Acceptor] \in {"bind", "announce"} =>
           for[Acceptor] = counter /\ counter > 0 /\ counter \in Conns /\ at[Acceptor] \in Slots
      /\ at \in [Threads -> Slots \cup {0}]
      /\ for \in [Threads -> 0..MaxConns]
      /\ \A t \in Threads : pc[t] \notin {"idle", "accept", "release", "pop", "return", "process"} =>
           at[t] \in Slots
      /\ back \in [Threads -> PCs]
      /\ \A t \in Threads : pc[t] \in {"drop"} \cup Closing => back[t] \in {"postrecv", "idle", "accept"}
      /\ \A t \in Threads : Home(t) = IF t = Acceptor THEN "accept" ELSE "idle"
      /\ Acceptor \notin Workers /\ Game \notin Workers /\ Game # Acceptor
      /\ \A t \in Threads : pc[t] \in {"idle", "check", "parse", "sendvalid", "send"} => t # Acceptor
      /\ pc[Game] \notin {"check", "parse", "postrecv", "submit", "initialize", "bind", "announce"}
      /\ \A t \in Threads : pc[t] \in {"accept", "release", "pop", "return", "process", "initialize", "bind", "announce"} =>
           t = Acceptor
      /\ events \in [Conns -> Seq({"CONNECTED", "DISCONNECTED"})]
      /\ slotOf \in [Conns -> Slots \cup {0}] /\ 0 \notin Slots
      /\ pending \in [Conns -> Nat]
  BY Shape
<1> USE <1>0
<1>1. CASE AcceptReturns
  <2>1. UNCHANGED <<sid, events>>
    BY <1>1 DEF AcceptReturns
  <2> QED BY <2>1 DEF PastInv
<1>2. CASE ReadTop
  <2>1. UNCHANGED <<sid, events>>
    BY <1>2 DEF ReadTop
  <2> QED BY <2>1 DEF PastInv
<1>3. CASE Pop
  <2>1. UNCHANGED <<sid, events>>
    BY <1>3 DEF Pop
  <2> QED BY <2>1 DEF PastInv
<1>4. CASE ReturnIndex
  <2>1. UNCHANGED <<sid, events>>
    BY <1>4 DEF ReturnIndex
  <2> QED BY <2>1 DEF PastInv
<1>5. CASE TakeIndex
  <2>1. UNCHANGED <<sid, events>>
    BY <1>5 DEF TakeIndex
  <2> QED BY <2>1 DEF PastInv
<1>6. CASE Initialize
  <2> DEFINE j == at[Acceptor]
  <2>1. /\ pc[Acceptor] = "initialize" /\ events' = events /\ j \in Slots /\ ~InFlight(j)
        /\ sid' = [sid EXCEPT ![j] = for[Acceptor]]
    BY <1>6 DEF Initialize
  <2>2. ~AtPort(j) /\ \A t \in Threads : ~Receiving(t, j) /\ ~Failing(t, j) /\ ~Ending(t, j)
    BY <2>1 DEF InFlight, AtPort, Receiving, Failing, Ending, Closing
  <2>3. ~InKernel(j)
    <3>1. ASSUME NEW u \in Conns, sid[j] = u, pending[u] > 0 PROVE FALSE
      <4>1. slotOf[u] \in Slots /\ sid[slotOf[u]] = u /\ u # 0
        BY <3>1 DEF WireInv, Conns
      <4>2. slotOf[u] = j
        BY <2>1, <3>1, <4>1 DEF OwnInv
      <4> QED BY <2>1, <3>1, <4>2 DEF InFlight
    <3> QED BY <3>1 DEF InKernel
  <2>4. ~InUse(j) /\ SessionInv(j)
    BY <2>1, <2>2, <2>3 DEF ReceiveInv
  <2>5. sid[j] # 0 => events[sid[j]] \in {<<>>, <<"CONNECTED", "DISCONNECTED">>}
    <3>1. CASE valid[j]
      BY <2>4, <3>1 DEF SessionInv, QuietInv, Vacant, InUse
    <3>2. CASE ~valid[j]
      BY <2>2, <2>4, <3>2 DEF SessionInv, LifeInv
    <3> QED BY <3>1, <3>2
  <2>6. SUFFICES ASSUME NEW u \in Conns, \A i \in Slots : sid'[i] # u
                 PROVE  events[u] \in {<<>>, <<"CONNECTED", "DISCONNECTED">>}
    BY <2>1 DEF PastInv
  <2>7. CASE sid[j] = u
    BY <2>5, <2>7 DEF Conns
  <2>8. CASE sid[j] # u
    <3>1. \A i \in Slots : sid[i] # u
      BY <2>1, <2>6, <2>8
    <3> QED BY <3>1 DEF PastInv
  <2> QED BY <2>7, <2>8
<1>7. CASE Bind
  <2>1. UNCHANGED <<sid, events>>
    BY <1>7 DEF Bind
  <2> QED BY <2>1 DEF PastInv
<1>8. CASE Announce
  <2> DEFINE j == at[Acceptor]
  <2>1. /\ sid' = sid /\ j \in Slots /\ for[Acceptor] = sid[j]
        /\ events' = [events EXCEPT ![for[Acceptor]] = Append(events[for[Acceptor]], "CONNECTED")]
    BY <1>8 DEF Announce, ServeInv, Serving
  <2>2. \A u \in Conns : (\A i \in Slots : sid[i] # u) => events'[u] = events[u]
    BY <2>1
  <2> QED BY <2>1, <2>2 DEF PastInv
<1>9. CASE RequestSendMsg
  <2>1. UNCHANGED <<sid, events>>
    BY <1>9 DEF RequestSendMsg, FindSession
  <2> QED BY <2>1 DEF PastInv
<1>10. CASE RequestDisconnectSession
  <2>1. UNCHANGED <<sid, events>>
    BY <1>10 DEF RequestDisconnectSession, FindSession
  <2> QED BY <2>1 DEF PastInv
<1>11. CASE SendValid
  <2>1. UNCHANGED <<sid, events>>
    BY <1>11 DEF SendValid
  <2> QED BY <2>1 DEF PastInv
<1>12. CASE Send
  <2>1. UNCHANGED <<sid, events>>
    BY <1>12 DEF Send
  <2> QED BY <2>1 DEF PastInv
<1>13. ASSUME NEW w \in Workers, TakeCompletion(w) PROVE PastInv'
  <2>1. UNCHANGED <<sid, events>>
    BY <1>13 DEF TakeCompletion
  <2> QED BY <2>1 DEF PastInv
<1>14. ASSUME NEW w \in Workers, CheckSession(w) PROVE PastInv'
  <2>1. UNCHANGED <<sid, events>>
    BY <1>14 DEF CheckSession
  <2> QED BY <2>1 DEF PastInv
<1>15. ASSUME NEW w \in Workers, Parse(w) PROVE PastInv'
  <2>1. UNCHANGED <<sid, events>>
    BY <1>15 DEF Parse
  <2> QED BY <2>1 DEF PastInv
<1>16. ASSUME NEW t \in Threads, PostRecv(t) PROVE PastInv'
  <2>1. UNCHANGED <<sid, events>>
    BY <1>16 DEF PostRecv
  <2> QED BY <2>1 DEF PastInv
<1>17. ASSUME NEW t \in Threads, Submit(t) PROVE PastInv'
  <2>1. UNCHANGED <<sid, events>>
    BY <1>17 DEF Submit
  <2> QED BY <2>1 DEF PastInv
<1>18. ASSUME NEW t \in Threads, Drop(t) PROVE PastInv'
  <2>1. UNCHANGED <<sid, events>>
    BY <1>18 DEF Drop
  <2> QED BY <2>1 DEF PastInv
<1>19. ASSUME NEW t \in Threads, CloseSocket(t) PROVE PastInv'
  <2>1. UNCHANGED <<sid, events>>
    BY <1>19 DEF CloseSocket
  <2> QED BY <2>1 DEF PastInv
<1>20. ASSUME NEW t \in Threads, ReadStack(t) PROVE PastInv'
  <2>1. UNCHANGED <<sid, events>>
    BY <1>20 DEF ReadStack
  <2> QED BY <2>1 DEF PastInv
<1>21. ASSUME NEW t \in Threads, WriteStack(t) PROVE PastInv'
  <2>1. UNCHANGED <<sid, events>>
    BY <1>21 DEF WriteStack
  <2> QED BY <2>1 DEF PastInv
<1>22. ASSUME NEW t \in Threads, Goodbye(t) PROVE PastInv'
  <2> DEFINE j == at[t]
  <2>1. /\ sid' = sid /\ j \in Slots
        /\ events' = events \/ events' = [events EXCEPT ![sid[j]] = Append(events[sid[j]], "DISCONNECTED")]
    BY <1>22 DEF Goodbye, Leave
  <2>2. \A u \in Conns : (\A i \in Slots : sid[i] # u) => events'[u] = events[u]
    BY <2>1
  <2> QED BY <2>1, <2>2 DEF PastInv
<1>23. ASSUME NEW u \in Conns, Receive(u) PROVE PastInv'
  <2>1. UNCHANGED <<sid, events>>
    BY <1>23 DEF Receive
  <2> QED BY <2>1 DEF PastInv
<1>24. CASE UNCHANGED vars
  <2>1. UNCHANGED <<sid, events>>
    BY <1>24 DEF vars
  <2> QED BY <2>1 DEF PastInv
<1> QED
  BY <1>1, <1>2, <1>3, <1>4, <1>5, <1>6, <1>7, <1>8, <1>9, <1>10, <1>11, <1>12, <1>13, <1>14,
     <1>15, <1>16, <1>17, <1>18, <1>19, <1>20, <1>21, <1>22, <1>23, <1>24
  DEF Next, Accepting, Working, Gaming, DisconnectSessionInternal

\* The parser is the only one to hand packets on, and it works for a session that
\* was announced, torn down since or not.
LEMMA NewsStep ==
  TypeOK /\ LocalInv /\ HeldInv /\ (\A i \in Slots : SessionInv(i)) /\ NewsInv /\ [Next]_vars
    => NewsInv'
<1> SUFFICES ASSUME TypeOK, LocalInv, HeldInv, (\A i \in Slots : SessionInv(i)), NewsInv, [Next]_vars
             PROVE  NewsInv'
  OBVIOUS
<1>1. premature' = premature \/ \E w \in Workers : Parse(w)
  BY Zenon DEF Next, vars, Accepting, Working, Gaming, DisconnectSessionInternal, history,
     AcceptReturns, ReadTop, Pop, ReturnIndex, TakeIndex, Initialize, Bind, Announce,
     RequestSendMsg, RequestDisconnectSession, FindSession, SendValid, Send,
     TakeCompletion, CheckSession, PostRecv, Submit, Receive,
     Drop, CloseSocket, ReadStack, WriteStack, Goodbye
<1>2. ASSUME NEW w \in Workers, Parse(w) PROVE premature' = premature
  <2> DEFINE i == at[w]
  <2>1. pc[w] = "parse" /\ w \in Threads /\ (events[sid[i]] # <<>> => premature' = premature)
    BY <1>2 DEF Parse, Step, Threads
  <2>2. i \in Slots /\ Serving(w)
    BY <2>1 DEF LocalInv, Serving
  <2>3. SessionInv(i)
    BY <2>2
  <2>4. ~Vacant(i) /\ ~Presenting(i)
    BY <2>1, <2>2, <2>3, Served
  <2>5. LifeInv(i)
    BY <2>3 DEF SessionInv
  <2>6. events[sid[i]] \in {<<"CONNECTED">>, <<"CONNECTED", "DISCONNECTED">>}
    <3> HIDE DEF i
    <3> QED BY <2>4, <2>5 DEF LifeInv, Vacant, InUse
  <2>7. <<"CONNECTED">> # <<>> /\ <<"CONNECTED", "DISCONNECTED">> # <<>>
    OBVIOUS
  <2> QED BY <2>1, <2>6, <2>7
<1> QED BY <1>1, <1>2 DEF NewsInv

\* A step that moves no index.
LEMMA PlaceKept ==
  ASSUME NEW i \in Slots, NEW t \in Threads, PlaceInv(i), UNCHANGED <<available, stack>>, sid'[i] = sid[i],
         InUse(i)' <=> InUse(i), \A v \in Threads \ {t} : pc'[v] = pc[v] /\ at'[v] = at[v],
         Tearing(t, i)' <=> Tearing(t, i), Starting(i)' <=> Starting(i), Returning(i)' <=> Returning(i),
         Returning(i) => copy'[Acceptor].id = copy[Acceptor].id
  PROVE  PlaceInv(i)'
<1>1. Torn(i)' <=> Torn(i)
  BY DEF Torn, Tearing
<1>2. (Free(i)' <=> Free(i)) /\ (Stacked(i)' <=> Stacked(i)) /\ (OneFree(i)' <=> OneFree(i))
  BY DEF Free, Stacked, OneFree
<1>3. OneStacked(i) => OneStacked(i)'
  BY DEF OneStacked
<1> QED BY <1>1, <1>2, <1>3 DEF PlaceInv

\* An index that is pushed to the pool.
LEMMA FreeAppend ==
  ASSUME NEW i \in Slots, NEW j \in Slots, available \in Seq(Slots), available' = Append(available, j), OneFree(i),
         i = j => ~Free(i)
  PROVE  OneFree(i)' /\ (i # j => (Free(i)' <=> Free(i))) /\ (i = j => Free(i)')
<1>1. /\ Len(available) \in Nat /\ Len(available') = Len(available) + 1
      /\ \A k \in 1..Len(available) : available'[k] = available[k]
      /\ available'[Len(available) + 1] = j
  OBVIOUS
<1>2. \A k \in 1..Len(available') : k \in 1..Len(available) \/ k = Len(available) + 1
  BY <1>1
<1>3. Len(available) + 1 \in 1..Len(available') /\ \A k \in 1..Len(available) : k \in 1..Len(available')
  BY <1>1
<1>4. \A k \in 1..Len(available') : available'[k] = i =>
        (k \in 1..Len(available) /\ available[k] = i) \/ (k = Len(available) + 1 /\ i = j)
  BY <1>1, <1>2
<1>5. OneFree(i)'
  BY <1>4 DEF OneFree, Free
<1>6. (i # j => (Free(i)' <=> Free(i))) /\ (i = j => Free(i)')
  BY <1>1, <1>3, <1>4 DEF Free
<1> QED BY <1>5, <1>6

\* The index at the head of the pool is taken.
LEMMA FreeTail ==
  ASSUME NEW i \in Slots, available \in Seq(Slots), available # <<>>, available' = Tail(available), OneFree(i)
  PROVE  /\ OneFree(i)' /\ (i # Head(available) => (Free(i)' <=> Free(i)))
         /\ i = Head(available) => Free(i) /\ ~Free(i)'
<1>1. /\ Len(available) \in Nat /\ Len(available) > 0 /\ Len(available') = Len(available) - 1
      /\ Head(available) = available[1]
  OBVIOUS
<1>2. \A k \in 1..Len(available') : available'[k] = available[k + 1]
  OBVIOUS
<1>3. \A k \in 1..Len(available') : k + 1 \in 1..Len(available) /\ k + 1 # 1
  BY <1>1
<1>4. \A k \in 1..Len(available) : k = 1 \/ (k - 1 \in 1..Len(available') /\ (k - 1) + 1 = k)
  BY <1>1
<1>5. OneFree(i)'
  <2> SUFFICES ASSUME NEW k \in 1..Len(available'), NEW l \in 1..Len(available'), available'[k] = i, available'[l] = i
               PROVE  k = l
    BY DEF OneFree
  <2>1. k + 1 = l + 1
    BY <1>2, <1>3 DEF OneFree
  <2> QED BY <1>1, <2>1
<1>6. Free(i)' => Free(i)
  BY <1>2, <1>3 DEF Free
<1>7. ASSUME i # Head(available), Free(i) PROVE Free(i)'
  <2>1. PICK k \in 1..Len(available) : available[k] = i
    BY <1>7 DEF Free
  <2>2. k - 1 \in 1..Len(available') /\ (k - 1) + 1 = k
    BY <1>1, <1>4, <1>7, <2>1
  <2>3. available'[k - 1] = i
    BY <1>2, <2>1, <2>2
  <2> QED BY <2>2, <2>3 DEF Free
<1>8. ASSUME i = Head(available) PROVE Free(i) /\ ~Free(i)'
  <2>1. 1 \in 1..Len(available) /\ available[1] = i
    BY <1>1, <1>8
  <2>2. ASSUME NEW k \in 1..Len(available'), available'[k] = i PROVE FALSE
    <3>1. k + 1 \in 1..Len(available) /\ available[k + 1] = i /\ k + 1 # 1
      BY <1>2, <1>3, <2>2
    <3> QED BY <2>1, <3>1 DEF OneFree
  <2> QED BY <2>1, <2>2 DEF Free
<1> QED BY <1>5, <1>6, <1>7, <1>8

\* An id that is pushed to the stack.
LEMMA StackPush ==
  ASSUME NEW i \in Slots, NEW e \in Entry, stack \in Seq(Entry), stack' = Append(stack, e), OneStacked(i), sid' = sid,
         i = e.index => ~Stacked(i) /\ e.unique = sid[i]
  PROVE  OneStacked(i)' /\ (i # e.index => (Stacked(i)' <=> Stacked(i))) /\ (i = e.index => Stacked(i)')
<1>1. /\ Len(stack) \in Nat /\ Len(stack') = Len(stack) + 1 /\ stack'[Len(stack) + 1] = e
      /\ \A k \in 1..Len(stack) : stack'[k] = stack[k]
  OBVIOUS
<1>2. \A k \in 1..Len(stack') : k \in 1..Len(stack) \/ k = Len(stack) + 1
  BY <1>1
<1>3. Len(stack) + 1 \in 1..Len(stack') /\ \A k \in 1..Len(stack) : k \in 1..Len(stack')
  BY <1>1
<1>4. \A k \in 1..Len(stack') : stack'[k].index = i =>
        \/ k \in 1..Len(stack) /\ stack'[k] = stack[k] /\ stack[k].index = i
        \/ k = Len(stack) + 1 /\ i = e.index /\ stack'[k] = e
  BY <1>1, <1>2
<1>5. OneStacked(i)'
  <2>1. \A k, l \in 1..Len(stack') : stack'[k].index = i /\ stack'[l].index = i => k = l
    BY <1>4 DEF OneStacked, Stacked
  <2>2. \A k \in 1..Len(stack') : stack'[k].index = i => stack'[k].unique = sid[i]
    BY <1>4 DEF OneStacked
  <2> QED BY <2>1, <2>2 DEF OneStacked
<1>6. (i # e.index => (Stacked(i)' <=> Stacked(i))) /\ (i = e.index => Stacked(i)')
  BY <1>1, <1>3, <1>4 DEF Stacked
<1> QED BY <1>5, <1>6

\* The id at the top is popped.
LEMMA StackPop ==
  ASSUME NEW i \in Slots, stack \in Seq(Entry), stack # <<>>, stack' = SubSeq(stack, 1, Len(stack) - 1),
         OneStacked(i), sid' = sid
  PROVE  /\ OneStacked(i)' /\ (i # stack[Len(stack)].index => (Stacked(i)' <=> Stacked(i)))
         /\ i = stack[Len(stack)].index => Stacked(i) /\ ~Stacked(i)' /\ stack[Len(stack)].unique = sid[i]
<1>1. /\ Len(stack) > 0 /\ Len(stack') = Len(stack) - 1
      /\ \A k \in 1..Len(stack) - 1 : stack'[k] = stack[k]
  BY PopSeq
<1>2. Len(stack) \in Nat /\ Len(stack) \in 1..Len(stack)
  BY <1>1
<1>3. \A k \in 1..Len(stack') : k \in 1..Len(stack) /\ k # Len(stack) /\ stack'[k] = stack[k]
  BY <1>1, <1>2
<1>4. \A k \in 1..Len(stack) : k # Len(stack) => k \in 1..Len(stack')
  BY <1>1, <1>2
<1>5. OneStacked(i)'
  BY <1>3 DEF OneStacked
<1>6. i # stack[Len(stack)].index => (Stacked(i)' <=> Stacked(i))
  BY <1>3, <1>4 DEF Stacked
<1>7. i = stack[Len(stack)].index => Stacked(i) /\ ~Stacked(i)' /\ stack[Len(stack)].unique = sid[i]
  BY <1>2, <1>3 DEF Stacked, OneStacked
<1> QED BY <1>5, <1>6, <1>7

\* Each step that takes an index from where it is puts it in one other place.
LEMMA PlaceStep ==
  TypeOK /\ LocalInv /\ HeldInv /\ OwnInv /\ ServeInv /\ StackInv
    /\ (\A i \in Slots : SessionInv(i)) /\ (\A i \in Slots : PlaceInv(i)) /\ ~reused' /\ ~raced'
    /\ [Next]_vars => \A i \in Slots : PlaceInv(i)'
<1> SUFFICES ASSUME TypeOK, LocalInv, HeldInv, OwnInv, ServeInv, StackInv,
    (\A i \in Slots : SessionInv(i)), (\A i \in Slots : PlaceInv(i)), ~reused', ~raced',
    [Next]_vars, NEW i \in Slots
             PROVE  PlaceInv(i)'
  OBVIOUS
<1> USE PoolAssumption DEF Threads, Step, Goto, slotVars, poolVars, ioVars, localVars, history
<1>0. /\ sid \in [Slots -> 0..MaxConns] /\ MaxConns \in Nat
      /\ sock \in [Slots -> 0..MaxConns]
      /\ valid \in [Slots -> BOOLEAN]
      /\ counter \in Nat /\ counter \in 0..MaxConns
      /\ pc \in [Threads -> PCs] /\ Acceptor \in Threads /\ Game \in Threads
      /\ pc[Acceptor] = "initialize" =>
           for[Acceptor] = counter /\ counter > 0 /\ counter \in Conns /\ at[Acceptor] \in Slots
      /\ pc[Acceptor] \in {"bind", "announce"} =>
           for[Acceptor] = counter /\ counter > 0 /\ counter \in Conns /\ at[Acceptor] \in Slots
      /\ at \in [Threads -> Slots \cup {0}]
      /\ \A t \in Threads : pc[t] \notin {"idle", "accept", "release", "pop", "return", "process"} =>
           at[t] \in Slots
      /\ back \in [Threads -> PCs]
      /\ \A t \in Threads : pc[t] \in {"drop"} \cup Closing => back[t] \in {"postrecv", "idle", "accept"}
      /\ \A t \in Threads : Home(t) = IF t = Acceptor THEN "accept" ELSE "idle"
      /\ Acceptor \notin Workers /\ Game \notin Workers /\ Game # Acceptor
      /\ \A t \in Threads : pc[t] \in {"idle", "check", "parse", "sendvalid", "send"} => t # Acceptor
      /\ pc[Game] \notin {"check", "parse", "postrecv", "submit", "initialize", "bind", "announce"}
      /\ \A t \in Threads : pc[t] \in {"accept", "release", "pop", "return", "process", "initialize", "bind", "announce"} =>
           t = Acceptor
      /\ copy \in [Threads -> [stack : Seq(Entry), id : [index : Slots \cup {0}, unique : 0..MaxConns]]]
      /\ stack \in Seq(Entry)
      /\ available \in Seq(Slots)
  BY Shape
<1> USE <1>0
<1>1. CASE AcceptReturns
  <2>1. /\ PlaceInv(i) /\ UNCHANGED <<available, stack, sid, valid, sock>> /\ Acceptor \in Threads
        /\ \A v \in Threads \ {Acceptor} : pc'[v] = pc[v] /\ at'[v] = at[v]
    BY <1>1 DEF AcceptReturns
  <2>2. (Tearing(Acceptor, i)' <=> Tearing(Acceptor, i)) /\ (Starting(i)' <=> Starting(i))
    BY <1>1 DEF AcceptReturns, Tearing, Starting
  <2>3. /\ Returning(i)' <=> Returning(i)
        /\ Returning(i) => copy'[Acceptor].id = copy[Acceptor].id
    BY <1>1 DEF AcceptReturns, Returning
  <2>4. InUse(i)' <=> InUse(i)
    BY <2>1 DEF InUse
  <2> QED BY <2>1, <2>2, <2>3, <2>4, PlaceKept
<1>2. CASE ReadTop
  <2>1. /\ PlaceInv(i) /\ UNCHANGED <<available, stack, sid, valid, sock>> /\ Acceptor \in Threads
        /\ \A v \in Threads \ {Acceptor} : pc'[v] = pc[v] /\ at'[v] = at[v]
    BY <1>2 DEF ReadTop
  <2>2. (Tearing(Acceptor, i)' <=> Tearing(Acceptor, i)) /\ (Starting(i)' <=> Starting(i))
    BY <1>2 DEF ReadTop, Tearing, Starting
  <2>3. /\ Returning(i)' <=> Returning(i)
        /\ Returning(i) => copy'[Acceptor].id = copy[Acceptor].id
    BY <1>2 DEF ReadTop, Returning
  <2>4. InUse(i)' <=> InUse(i)
    BY <2>1 DEF InUse
  <2> QED BY <2>1, <2>2, <2>3, <2>4, PlaceKept
<1>3. CASE Pop
  <2> DEFINE e == stack[Len(stack)]
  <2>1. /\ pc[Acceptor] = "pop" /\ pc' = [pc EXCEPT ![Acceptor] = "return"]
        /\ UNCHANGED <<available, sid, valid, sock, at, copy>>
        /\ stack' = SubSeq(stack, 1, Len(stack) - 1) /\ stack # <<>> /\ copy[Acceptor].id = e
        /\ PlaceInv(i)
    <3>1. stack = copy[Acceptor].stack
      BY <1>3 DEF Pop
    <3>2. /\ copy[Acceptor].stack # <<>>
          /\ copy[Acceptor].id = copy[Acceptor].stack[Len(copy[Acceptor].stack)]
      BY <1>3 DEF Pop, HeldInv
    <3> QED BY <1>3, <3>1, <3>2 DEF Pop, Popped
  <2>2. OneStacked(i)
    BY <2>1 DEF PlaceInv
  <2>3. /\ OneStacked(i)' /\ (i # e.index => (Stacked(i)' <=> Stacked(i)))
        /\ i = e.index => Stacked(i) /\ ~Stacked(i)' /\ e.unique = sid[i]
    <3>1. sid' = sid
      BY <2>1
    <3> QED BY <2>1, <2>2, <3>1, StackPop
  <2>4. \A v \in Threads : Tearing(v, i)' <=> Tearing(v, i)
    BY <2>1 DEF Tearing
  <2>5. Torn(i)' <=> Torn(i)
    BY <2>4 DEF Torn
  <2>6. /\ InUse(i)' <=> InUse(i)
        /\ Free(i)' <=> Free(i)
        /\ OneFree(i)' <=> OneFree(i)
        /\ ~Starting(i) /\ ~Starting(i)' /\ ~Returning(i)
    BY <2>1 DEF InUse, Free, OneFree, Starting, Returning
  <2>7. Returning(i)' <=> i = e.index
    BY <2>1 DEF Returning
  <2> HIDE DEF e
  <2>8. Returning(i)' => copy'[Acceptor].id.unique = sid'[i]
    BY <2>1, <2>3, <2>7
  <2> QED BY <2>1, <2>3, <2>5, <2>6, <2>7, <2>8 DEF PlaceInv
<1>4. CASE ReturnIndex
  <2> DEFINE j == copy[Acceptor].id.index
  <2>1. /\ UNCHANGED <<sid, valid, sock, stack, at, copy>> /\ pc[Acceptor] = "return"
        /\ pc' = [pc EXCEPT ![Acceptor] = "release"] /\ j \in Slots /\ PlaceInv(i)
    <3>1. UNCHANGED <<slotVars, stack, localVars>>
      BY <1>4, ReturnEffect
    <3> QED BY <1>4, <3>1 DEF ReturnIndex, HeldInv, Entry
  <2>2. Returning(j) /\ (Returning(i) <=> i = j) /\ ~Returning(i)'
    BY <2>1 DEF Returning
  <2>3. available' = Append(available, j)
    <3>1. sid[j] = copy[Acceptor].id.unique
      BY <2>1, <2>2 DEF PlaceInv
    <3> QED BY <1>4, <3>1 DEF ReturnIndex
  <2>4. i = j => ~Free(i) /\ ~Stacked(i) /\ ~Torn(i) /\ ~InUse(i) /\ ~Starting(i)
    BY <2>1, <2>2 DEF PlaceInv, Starting
  <2>5. OneFree(i)' /\ (i # j => (Free(i)' <=> Free(i))) /\ (i = j => Free(i)')
    <3>1. OneFree(i)
      BY <2>1 DEF PlaceInv
    <3> HIDE DEF j
    <3> QED BY <2>1, <2>3, <2>4, <3>1, FreeAppend
  <2>6. \A v \in Threads : Tearing(v, i)' <=> Tearing(v, i)
    BY <2>1 DEF Tearing
  <2>7. Torn(i)' <=> Torn(i)
    BY <2>6 DEF Torn
  <2>8. /\ InUse(i)' <=> InUse(i)
        /\ Stacked(i)' <=> Stacked(i)
        /\ OneStacked(i)' <=> OneStacked(i)
        /\ Starting(i)' <=> Starting(i)
    BY <2>1 DEF InUse, Stacked, OneStacked, Starting
  <2> HIDE DEF j
  <2> QED BY <2>1, <2>2, <2>4, <2>5, <2>7, <2>8 DEF PlaceInv
<1>5. CASE TakeIndex
  <2>1. CASE available = <<>>
    <3>1. /\ PlaceInv(i) /\ UNCHANGED <<available, stack, sid, valid, sock, at, copy>>
          /\ pc[Acceptor] = "process"
          /\ pc' = [pc EXCEPT ![Acceptor] = "accept"]
      BY <1>5, <2>1 DEF TakeIndex
    <3>2. /\ (Tearing(Acceptor, i)' <=> Tearing(Acceptor, i)) /\ (Starting(i)' <=> Starting(i))
          /\ (Returning(i)' <=> Returning(i))
      BY <3>1 DEF Tearing, Starting, Returning
    <3>3. InUse(i)' <=> InUse(i)
      BY <3>1 DEF InUse
    <3> QED BY <3>1, <3>2, <3>3, PlaceKept
  <2>2. CASE available # <<>>
    <3> DEFINE j == Head(available)
    <3>1. /\ PlaceInv(i) /\ UNCHANGED <<stack, sid, valid, sock, copy>> /\ pc[Acceptor] = "process"
          /\ pc' = [pc EXCEPT ![Acceptor] = "initialize"] /\ at' = [at EXCEPT ![Acceptor] = j]
          /\ available' = Tail(available)
      BY <1>5, <2>2 DEF TakeIndex
    <3>2. OneFree(i)
      BY <3>1 DEF PlaceInv
    <3>3. /\ OneFree(i)' /\ (i # j => (Free(i)' <=> Free(i)))
          /\ i = j => Free(i) /\ ~Free(i)'
      BY <2>2, <3>1, <3>2, FreeTail
    <3>4. \A v \in Threads : Tearing(v, i)' <=> Tearing(v, i)
      BY <3>1 DEF Tearing
    <3>5. Torn(i)' <=> Torn(i)
      BY <3>4 DEF Torn
    <3>6. /\ InUse(i)' <=> InUse(i)
          /\ Stacked(i)' <=> Stacked(i)
          /\ OneStacked(i)' <=> OneStacked(i)
          /\ ~Starting(i) /\ ~Returning(i) /\ ~Returning(i)'
      BY <3>1 DEF InUse, Stacked, OneStacked, Starting, Returning
    <3>7. Starting(i)' <=> i = j
      BY <3>1 DEF Starting
    <3> HIDE DEF j
    <3> QED BY <3>1, <3>3, <3>5, <3>6, <3>7 DEF PlaceInv
  <2> QED BY <2>1, <2>2
<1>6. CASE Initialize
  <2> DEFINE j == at[Acceptor]
  <2>1. /\ pc[Acceptor] = "initialize" /\ pc' = [pc EXCEPT ![Acceptor] = "bind"]
        /\ UNCHANGED <<available, stack, at, copy>>
        /\ j \in Slots /\ sid' = [sid EXCEPT ![j] = counter] /\ sock' = [sock EXCEPT ![j] = counter]
        /\ valid' = [valid EXCEPT ![j] = TRUE] /\ counter # 0 /\ PlaceInv(i)
    <3>1. pc[Acceptor] = "initialize" /\ counter > 0 /\ for[Acceptor] = counter /\ j \in Slots
      BY <1>6 DEF Initialize
    <3>2. counter # 0
      BY <3>1
    <3> QED BY <1>6, <3>1, <3>2 DEF Initialize
  <2>2. \A v \in Threads : Tearing(v, i)' <=> Tearing(v, i)
    BY <2>1 DEF Tearing
  <2>3. Torn(i)' <=> Torn(i)
    BY <2>2 DEF Torn
  <2>4. (Free(i)' <=> Free(i)) /\ (OneFree(i)' <=> OneFree(i)) /\ (Stacked(i)' <=> Stacked(i))
    BY <2>1 DEF Free, OneFree, Stacked
  <2>5. ~Starting(i)' /\ ~Returning(i) /\ ~Returning(i)' /\ (Starting(i) <=> i = j)
    BY <2>1 DEF Starting, Returning
  <2>6. CASE i # j
    <3>1. sid'[i] = sid[i] /\ (InUse(i)' <=> InUse(i))
      BY <2>1, <2>6 DEF InUse
    <3>2. OneStacked(i)'
      BY <2>1, <3>1 DEF PlaceInv, OneStacked
    <3> QED BY <2>1, <2>3, <2>4, <2>5, <2>6, <3>1, <3>2 DEF PlaceInv
  <2>7. CASE i = j
    <3>1. ~Free(i) /\ ~Stacked(i) /\ ~Torn(i)
      BY <2>1, <2>5, <2>7 DEF PlaceInv
    <3>2. InUse(i)'
      BY <2>1, <2>7 DEF InUse
    <3>3. OneStacked(i)'
      BY <2>1, <3>1 DEF OneStacked, Stacked
    <3> QED BY <2>1, <2>3, <2>4, <2>5, <3>1, <3>2, <3>3 DEF PlaceInv
  <2> QED BY <2>6, <2>7
<1>7. CASE Bind
  <2> DEFINE j == at[Acceptor]
  <2>1. /\ pc[Acceptor] = "bind" /\ UNCHANGED <<stack, at, copy, sid, valid>> /\ j \in Slots
        /\ PlaceInv(i) /\ PlaceInv(j)
        /\ \/ pc' = [pc EXCEPT ![Acceptor] = "announce"] /\ UNCHANGED <<sock, available>>
           \/ /\ pc' = [pc EXCEPT ![Acceptor] = "accept"] /\ sock' = [sock EXCEPT ![j] = 0]
              /\ available' = Append(available, j)
    BY <1>7 DEF Bind
  <2>2. /\ (Tearing(Acceptor, i)' <=> Tearing(Acceptor, i)) /\ (Starting(i)' <=> Starting(i))
        /\ (Returning(i)' <=> Returning(i))
    BY <2>1 DEF Tearing, Starting, Returning
  <2>3. CASE UNCHANGED <<sock, available>>
    <3>1. InUse(i)' <=> InUse(i)
      BY <2>1, <2>3 DEF InUse
    <3>2. \A v \in Threads \ {Acceptor} : pc'[v] = pc[v] /\ at'[v] = at[v]
      BY <2>1
    <3> QED BY <2>1, <2>2, <2>3, <3>1, <3>2, PlaceKept
  <2>4. CASE sock' = [sock EXCEPT ![j] = 0] /\ available' = Append(available, j)
    <3>1. InUse(j)
      <4>1. Presenting(j) /\ SessionInv(j)
        BY <2>1 DEF Presenting
      <4> QED BY <4>1 DEF SessionInv, QuietInv, InUse
    <3>2. i = j => ~Free(i) /\ ~Stacked(i) /\ ~Torn(i) /\ ~Starting(i) /\ ~Returning(i) /\ ~InUse(i)'
      BY <2>1, <2>4, <3>1 DEF PlaceInv, InUse
    <3>3. i # j => (InUse(i)' <=> InUse(i))
      BY <2>1, <2>4 DEF InUse
    <3>4. OneFree(i)' /\ (i # j => (Free(i)' <=> Free(i))) /\ (i = j => Free(i)')
      <4>1. OneFree(i)
        BY <2>1 DEF PlaceInv
      <4> HIDE DEF j
      <4> QED BY <2>1, <2>4, <3>2, <4>1, FreeAppend
    <3>5. \A v \in Threads : Tearing(v, i)' <=> Tearing(v, i)
      BY <2>1 DEF Tearing
    <3>6. Torn(i)' <=> Torn(i)
      BY <3>5 DEF Torn
    <3>7. (Stacked(i)' <=> Stacked(i)) /\ (OneStacked(i)' <=> OneStacked(i)) /\ ~Returning(i)
      BY <2>1 DEF Stacked, OneStacked, Returning
    <3> HIDE DEF j
    <3> QED BY <2>1, <2>2, <3>2, <3>3, <3>4, <3>6, <3>7 DEF PlaceInv
  <2> QED BY <2>1, <2>3, <2>4
<1>8. CASE Announce
  <2>1. /\ PlaceInv(i) /\ UNCHANGED <<available, stack, sid, valid, sock>> /\ Acceptor \in Threads
        /\ \A v \in Threads \ {Acceptor} : pc'[v] = pc[v] /\ at'[v] = at[v]
    BY <1>8 DEF Announce
  <2>2. (Tearing(Acceptor, i)' <=> Tearing(Acceptor, i)) /\ (Starting(i)' <=> Starting(i))
    BY <1>8 DEF Announce, Tearing, Starting
  <2>3. /\ Returning(i)' <=> Returning(i)
        /\ Returning(i) => copy'[Acceptor].id = copy[Acceptor].id
    BY <1>8 DEF Announce, Returning
  <2>4. InUse(i)' <=> InUse(i)
    BY <2>1 DEF InUse
  <2> QED BY <2>1, <2>2, <2>3, <2>4, PlaceKept
<1>9. CASE RequestSendMsg
  <2>1. /\ PlaceInv(i) /\ UNCHANGED <<available, stack, sid, valid, sock>> /\ Game \in Threads
        /\ \A v \in Threads \ {Game} : pc'[v] = pc[v] /\ at'[v] = at[v]
    BY <1>9 DEF RequestSendMsg, FindSession
  <2>2. (Tearing(Game, i)' <=> Tearing(Game, i)) /\ (Starting(i)' <=> Starting(i))
    BY <1>9 DEF RequestSendMsg, FindSession, Tearing, Starting
  <2>3. /\ Returning(i)' <=> Returning(i)
        /\ Returning(i) => copy'[Acceptor].id = copy[Acceptor].id
    BY <1>9 DEF RequestSendMsg, FindSession, Returning
  <2>4. InUse(i)' <=> InUse(i)
    BY <2>1 DEF InUse
  <2> QED BY <2>1, <2>2, <2>3, <2>4, PlaceKept
<1>10. CASE RequestDisconnectSession
  <2>1. /\ PlaceInv(i) /\ UNCHANGED <<available, stack, sid, valid, sock>> /\ Game \in Threads
        /\ \A v \in Threads \ {Game} : pc'[v] = pc[v] /\ at'[v] = at[v]
    BY <1>10 DEF RequestDisconnectSession, FindSession
  <2>2. (Tearing(Game, i)' <=> Tearing(Game, i)) /\ (Starting(i)' <=> Starting(i))
    BY <1>10 DEF RequestDisconnectSession, FindSession, Tearing, Starting
  <2>3. /\ Returning(i)' <=> Returning(i)
        /\ Returning(i) => copy'[Acceptor].id = copy[Acceptor].id
    BY <1>10 DEF RequestDisconnectSession, FindSession, Returning
  <2>4. InUse(i)' <=> InUse(i)
    BY <2>1 DEF InUse
  <2> QED BY <2>1, <2>2, <2>3, <2>4, PlaceKept
<1>11. CASE SendValid
  <2>1. /\ PlaceInv(i) /\ UNCHANGED <<available, stack, sid, valid, sock>> /\ Game \in Threads
        /\ \A v \in Threads \ {Game} : pc'[v] = pc[v] /\ at'[v] = at[v]
    BY <1>11 DEF SendValid
  <2>2. (Tearing(Game, i)' <=> Tearing(Game, i)) /\ (Starting(i)' <=> Starting(i))
    BY <1>11 DEF SendValid, Tearing, Starting
  <2>3. /\ Returning(i)' <=> Returning(i)
        /\ Returning(i) => copy'[Acceptor].id = copy[Acceptor].id
    BY <1>11 DEF SendValid, Returning
  <2>4. InUse(i)' <=> InUse(i)
    BY <2>1 DEF InUse
  <2> QED BY <2>1, <2>2, <2>3, <2>4, PlaceKept
<1>12. CASE Send
  <2>1. /\ PlaceInv(i) /\ UNCHANGED <<available, stack, sid, valid, sock>> /\ Game \in Threads
        /\ \A v \in Threads \ {Game} : pc'[v] = pc[v] /\ at'[v] = at[v]
    BY <1>12 DEF Send
  <2>2. (Tearing(Game, i)' <=> Tearing(Game, i)) /\ (Starting(i)' <=> Starting(i))
    BY <1>12 DEF Send, Tearing, Starting
  <2>3. /\ Returning(i)' <=> Returning(i)
        /\ Returning(i) => copy'[Acceptor].id = copy[Acceptor].id
    BY <1>12 DEF Send, Returning
  <2>4. InUse(i)' <=> InUse(i)
    BY <2>1 DEF InUse
  <2> QED BY <2>1, <2>2, <2>3, <2>4, PlaceKept
<1>13. ASSUME NEW w \in Workers, TakeCompletion(w) PROVE PlaceInv(i)'
  <2>1. /\ PlaceInv(i) /\ UNCHANGED <<available, stack, sid, valid, sock>> /\ w \in Threads
        /\ \A v \in Threads \ {w} : pc'[v] = pc[v] /\ at'[v] = at[v]
    BY <1>13 DEF TakeCompletion
  <2>2. (Tearing(w, i)' <=> Tearing(w, i)) /\ (Starting(i)' <=> Starting(i))
    BY <1>13 DEF TakeCompletion, Tearing, Starting
  <2>3. /\ Returning(i)' <=> Returning(i)
        /\ Returning(i) => copy'[Acceptor].id = copy[Acceptor].id
    BY <1>13 DEF TakeCompletion, Returning
  <2>4. InUse(i)' <=> InUse(i)
    BY <2>1 DEF InUse
  <2> QED BY <2>1, <2>2, <2>3, <2>4, PlaceKept
<1>14. ASSUME NEW w \in Workers, CheckSession(w) PROVE PlaceInv(i)'
  <2>1. /\ PlaceInv(i) /\ UNCHANGED <<available, stack, sid, valid, sock>> /\ w \in Threads
        /\ \A v \in Threads \ {w} : pc'[v] = pc[v] /\ at'[v] = at[v]
    BY <1>14 DEF CheckSession
  <2>2. (Tearing(w, i)' <=> Tearing(w, i)) /\ (Starting(i)' <=> Starting(i))
    BY <1>14 DEF CheckSession, Tearing, Starting
  <2>3. /\ Returning(i)' <=> Returning(i)
        /\ Returning(i) => copy'[Acceptor].id = copy[Acceptor].id
    BY <1>14 DEF CheckSession, Returning
  <2>4. InUse(i)' <=> InUse(i)
    BY <2>1 DEF InUse
  <2> QED BY <2>1, <2>2, <2>3, <2>4, PlaceKept
<1>15. ASSUME NEW w \in Workers, Parse(w) PROVE PlaceInv(i)'
  <2>1. /\ PlaceInv(i) /\ UNCHANGED <<available, stack, sid, valid, sock>> /\ w \in Threads
        /\ \A v \in Threads \ {w} : pc'[v] = pc[v] /\ at'[v] = at[v]
    BY <1>15 DEF Parse
  <2>2. (Tearing(w, i)' <=> Tearing(w, i)) /\ (Starting(i)' <=> Starting(i))
    BY <1>15 DEF Parse, Tearing, Starting
  <2>3. /\ Returning(i)' <=> Returning(i)
        /\ Returning(i) => copy'[Acceptor].id = copy[Acceptor].id
    BY <1>15 DEF Parse, Returning
  <2>4. InUse(i)' <=> InUse(i)
    BY <2>1 DEF InUse
  <2> QED BY <2>1, <2>2, <2>3, <2>4, PlaceKept
<1>16. ASSUME NEW t \in Threads, PostRecv(t) PROVE PlaceInv(i)'
  <2>1. /\ PlaceInv(i) /\ UNCHANGED <<available, stack, sid, valid, sock>> /\ t \in Threads
        /\ \A v \in Threads \ {t} : pc'[v] = pc[v] /\ at'[v] = at[v]
    BY <1>16 DEF PostRecv
  <2>2. (Tearing(t, i)' <=> Tearing(t, i)) /\ (Starting(i)' <=> Starting(i))
    BY <1>16 DEF PostRecv, Tearing, Starting
  <2>3. /\ Returning(i)' <=> Returning(i)
        /\ Returning(i) => copy'[Acceptor].id = copy[Acceptor].id
    BY <1>16 DEF PostRecv, Returning
  <2>4. InUse(i)' <=> InUse(i)
    BY <2>1 DEF InUse
  <2> QED BY <2>1, <2>2, <2>3, <2>4, PlaceKept
<1>17. ASSUME NEW t \in Threads, Submit(t) PROVE PlaceInv(i)'
  <2>1. /\ PlaceInv(i) /\ UNCHANGED <<available, stack, sid, valid, sock>> /\ t \in Threads
        /\ \A v \in Threads \ {t} : pc'[v] = pc[v] /\ at'[v] = at[v]
    BY <1>17 DEF Submit
  <2>2. (Tearing(t, i)' <=> Tearing(t, i)) /\ (Starting(i)' <=> Starting(i))
    BY <1>17 DEF Submit, Tearing, Starting
  <2>3. /\ Returning(i)' <=> Returning(i)
        /\ Returning(i) => copy'[Acceptor].id = copy[Acceptor].id
    BY <1>17 DEF Submit, Returning
  <2>4. InUse(i)' <=> InUse(i)
    BY <2>1 DEF InUse
  <2> QED BY <2>1, <2>2, <2>3, <2>4, PlaceKept
<1>18. ASSUME NEW t \in Threads, Drop(t) PROVE PlaceInv(i)'
  <2> DEFINE j == at[t]
  <2>1. /\ pc[t] = "drop" /\ UNCHANGED <<sock, sid, available, stack, at, copy>> /\ j \in Slots
        /\ PlaceInv(i)
        /\ valid' = [valid EXCEPT ![j] = FALSE] /\ \A v \in Threads \ {t} : pc'[v] = pc[v]
        /\ pc'[t] = (IF valid[j] THEN "close" ELSE back[t])
        /\ back[t] \in {"postrecv", "idle", "accept"}
    BY <1>18 DEF Drop
  <2>2. (Starting(i)' <=> Starting(i)) /\ (Returning(i)' <=> Returning(i))
    BY <2>1 DEF Starting, Returning
  <2>3. CASE i # j \/ ~valid[j]
    <3>1. (InUse(i)' <=> InUse(i)) /\ (Tearing(t, i)' <=> Tearing(t, i))
      BY <2>1, <2>3 DEF InUse, Tearing
    <3>2. \A v \in Threads \ {t} : pc'[v] = pc[v] /\ at'[v] = at[v]
      BY <2>1
    <3> QED BY <2>1, <2>2, <3>1, <3>2, PlaceKept
  <2>4. CASE i = j /\ valid[j]
    <3>1. InUse(i)
      <4>1. Serving(t) /\ pc[t] \notin {"bind", "announce"} /\ SessionInv(j)
        BY <2>1 DEF Serving
      <4>2. ~Vacant(j)
        BY <4>1, Served
      <4> QED BY <2>4, <4>2 DEF Vacant, InUse
    <3>2. ~InUse(i)' /\ Tearing(t, i)'
      BY <2>1, <2>4 DEF InUse, Tearing
    <3>3. Torn(i)'
      BY <3>2 DEF Torn
    <3>4. /\ (Free(i)' <=> Free(i)) /\ (OneFree(i)' <=> OneFree(i)) /\ (Stacked(i)' <=> Stacked(i))
          /\ (OneStacked(i)' <=> OneStacked(i))
      BY <2>1 DEF Free, OneFree, Stacked, OneStacked
    <3> QED BY <2>1, <2>2, <3>1, <3>2, <3>3, <3>4 DEF PlaceInv
  <2> QED BY <2>3, <2>4
<1>19. ASSUME NEW t \in Threads, CloseSocket(t) PROVE PlaceInv(i)'
  <2> DEFINE j == at[t]
  <2>1. /\ pc[t] = "close" /\ pc' = [pc EXCEPT ![t] = "push"] /\ j \in Slots /\ PlaceInv(i)
        /\ UNCHANGED <<sid, valid, at, copy, available, stack>> /\ sock' = [sock EXCEPT ![j] = 0]
    BY <1>19 DEF CloseSocket, CloseSocketOf
  <2>2. ~valid[j]
    <3>1. SessionInv(j) /\ Ending(t, j)
      BY <2>1 DEF Ending, Closing
    <3> QED BY <3>1 DEF SessionInv, LifeInv
  <2>3. InUse(i)' <=> InUse(i)
    BY <2>1, <2>2 DEF InUse
  <2>4. /\ (Tearing(t, i)' <=> Tearing(t, i)) /\ (Starting(i)' <=> Starting(i))
        /\ (Returning(i)' <=> Returning(i))
    BY <2>1 DEF Tearing, Starting, Returning
  <2>5. \A v \in Threads \ {t} : pc'[v] = pc[v] /\ at'[v] = at[v]
    BY <2>1
  <2> QED BY <2>1, <2>3, <2>4, <2>5, PlaceKept
<1>20. ASSUME NEW t \in Threads, ReadStack(t) PROVE PlaceInv(i)'
  <2>1. /\ PlaceInv(i) /\ UNCHANGED <<available, stack, sid, valid, sock>> /\ t \in Threads
        /\ \A v \in Threads \ {t} : pc'[v] = pc[v] /\ at'[v] = at[v]
    BY <1>20 DEF ReadStack
  <2>2. (Tearing(t, i)' <=> Tearing(t, i)) /\ (Starting(i)' <=> Starting(i))
    BY <1>20 DEF ReadStack, Tearing, Starting
  <2>3. /\ Returning(i)' <=> Returning(i)
        /\ Returning(i) => copy'[Acceptor].id = copy[Acceptor].id
    BY <1>20 DEF ReadStack, Returning
  <2>4. InUse(i)' <=> InUse(i)
    BY <2>1 DEF InUse
  <2> QED BY <2>1, <2>2, <2>3, <2>4, PlaceKept
<1>21. ASSUME NEW t \in Threads, WriteStack(t) PROVE PlaceInv(i)'
  <2> DEFINE j == at[t]
           e == Id(j, sid[j])
  <2>1. /\ pc[t] = "pushed" /\ pc' = [pc EXCEPT ![t] = "goodbye"] /\ j \in Slots /\ PlaceInv(i)
        /\ PlaceInv(j)
        /\ UNCHANGED <<sid, valid, sock, at, copy, available>> /\ stack = copy[t].stack
        /\ stack' = Append(stack, copy[t].id)
    BY <1>21 DEF WriteStack
  <2>2. copy[t].id = e /\ e \in Entry /\ e.index = j /\ e.unique = sid[j]
    BY <2>1 DEF ServeInv, Serving, Id, Entry
  <2>3. Tearing(t, j) /\ Torn(j)
    BY <2>1 DEF Tearing, Torn
  <2>4. i = j => ~Free(i) /\ ~Stacked(i) /\ ~InUse(i) /\ ~Starting(i) /\ ~Returning(i)
    BY <2>1, <2>3 DEF PlaceInv
  <2>5. OneStacked(i)' /\ (i # j => (Stacked(i)' <=> Stacked(i))) /\ (i = j => Stacked(i)')
    <3>1. OneStacked(i) /\ sid' = sid /\ stack' = Append(stack, e)
      BY <2>1, <2>2 DEF PlaceInv
    <3>2. i = e.index => ~Stacked(i) /\ e.unique = sid[i]
      BY <2>2, <2>4
    <3> HIDE DEF e, j
    <3>3. /\ OneStacked(i)' /\ (i # e.index => (Stacked(i)' <=> Stacked(i)))
          /\ (i = e.index => Stacked(i)')
      BY <2>2, <3>1, <3>2, StackPush
    <3> QED BY <2>2, <3>3
  <2>6. \A v \in Threads : Tearing(v, i)' <=> Tearing(v, i) /\ v # t
    BY <2>1 DEF Tearing
  <2>7. (i # j => (Torn(i)' <=> Torn(i))) /\ (i = j => ~Torn(i)')
    <3>1. i # j => ~Tearing(t, i)
      BY DEF Tearing
    <3>2. \A v \in Threads : Tearing(v, j) => Ending(v, j)
      BY DEF Tearing, Ending, Closing
    <3>3. \A v \in Threads : Tearing(v, j) => v = t
      <4>1. SessionInv(j)
        BY <2>1
      <4> QED BY <2>3, <3>2, <4>1 DEF SessionInv, LifeInv
    <3> QED BY <2>6, <3>1, <3>3 DEF Torn
  <2>8. /\ InUse(i)' <=> InUse(i)
        /\ Free(i)' <=> Free(i)
        /\ OneFree(i)' <=> OneFree(i)
        /\ Starting(i)' <=> Starting(i)
        /\ Returning(i)' <=> Returning(i)
    BY <2>1 DEF InUse, Free, OneFree, Starting, Returning
  <2> HIDE DEF j
  <2> QED BY <2>1, <2>4, <2>5, <2>7, <2>8 DEF PlaceInv
<1>22. ASSUME NEW t \in Threads, Goodbye(t) PROVE PlaceInv(i)'
  <2>1. /\ PlaceInv(i) /\ UNCHANGED <<available, stack, sid, valid, sock, at, copy>>
        /\ pc[t] = "goodbye"
        /\ back[t] \in {"postrecv", "idle", "accept"} /\ pc' = [pc EXCEPT ![t] = back[t]]
    BY <1>22 DEF Goodbye, Leave, Closing
  <2>2. /\ (Tearing(t, i)' <=> Tearing(t, i)) /\ (Starting(i)' <=> Starting(i))
        /\ (Returning(i)' <=> Returning(i))
    BY <2>1 DEF Tearing, Starting, Returning
  <2>3. (InUse(i)' <=> InUse(i)) /\ \A v \in Threads \ {t} : pc'[v] = pc[v] /\ at'[v] = at[v]
    BY <2>1 DEF InUse
  <2> QED BY <2>1, <2>2, <2>3, PlaceKept
<1>23. ASSUME NEW u \in Conns, Receive(u) PROVE PlaceInv(i)'
  <2>1. /\ PlaceInv(i) /\ UNCHANGED <<available, stack, sid, valid, sock, pc, at, copy>>
        /\ Game \in Threads
    BY <1>23 DEF Receive
  <2>2. /\ (Tearing(Game, i)' <=> Tearing(Game, i)) /\ (Starting(i)' <=> Starting(i))
        /\ (Returning(i)' <=> Returning(i))
    BY <2>1 DEF Tearing, Starting, Returning
  <2>3. InUse(i)' <=> InUse(i)
    BY <2>1 DEF InUse
  <2> QED BY <2>1, <2>2, <2>3, PlaceKept
<1>24. CASE UNCHANGED vars
  <2>1. /\ PlaceInv(i) /\ UNCHANGED <<available, stack, sid, valid, sock, pc, at, copy>>
        /\ Game \in Threads
    BY <1>24 DEF vars
  <2>2. /\ (Tearing(Game, i)' <=> Tearing(Game, i)) /\ (Starting(i)' <=> Starting(i))
        /\ (Returning(i)' <=> Returning(i))
    BY <2>1 DEF Tearing, Starting, Returning
  <2>3. InUse(i)' <=> InUse(i)
    BY <2>1 DEF InUse
  <2> QED BY <2>1, <2>2, <2>3, PlaceKept
<1> QED
  BY <1>1, <1>2, <1>3, <1>4, <1>5, <1>6, <1>7, <1>8, <1>9, <1>10, <1>11, <1>12, <1>13, <1>14,
     <1>15, <1>16, <1>17, <1>18, <1>19, <1>20, <1>21, <1>22, <1>23, <1>24
  DEF Next, Accepting, Working, Gaming, DisconnectSessionInternal

-----------------------------------------------------------------------------
(* The invariant.                                                           *)

\* The pool begins with each index once: as many places as there are slots.
LEMMA Initially ==
  Init => IInv
<1> SUFFICES ASSUME Init PROVE IInv
  OBVIOUS
<1> USE PoolAssumption
<1>1. /\ available \in [1..Cardinality(Slots) -> Slots] /\ Cardinality(Slots) \in Nat
      /\ \A i \in Slots : \E k \in 1..Cardinality(Slots) : available[k] = i
  BY FS_CardinalityType DEF Init
<1>2. available \in Seq(Slots) /\ Len(available) = Cardinality(Slots)
  BY <1>1
<1>3. TypeOK
  BY <1>2 DEF Init, TypeOK, Home, Threads, PCs, Conns
<1>4. LocalInv /\ HeldInv
  <2>1. /\ pc = [t \in Threads |-> Home(t)] /\ at = [t \in Threads |-> 0] /\ for = [t \in Threads |-> 0]
        /\ back = [t \in Threads |-> Home(t)] /\ copy = [t \in Threads |-> NoCopy]
        /\ raced = FALSE /\ reused = FALSE /\ counter = 0 /\ events = [u \in Conns |-> <<>>]
    BY DEF Init
  <2>2. LocalInv
    BY <2>1 DEF LocalInv, Home, Threads, PCs, AcceptorPCs, GamePCs, WorkerPCs
  <2>3. HeldInv
    <3>1. <<>> \in Seq(Entry) /\ <<>> \in Seq({"CONNECTED", "DISCONNECTED"})
      OBVIOUS
    <3>2. NoCopy \in [stack : Seq(Entry), id : [index : Slots \cup {0}, unique : 0..MaxConns]]
      BY <3>1 DEF NoCopy, Id
    <3>3. \A t \in Threads : pc[t] \in {"accept", "idle"}
      BY <2>1 DEF Home
    <3>4. Acceptor \in Threads
      BY DEF Threads
    <3> QED BY <2>1, <3>1, <3>2, <3>3, <3>4 DEF HeldInv
  <2> QED BY <2>2, <2>3
<1>5. /\ valid = [i \in Slots |-> TRUE] /\ sock = [i \in Slots |-> 0] /\ sid = [i \in Slots |-> 0]
      /\ ioId = [i \in Slots |-> 0] /\ stack = <<>> /\ counter = 0 /\ slotOf = [u \in Conns |-> 0]
      /\ pending = [u \in Conns |-> 0] /\ port = <<>> /\ events = [u \in Conns |-> <<>>] /\ crossed = {}
      /\ \A t \in Threads : pc[t] \in {"accept", "idle"} /\ at[t] = 0 /\ copy[t] = NoCopy
      /\ pc[Acceptor] = "accept"
  BY DEF Init, Home, Threads
<1>6. AttachInv
  BY <1>5 DEF AttachInv, OwnInv, WireInv, ServeInv, FreshInv, Serving, Conns
<1>7. StackInv
  BY <1>5 DEF StackInv, Ended, NoCopy, Id
<1>8. PastInv
  BY <1>5 DEF PastInv
<1>12. NewsInv
  BY DEF Init, NewsInv
<1>9. ASSUME NEW i \in Slots PROVE SessionInv(i)
  <2>1. \A t \in Threads : ~Ending(t, i)
    BY <1>5 DEF Ending, Closing
  <2>2. ~Presenting(i) /\ ~Binding(i) /\ valid[i] /\ sock[i] = 0 /\ sid[i] = 0
    BY <1>5 DEF Presenting, Binding
  <2>3. ~InFlight(i) /\ at[Acceptor] # i
    BY <1>5 DEF InFlight, Threads
  <2> QED BY <2>1, <2>2, <2>3 DEF SessionInv, LifeInv, QuietInv, InUse, Vacant
<1>10. ASSUME NEW i \in Slots PROVE ReceiveInv(i)
  <2>1. \A t \in Threads : ~Receiving(t, i)
    BY <1>5 DEF Receiving
  <2>2. ~InUse(i) /\ ~AtPort(i) /\ OneAtPort(i) /\ ~InKernel(i) /\ \A u \in Conns : pending[u] <= 1
    BY <1>5 DEF InUse, AtPort, OneAtPort, InKernel
  <2> QED BY <2>1, <2>2 DEF ReceiveInv
<1>11. ASSUME NEW i \in Slots PROVE PlaceInv(i)
  <2>1. OneFree(i)
    <3>1. \A k, l \in 1..Cardinality(Slots) : available[k] = available[l] => k = l
      BY <1>1, OntoIsOneToOne
    <3> QED BY <1>2, <3>1 DEF OneFree
  <2>2. Free(i)
    BY <1>1, <1>2 DEF Free
  <2>3. ~Stacked(i) /\ OneStacked(i) /\ ~InUse(i)
    BY <1>5 DEF Stacked, OneStacked, InUse
  <2>4. ~Torn(i) /\ ~Starting(i) /\ ~Returning(i)
    BY <1>5 DEF Torn, Tearing, Starting, Returning
  <2> QED BY <2>1, <2>2, <2>3, <2>4 DEF PlaceInv
<1> QED BY <1>3, <1>4, <1>6, <1>7, <1>8, <1>9, <1>10, <1>11, <1>12 DEF IInv, SoundInv

\* Every step keeps it.
LEMMA Inductive ==
  IInv /\ [Next]_vars => IInv'
<1> SUFFICES ASSUME IInv, [Next]_vars PROVE IInv'
  OBVIOUS
<1>1. TypeOK /\ LocalInv /\ HeldInv
  BY DEF IInv
<1>2. TypeOK' /\ LocalInv' /\ HeldInv'
  BY <1>1, TypeStep, LocalStep, HeldStep
<1>3. (reused => reused') /\ (raced => raced')
  BY <1>1, HistoryStays
<1>4. ASSUME ~reused' PROVE SoundInv'
  <2>1. /\ OwnInv /\ WireInv /\ ServeInv /\ FreshInv /\ StackInv /\ PastInv /\ NewsInv
        /\ \A i \in Slots : SessionInv(i)
        /\ \A i \in Slots : ReceiveInv(i)
    BY <1>3, <1>4 DEF IInv, SoundInv, AttachInv
  <2>2. OwnInv' /\ ServeInv' /\ FreshInv'
    BY <1>1, <1>4, <2>1, OwnStep, ServeStep, FreshStep
  <2>3. WireInv'
    BY <1>1, <1>4, <2>1, WireStep
  <2>4. StackInv'
    BY <1>1, <1>4, <2>1, StackStep
  <2>5. \A i \in Slots : SessionInv(i)'
    BY <1>1, <1>4, <2>1, LifeStep, QuietStep DEF SessionInv
  <2>6. \A i \in Slots : ReceiveInv(i)'
    BY <1>1, <1>4, <2>1, ReceiveStep
  <2>7. PastInv'
    BY <1>1, <1>4, <2>1, PastStep
  <2>8. NewsInv'
    BY <1>1, <2>1, NewsStep
  <2> QED BY <2>2, <2>3, <2>4, <2>5, <2>6, <2>7, <2>8 DEF SoundInv, AttachInv
<1>5. ASSUME ~reused', ~raced' PROVE \A i \in Slots : PlaceInv(i)'
  <2>1. /\ OwnInv /\ ServeInv /\ StackInv
        /\ \A i \in Slots : SessionInv(i)
        /\ \A i \in Slots : PlaceInv(i)
    BY <1>3, <1>5 DEF IInv, SoundInv, AttachInv
  <2> QED BY <1>1, <1>5, <2>1, PlaceStep
<1> QED BY <1>2, <1>4, <1>5 DEF IInv

\* The invariant holds of every behaviour.
THEOREM Invariance == Spec => []IInv
BY Initially, Inductive, PTL DEF Spec

-----------------------------------------------------------------------------
(* Results.                                                                 *)

\* Every variable has its type, whatever overlaps: the indices in the pool and in
\* the stack are the pool's own, and a completion names a slot and a connection.
THEOREM TypeCorrect == Spec => []TypeOK
BY Invariance, PTL DEF IInv

\* How many places an index has in a sequence it is in once at most.
LEMMA OnceInSequence ==
  ASSUME NEW n \in Nat, NEW P, P \subseteq 1..n, \A k, l \in P : k = l
  PROVE  Cardinality(P) = IF P = {} THEN 0 ELSE 1
<1>1. CASE P = {}
  BY <1>1, FS_EmptySet
<1>2. CASE P # {}
  <2>1. PICK k \in P : TRUE
    BY <1>2
  <2>2. P = {k}
    BY <2>1
  <2> QED BY <1>2, <2>2, FS_Singleton
<1> QED BY <1>1, <1>2

\* An index is in exactly one place: free, with the accept thread, in use, with
\* the thread that tears its session down, or in the stack, as long as no two
\* accesses to the stack overlapped and no slot was reused too early.
THEOREM OneHolder == Spec => []OneHolderPerIndex
<1>1. IInv => OneHolderPerIndex
  <2> SUFFICES ASSUME IInv, ~raced, ~reused, NEW i \in Slots PROVE Holders(i) = 1
    BY DEF OneHolderPerIndex
  <2> DEFINE A == {k \in 1..Len(available) : available[k] = i}
             B == {k \in 1..Len(stack) : stack[k].index = i}
             C == {t \in Threads : Tearing(t, i)}
  <2>1. PlaceInv(i) /\ SessionInv(i) /\ Len(available) \in Nat /\ Len(stack) \in Nat
    BY DEF IInv, SoundInv, TypeOK
  <2>2. Cardinality(A) = IF Free(i) THEN 1 ELSE 0
    <3>1. A \subseteq 1..Len(available) /\ \A k, l \in A : k = l
      BY <2>1 DEF PlaceInv, OneFree
    <3>2. A = {} <=> ~Free(i)
      BY DEF Free
    <3> HIDE DEF A
    <3> QED BY <2>1, <3>1, <3>2, OnceInSequence
  <2>3. Cardinality(B) = IF Stacked(i) THEN 1 ELSE 0
    <3>1. B \subseteq 1..Len(stack) /\ \A k, l \in B : k = l
      BY <2>1 DEF PlaceInv, OneStacked
    <3>2. B = {} <=> ~Stacked(i)
      BY DEF Stacked
    <3> HIDE DEF B
    <3> QED BY <2>1, <3>1, <3>2, OnceInSequence
  <2>4. Cardinality(C) = IF Torn(i) THEN 1 ELSE 0
    <3>1. \A t, v \in C : t = v
      BY <2>1 DEF SessionInv, LifeInv, Ending, Closing, Tearing
    <3>2. C = {} <=> ~Torn(i)
      BY DEF Torn
    <3>3. CASE C = {}
      BY <3>2, <3>3, FS_EmptySet
    <3>4. CASE C # {}
      <4>1. PICK t \in C : TRUE
        BY <3>4
      <4>2. C = {t}
        BY <3>1, <4>1
      <4> HIDE DEF C
      <4> QED BY <3>2, <3>4, <4>2, FS_Singleton
    <3> QED BY <3>3, <3>4
  <2>5. Holders(i) = (IF Free(i) THEN 1 ELSE 0) + (IF Stacked(i) THEN 1 ELSE 0) + (IF Torn(i) THEN 1 ELSE 0)
                     + (IF InUse(i) THEN 1 ELSE 0) + (IF Starting(i) THEN 1 ELSE 0) + (IF Returning(i) THEN 1 ELSE 0)
    <3>1. Holders(i) = Cardinality(A) + Cardinality(B) + Cardinality(C) + (IF InUse(i) THEN 1 ELSE 0)
                       + (IF Starting(i) THEN 1 ELSE 0) + (IF Returning(i) THEN 1 ELSE 0)
      BY DEF Holders, Starting, Returning
    <3> HIDE DEF A, B, C
    <3> QED BY <2>2, <2>3, <2>4, <3>1
  <2>6. ~(Starting(i) /\ Returning(i))
    BY DEF Starting, Returning
  <2> QED BY <2>1, <2>5, <2>6 DEF PlaceInv
<1> QED BY <1>1, Invariance, PTL

\* A thread that tears down, sends to or feeds the session in its slot does so
\* for the connection that has the slot, and the end that is announced is that of
\* the session that ended, unless a slot was reused with something still in flight.
THEOREM NoCrossing == Spec => []NothingCrosses
<1>1. IInv => NothingCrosses
  BY DEF IInv, SoundInv, AttachInv, ServeInv, NothingCrosses
<1> QED BY <1>1, Invariance, PTL

\* The game thread hears CONNECTED, then at most one DISCONNECTED, of a session,
\* and no packet of it before CONNECTED; a session whose end it has not heard is
\* in use or being torn down.
THEOREM EventsMatch == Spec => []EventsMatchSessions
<1>1. IInv => EventsMatchSessions
  <2> SUFFICES ASSUME IInv, ~reused, NEW u \in Conns
               PROVE  /\ events[u] \in {<<>>, <<"CONNECTED">>, <<"CONNECTED", "DISCONNECTED">>}
                      /\ u \notin premature
                      /\ events[u] = <<"CONNECTED">> =>
                           \E i \in Slots : sid[i] = u /\ \/ InUse(i)
                                                          \/ \E t \in Threads : Ending(t, i)
    BY DEF EventsMatchSessions, Ending, Closing
  <2>0. u \notin premature
    BY DEF IInv, SoundInv, NewsInv
  <2>1. CASE \A i \in Slots : sid[i] # u
    <3>1. events[u] \in {<<>>, <<"CONNECTED", "DISCONNECTED">>}
      BY <2>1 DEF IInv, SoundInv, PastInv
    <3> QED BY <2>0, <3>1, Distinct
  <2>2. CASE \E i \in Slots : sid[i] = u
    <3>1. PICK i \in Slots : sid[i] = u
      BY <2>2
    <3>2. LifeInv(i) /\ QuietInv(i)
      BY DEF IInv, SoundInv, SessionInv
    <3>3. CASE Presenting(i) \/ Vacant(i)
      <4>1. u # 0
        BY DEF Conns
      <4>2. events[u] = <<>>
        BY <3>1, <3>2, <3>3, <4>1 DEF QuietInv
      <4> QED BY <2>0, <4>2, Distinct
    <3>4. CASE InUse(i) /\ ~Presenting(i)
      BY <2>0, <3>1, <3>2, <3>4 DEF LifeInv
    <3>5. CASE \E t \in Threads : Ending(t, i)
      BY <2>0, <3>1, <3>2, <3>5 DEF LifeInv
    <3>6. CASE ~valid[i] /\ \A t \in Threads : ~Ending(t, i)
      <4>1. events[u] = <<"CONNECTED", "DISCONNECTED">>
        BY <3>1, <3>2, <3>6 DEF LifeInv
      <4> QED BY <2>0, <4>1, Distinct
    <3> QED BY <3>3, <3>4, <3>5, <3>6 DEF InUse, Vacant
  <2> QED BY <2>1, <2>2
<1> QED BY <1>1, Invariance, PTL

\* _recvQ needs no lock: the thread that parses for a session or is to post its
\* next receive is the only one to.
THEOREM OneReceiver == Spec => []RecvQueueHasOneThread
<1>1. IInv => RecvQueueHasOneThread
  <2> SUFFICES ASSUME IInv, ~reused, NEW t \in Threads, NEW v \in Threads, t # v, at[t] = at[v],
                      pc[t] \in {"parse", "postrecv", "submit"}, pc[v] \in {"parse", "postrecv", "submit"}
               PROVE  FALSE
    BY DEF RecvQueueHasOneThread
  <2>1. at[t] \in Slots
    BY DEF IInv, LocalInv
  <2>2. Receiving(t, at[t]) /\ Receiving(v, at[t])
    BY DEF Receiving
  <2> QED BY <2>1, <2>2 DEF IInv, SoundInv, ReceiveInv
<1> QED BY <1>1, Invariance, PTL

=============================================================================

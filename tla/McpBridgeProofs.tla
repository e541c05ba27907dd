---------------------------- MODULE McpBridgeProofs ----------------------------
(***************************************************************************)
(* Proofs about McpBridge, for every finite set of helpers and all limits. *)
(* The threads that serve a connection are counted exactly, a request that *)
(* is going to be executed has one thread waiting for it, and stop()       *)
(* leaves nothing behind.                                                  *)
(***************************************************************************)
EXTENDS McpBridge, FiniteSetTheorems, SequenceTheorems, TLAPS

\* What holds where the listener is: the connection it has in hand is nobody's yet.
ListenerInv ==
  /\ listener.at \in {"arrived", "refuse", "flush"} => listener.peer \in Peers
  /\ listener.at = "arrived" => client[listener.peer] = "none"

Threads == {p \in Peers : client[p] # "none"}

CountInv == active_clients = Cardinality(Threads) /\ active_clients <= MaxClients

LockInv == lock # NoPeer => client[lock] = "busy"

\* What start() and stop() have taken down.
PhaseInv ==
  /\ phase # "running" => main.at = "idle"
  /\ phase \in {"draining", "off"} => listener.at = "down"
  /\ phase = "off" => Threads = {} /\ pending = <<>> /\ ~hooks

\* The requests that are still to be executed, each in one place only.
WaitInv ==
  /\ main.at \notin {"popped", "execute"} => main.request = NoRequest
  /\ \A p \in ready : client[p] = "waiting"
  /\ \A i \in DOMAIN pending : ~pending[i].cancelled =>
       /\ client[pending[i].peer] = "waiting"
       /\ pending[i].peer \notin ready
       /\ \A j \in DOMAIN pending :
            ~pending[j].cancelled /\ pending[j].peer = pending[i].peer => i = j
  /\ ~main.request.cancelled =>
       /\ client[main.request.peer] = "waiting"
       /\ main.request.peer \notin ready
       /\ \A i \in DOMAIN pending : ~pending[i].cancelled => pending[i].peer # main.request.peer

Queue == pending \in Seq(Entry) /\ Len(pending) <= MaxPending

MainStates ==
  [at: {"idle", "check", "clear", "revoke", "pop", "popped", "execute"},
   late: BOOLEAN, budget: 0..FrameBudget, request: Entry \cup {NoRequest}]
MainShape == main \in MainStates

Shape ==
  /\ open \subseteq Peers /\ unread \subseteq Peers
  /\ client \in [Peers -> Serving \cup {"none"}]
  /\ served \subseteq Peers /\ ready \subseteq Peers
  /\ Queue
  /\ lock \in Peers \cup {NoPeer}
  /\ listener \in [at: {"down", "listen", "arrived", "refuse", "flush", "create"},
                   peer: Peers \cup {NoPeer}]
  /\ revoke_instrumentation \in BOOLEAN /\ away \in BOOLEAN /\ hooks \in BOOLEAN
  /\ MainShape
  /\ phase \in {"off", "running", "stopping", "joining", "draining"}

Inv == Shape /\ ListenerInv /\ CountInv /\ LockInv /\ PhaseInv /\ WaitInv

-----------------------------------------------------------------------------
(* The shape of the state *)

LEMMA QueueAppend ==
  ASSUME Queue, Len(pending) < MaxPending, NEW e \in Entry, pending' = Append(pending, e)
  PROVE  /\ Queue'
         /\ DOMAIN pending' = 1..(Len(pending) + 1)
         /\ \A i \in DOMAIN pending' :
              pending'[i] = IF i \in DOMAIN pending THEN pending[i] ELSE e
<1>1. /\ pending \in Seq(Entry) /\ Len(pending) \in Nat /\ DOMAIN pending = 1..Len(pending)
  BY LenProperties DEF Queue
<1>2. /\ pending' \in Seq(Entry) /\ Len(pending') = Len(pending) + 1
      /\ pending'[Len(pending) + 1] = e
      /\ \A i \in 1..Len(pending) : pending'[i] = pending[i]
  BY <1>1, AppendProperties
<1>3. DOMAIN pending' = 1..Len(pending')
  BY <1>2, LenProperties
<1> QED BY <1>1, <1>2, <1>3, LimitsAssumption DEF Queue

LEMMA QueuePop ==
  ASSUME Queue, pending # <<>>, pending' = Tail(pending)
  PROVE  /\ Queue'
         /\ 1 \in DOMAIN pending /\ Head(pending) = pending[1] /\ Head(pending) \in Entry
         /\ \A i \in DOMAIN pending' : i + 1 \in DOMAIN pending /\ pending'[i] = pending[i + 1]
         /\ DOMAIN pending' \subseteq Nat \ {0}
<1>1. /\ pending \in Seq(Entry) /\ Len(pending) \in Nat /\ DOMAIN pending = 1..Len(pending)
  BY LenProperties DEF Queue
<1>2. Len(pending) # 0
  BY <1>1, EmptySeq
<1>3. /\ pending' \in Seq(Entry) /\ Len(pending') = Len(pending) - 1 /\ Head(pending) \in Entry
      /\ \A i \in 1..Len(pending') : pending'[i] = pending[i + 1]
  BY <1>1, HeadTailProperties
<1>4. DOMAIN pending' = 1..Len(pending')
  BY <1>3, LenProperties
<1>5. Head(pending) = pending[1]
  BY <1>1
<1> QED BY <1>1, <1>2, <1>3, <1>4, <1>5, LimitsAssumption DEF Queue

LEMMA QueueMarked ==
  ASSUME Queue, pending' \in [DOMAIN pending -> Entry]
  PROVE  Queue' /\ DOMAIN pending' = DOMAIN pending
<1>1. Len(pending) \in Nat /\ DOMAIN pending = 1..Len(pending)
  BY LenProperties DEF Queue
<1>2. pending' \in Seq(Entry)
  BY <1>1, SeqDef
<1>3. Len(pending') = Len(pending)
  BY <1>1, <1>2, LenProperties
<1> QED BY <1>1, <1>2, <1>3 DEF Queue

LEMMA Rests == Resting \in MainStates /\ FrameBudget \in 0..FrameBudget
BY LimitsAssumption DEF Resting, MainStates

LEMMA ClientShape ==
  ASSUME Shape, NEW p \in Peers, Client(p) \/ Request(p)
  PROVE  Shape'
<1> USE DEF Shape, Serving, pipes, ClientKeeps, At
<1>0. UNCHANGED main => MainShape'
  BY DEF MainShape
<1>00. UNCHANGED pending => Queue'
  BY DEF Queue
<1>1. CASE Enqueue(p)
  <2>1. CASE Len(pending) >= MaxPending
    BY <1>0, <1>00, <1>1, <2>1 DEF Enqueue
  <2>2. CASE ~(Len(pending) >= MaxPending)
    <3>1. Len(pending) \in Nat
      BY LenProperties DEF Queue
    <3>2. [peer |-> p, cancelled |-> FALSE] \in Entry
      BY DEF Entry
    <3>3. Queue'
      BY <1>1, <2>2, <3>1, <3>2, QueueAppend, LimitsAssumption DEF Enqueue
    <3> QED BY <1>0, <1>1, <2>2, <3>3 DEF Enqueue
  <2> QED BY <2>1, <2>2
<1>2. CASE TimeOut(p)
  <2> DEFINE mark(r) == IF r.peer = p THEN [r EXCEPT !.cancelled = TRUE] ELSE r
  <2>1. \A r \in Entry : mark(r) \in Entry
    BY DEF Entry
  <2>2. /\ pending' = [i \in DOMAIN pending |-> mark(pending[i])]
        /\ main' = [main EXCEPT !.request = mark(main.request)]
    BY <1>2 DEF TimeOut, Cancel
  <2>3. Queue'
    <3> HIDE DEF mark
    <3>1. \A i \in DOMAIN pending : pending[i] \in Entry
      BY ElementOfSeq, LenProperties DEF Queue
    <3>2. pending' \in [DOMAIN pending -> Entry]
      BY <2>1, <2>2, <3>1
    <3> QED BY <3>2, QueueMarked
  <2>4. mark(NoRequest) = NoRequest
    BY PeersAssumption DEF NoRequest
  <2>5. mark(main.request) \in Entry \cup {NoRequest}
    <3> HIDE DEF mark
    <3> QED BY <2>1, <2>4 DEF MainShape, MainStates
  <2>6. MainShape'
    <3> HIDE DEF mark
    <3> QED BY <2>2, <2>5 DEF MainShape, MainStates
  <2> QED BY <1>2, <2>3, <2>6 DEF TimeOut
<1>3. CASE ReadClosed(p) \/ PacedStop(p) \/ Answered(p) \/ WriteAborted(p) \/ Leave(p)
  BY <1>0, <1>00, <1>3 DEF ReadClosed, PacedStop, Answered, WriteAborted, Leave
<1>4. CASE Flush(p) \/ Stamp(p) \/ CountDown(p)
  BY <1>0, <1>00, <1>4 DEF Flush, Stamp, CountDown
<1>5. CASE ReadRefused(p) \/ ReadPaced(p) \/ Spend(p) \/ Written(p)
  BY <1>0, <1>00, <1>5 DEF ReadRefused, ReadPaced, Spend, Written
<1> QED BY <1>1, <1>2, <1>3, <1>4, <1>5 DEF Client, Request

LEMMA TickShape ==
  ASSUME Shape, Tick \/ MainStep \/ GracePasses
  PROVE  Shape'
<1> USE DEF Shape, MainKeeps, pipes, revocation
<1>0. UNCHANGED pending => Queue'
  BY DEF Queue
<1>1. CASE Pop
  <2>1. CASE pending = <<>> \/ main.budget = 0
    <3>1. MainShape'
      BY <1>1, <2>1, Rests DEF Pop, MainShape
    <3> QED BY <1>0, <1>1, <2>1, <3>1 DEF Pop
  <2>2. CASE ~(pending = <<>> \/ main.budget = 0)
    <3>1. Queue' /\ Head(pending) \in Entry
      BY <1>1, <2>2, QueuePop DEF Pop
    <3>2. main.budget \in 0..FrameBudget /\ main.budget - 1 \in 0..FrameBudget
      BY <2>2, LimitsAssumption DEF MainShape, MainStates
    <3>3. MainShape'
      BY <1>1, <2>2, <3>1, <3>2 DEF Pop, MainShape, MainStates
    <3> QED BY <1>1, <2>2, <3>1, <3>3 DEF Pop
  <2> QED BY <2>1, <2>2
<1>2. CASE Tick \/ CheckClients \/ ClearRevocation \/ Revoke \/ GracePasses
  <2>1. MainShape'
    <3>1. CASE Tick
      BY <3>1, Rests DEF Tick, MainShape, MainStates
    <3>2. CASE CheckClients
      BY <3>2 DEF CheckClients, MainShape, MainStates
    <3>3. CASE ClearRevocation \/ Revoke \/ GracePasses
      BY <3>3 DEF ClearRevocation, Revoke, GracePasses, MainShape, MainStates
    <3> QED BY <1>2, <3>1, <3>2, <3>3
  <2> QED BY <1>0, <1>2, <2>1 DEF Tick, CheckClients, ClearRevocation, Revoke, GracePasses
<1>3. CASE CheckCancelled \/ Execute \/ Fault
  <2>1. MainShape'
    <3>1. CASE CheckCancelled \/ Execute
      BY <3>1 DEF CheckCancelled, Execute, MainShape, MainStates
    <3>2. CASE Fault
      BY <3>2, Rests DEF Fault, MainShape
    <3> QED BY <1>3, <3>1, <3>2
  <2>2. ~main.request.cancelled => main.request.peer \in Peers
    BY DEF Entry, MainShape, MainStates, NoRequest
  <2> QED BY <1>0, <1>3, <2>1, <2>2 DEF CheckCancelled, Execute, Fault
<1> QED BY <1>1, <1>2, <1>3 DEF MainStep

LEMMA ShapeKept == Inv /\ [Next]_vars => Shape'
<1> SUFFICES ASSUME Inv, [Next]_vars PROVE Shape'
  OBVIOUS
<1>0. Shape /\ ListenerInv
  BY DEF Inv
<1> USE DEF pipes, revocation
<1>1. CASE \E p \in Peers : Client(p) \/ Request(p)
  BY <1>0, <1>1, ClientShape
<1>2. CASE \E p \in Peers : Connect(p) \/ HangUp(p) \/ Read(p)
  BY <1>0, <1>2 DEF Shape, Queue, MainShape, Connect, HangUp, Read
<1>3. CASE Listener
  <2> USE <1>0 DEF Shape, Queue, MainShape, ListenerInv, ListenerKeeps, Listen
  <2>1. CASE Accept
    BY <2>1 DEF Accept, Serving
  <2>2. CASE StopListening \/ ThreadFails \/ RefuseWritten \/ RefuseAborted \/ FlushRefused \/ CreatePipe
    BY <2>2 DEF StopListening, ThreadFails, RefuseWritten, RefuseAborted, FlushRefused, CreatePipe
  <2> QED BY <1>3, <2>1, <2>2 DEF Listener
<1>4. CASE Tick \/ MainStep \/ GracePasses
  BY <1>0, <1>4, TickShape
<1>5. CASE Start \/ BeginStop \/ Stop
  <2> USE <1>0 DEF Shape, MainShape, MainKeeps, Listen
  <2>1. CASE Start \/ BeginStop \/ JoinListener
    BY <2>1 DEF Start, BeginStop, JoinListener, Queue
  <2>2. CASE FailFirst \/ JoinClients
    <3>1. {pending[i].peer : i \in {j \in DOMAIN pending : ~pending[j].cancelled}} \subseteq Peers
      <4>1. \A i \in DOMAIN pending : pending[i] \in Entry
        BY ElementOfSeq, LenProperties DEF Queue
      <4> QED BY <4>1 DEF Entry
    <3>2. pending' = <<>> => Queue'
      BY EmptySeq, LimitsAssumption DEF Queue
    <3> QED BY <2>2, <3>1, <3>2 DEF FailFirst, JoinClients, FailQueued
  <2> QED BY <1>5, <2>1, <2>2 DEF Stop
<1>6. CASE UNCHANGED vars
  BY <1>0, <1>6 DEF Shape, Queue, MainShape, vars
<1> QED BY <1>1, <1>2, <1>3, <1>4, <1>5, <1>6 DEF Next

-----------------------------------------------------------------------------
(* Who serves whom *)

\* A thread takes care of its own state and leaves the rest to the others.
LEMMA ClientFrame ==
  ASSUME Shape, LockInv, NEW p \in Peers, Client(p) \/ Request(p)
  PROVE  /\ UNCHANGED listener /\ UNCHANGED phase /\ UNCHANGED hooks
         /\ client[p] # "none" /\ client' = [client EXCEPT ![p] = client'[p]]
         /\ \/ client'[p] \in Serving /\ UNCHANGED active_clients
            \/ CountDown(p)
         /\ LockInv'
         /\ main'.at = main.at
<1> USE DEF Shape, LockInv, Serving, pipes, ClientKeeps, At
<1>1. CASE Enqueue(p)
  BY <1>1, PeersAssumption DEF Enqueue
<1>2. CASE TimeOut(p)
  <2>1. main'.at = main.at
    BY <1>2 DEF TimeOut, Cancel, MainShape, MainStates
  <2> QED BY <1>2, <2>1 DEF TimeOut
<1>3. CASE ReadClosed(p) \/ PacedStop(p) \/ Answered(p) \/ WriteAborted(p) \/ Leave(p)
  BY <1>3 DEF ReadClosed, PacedStop, Answered, WriteAborted, Leave
<1>4. CASE Flush(p) \/ Stamp(p)
  BY <1>4 DEF Flush, Stamp
<1>5. CASE CountDown(p)
  BY <1>5 DEF CountDown
<1>6. CASE ReadRefused(p) \/ ReadPaced(p) \/ Spend(p) \/ Written(p)
  BY <1>6 DEF ReadRefused, ReadPaced, Spend, Written
<1> QED BY <1>1, <1>2, <1>3, <1>4, <1>5, <1>6 DEF Client, Request

LEMMA ListenerKept == Inv /\ [Next]_vars => ListenerInv'
<1> SUFFICES ASSUME Inv, [Next]_vars PROVE ListenerInv'
  OBVIOUS
<1>0. Shape /\ ListenerInv /\ LockInv
  BY DEF Inv
<1> USE <1>0 DEF ListenerInv, pipes, revocation
<1>1. CASE \E p \in Peers : Client(p) \/ Request(p)
  BY <1>1, ClientFrame DEF Shape
<1>2. CASE \E p \in Peers : Connect(p) \/ HangUp(p) \/ Read(p)
  BY <1>2 DEF Connect, HangUp, Read
<1>3. CASE Listener
  BY <1>3 DEF Listener, StopListening, Accept, ThreadFails, RefuseWritten, RefuseAborted,
              FlushRefused, CreatePipe, Listen, Shape
<1>4. CASE Tick \/ MainStep \/ GracePasses
  BY <1>4 DEF Tick, MainStep, CheckClients, ClearRevocation, Revoke, Pop, CheckCancelled, Execute,
              Fault, GracePasses, MainKeeps
<1>5. CASE Start \/ BeginStop \/ Stop
  BY <1>5 DEF Start, BeginStop, Stop, FailFirst, JoinListener, JoinClients, MainKeeps, Listen
<1>6. CASE UNCHANGED vars
  BY <1>6 DEF vars
<1> QED BY <1>1, <1>2, <1>3, <1>4, <1>5, <1>6 DEF Next

LEMMA ThreadsFinite == IsFiniteSet(Threads)
BY PeersAssumption, FS_Subset DEF Threads

LEMMA CountKept == Inv /\ [Next]_vars => CountInv'
<1> SUFFICES ASSUME Inv, [Next]_vars PROVE CountInv'
  OBVIOUS
<1>0. Shape /\ ListenerInv /\ LockInv /\ CountInv
  BY DEF Inv
<1>00. UNCHANGED <<client, active_clients>> => CountInv'
  BY <1>0 DEF CountInv, Threads
<1> USE DEF pipes, revocation
<1>1. CASE \E p \in Peers : Client(p) \/ Request(p)
  <2>1. PICK p \in Peers : Client(p) \/ Request(p)
    BY <1>1
  <2>2. CASE client'[p] \in Serving /\ UNCHANGED active_clients
    <3>1. Threads' = Threads
      BY <1>0, <2>1, <2>2, ClientFrame DEF Threads, Shape, Serving
    <3> QED BY <1>0, <2>2, <3>1 DEF CountInv
  <2>3. CASE CountDown(p)
    <3>1. p \in Threads /\ Threads' = Threads \ {p}
      BY <1>0, <2>3 DEF CountDown, At, Threads, Shape
    <3>2. Cardinality(Threads') = Cardinality(Threads) - 1 /\ Cardinality(Threads) \in Nat
      BY <3>1, ThreadsFinite, FS_RemoveElement, FS_CardinalityType
    <3> QED BY <1>0, <2>3, <3>2, LimitsAssumption DEF CountInv, CountDown
  <2> QED BY <1>0, <2>1, <2>2, <2>3, ClientFrame
<1>2. CASE \E p \in Peers : Connect(p) \/ HangUp(p) \/ Read(p)
  BY <1>00, <1>2 DEF Connect, HangUp, Read
<1>3. CASE Accept
  <2>1. CASE UNCHANGED <<client, active_clients>>
    BY <1>00, <2>1
  <2>2. CASE /\ active_clients < MaxClients
             /\ active_clients' = active_clients + 1
             /\ client' = [client EXCEPT ![listener.peer] = "reading"]
    <3>1. listener.peer \in Peers /\ client[listener.peer] = "none"
      BY <1>0, <1>3 DEF Accept, ListenerInv
    <3>2. listener.peer \notin Threads /\ Threads' = Threads \cup {listener.peer}
      BY <1>0, <2>2, <3>1 DEF Threads, Shape
    <3>3. Cardinality(Threads') = Cardinality(Threads) + 1 /\ Cardinality(Threads) \in Nat
      BY <3>2, ThreadsFinite, FS_AddElement, FS_CardinalityType
    <3> QED BY <1>0, <2>2, <3>3, LimitsAssumption DEF CountInv
  <2> QED BY <1>3, <2>1, <2>2 DEF Accept
<1>4. CASE StopListening \/ ThreadFails \/ RefuseWritten \/ RefuseAborted \/ FlushRefused \/ CreatePipe
  BY <1>00, <1>4 DEF StopListening, ThreadFails, RefuseWritten, RefuseAborted, FlushRefused, CreatePipe
<1>5. CASE Tick \/ MainStep \/ GracePasses
  BY <1>00, <1>5 DEF Tick, MainStep, CheckClients, ClearRevocation, Revoke, Pop, CheckCancelled,
                     Execute, Fault, GracePasses, MainKeeps
<1>6. CASE Start \/ BeginStop \/ FailFirst \/ JoinListener
  BY <1>00, <1>6 DEF Start, BeginStop, FailFirst, JoinListener, MainKeeps
<1>7. CASE JoinClients
  <2>1. Threads' = {} /\ active_clients' = 0
    BY <1>7 DEF JoinClients, Threads
  <2> QED BY <2>1, FS_EmptySet, LimitsAssumption DEF CountInv
<1>8. CASE UNCHANGED vars
  BY <1>00, <1>8 DEF vars
<1> QED BY <1>1, <1>2, <1>3, <1>4, <1>5, <1>6, <1>7, <1>8 DEF Next, Listener, Stop

LEMMA LockKept == Inv /\ [Next]_vars => LockInv'
<1> SUFFICES ASSUME Inv, [Next]_vars PROVE LockInv'
  OBVIOUS
<1>0. Shape /\ ListenerInv /\ LockInv
  BY DEF Inv
<1>00. UNCHANGED <<client, lock>> => LockInv'
  BY <1>0 DEF LockInv
<1> USE DEF pipes, revocation
<1>1. CASE \E p \in Peers : Client(p) \/ Request(p)
  BY <1>0, <1>1, ClientFrame
<1>2. CASE \E p \in Peers : Connect(p) \/ HangUp(p) \/ Read(p)
  BY <1>00, <1>2 DEF Connect, HangUp, Read
<1>3. CASE Accept
  BY <1>0, <1>3 DEF Accept, ListenerKeeps, LockInv, ListenerInv, Shape
<1>4. CASE StopListening \/ ThreadFails \/ RefuseWritten \/ RefuseAborted \/ FlushRefused \/ CreatePipe
  BY <1>00, <1>4 DEF StopListening, ThreadFails, RefuseWritten, RefuseAborted, FlushRefused, CreatePipe,
                     ListenerKeeps
<1>5. CASE Tick \/ MainStep \/ GracePasses
  BY <1>00, <1>5 DEF Tick, MainStep, CheckClients, ClearRevocation, Revoke, Pop, CheckCancelled,
                     Execute, Fault, GracePasses, MainKeeps
<1>6. CASE Start \/ BeginStop \/ Stop
  BY <1>00, <1>6 DEF Start, BeginStop, Stop, FailFirst, JoinListener, JoinClients, MainKeeps
<1>7. CASE UNCHANGED vars
  BY <1>00, <1>7 DEF vars
<1> QED BY <1>1, <1>2, <1>3, <1>4, <1>5, <1>6, <1>7 DEF Next, Listener

-----------------------------------------------------------------------------
(* What stop() takes down *)

LEMMA PhaseKept == Inv /\ [Next]_vars => PhaseInv'
<1> SUFFICES ASSUME Inv, [Next]_vars PROVE PhaseInv'
  OBVIOUS
<1>0. Shape /\ ListenerInv /\ LockInv /\ PhaseInv
  BY DEF Inv
<1> USE <1>0 DEF PhaseInv, pipes, revocation
<1>1. CASE \E p \in Peers : Client(p) \/ Request(p)
  BY <1>1, ClientFrame DEF Threads
<1>2. CASE \E p \in Peers : Connect(p) \/ HangUp(p) \/ Read(p)
  BY <1>2 DEF Connect, HangUp, Read, Threads
<1>3. CASE Listener
  BY <1>3 DEF Listener, StopListening, Accept, ThreadFails, RefuseWritten, RefuseAborted,
              FlushRefused, CreatePipe, ListenerKeeps
<1>4. CASE Tick \/ MainStep \/ GracePasses
  BY <1>4 DEF Tick, MainStep, CheckClients, ClearRevocation, Revoke, Pop, CheckCancelled, Execute,
              Fault, GracePasses, MainKeeps, Threads
<1>5. CASE Start \/ BeginStop \/ Stop
  BY <1>5 DEF Start, BeginStop, Stop, FailFirst, JoinListener, JoinClients, FailQueued, MainKeeps,
              Threads
<1>6. CASE UNCHANGED vars
  BY <1>6 DEF vars, Threads
<1> QED BY <1>1, <1>2, <1>3, <1>4, <1>5, <1>6 DEF Next

-----------------------------------------------------------------------------
(* Who waits for a request *)

LEMMA QueuePeers ==
  ASSUME Shape
  PROVE  /\ \A i \in DOMAIN pending : pending[i] \in Entry /\ pending[i].peer \in Peers
         /\ main.request \in Entry \cup {NoRequest}
         /\ ~main.request.cancelled => main.request.peer \in Peers
<1>1. \A i \in DOMAIN pending : pending[i] \in Entry
  BY ElementOfSeq, LenProperties DEF Shape, Queue
<1> QED BY <1>1 DEF Shape, MainShape, MainStates, Entry, NoRequest

\* A step that queues nothing, takes nothing up and leaves the waiting threads alone.
LEMMA WaitFrame ==
  ASSUME WaitInv, UNCHANGED <<ready, pending>>,
         main'.request = main.request,
         main'.at \notin {"popped", "execute"} => main.at \notin {"popped", "execute"},
         \A p \in Peers \cup ready : client[p] = "waiting" => client'[p] = "waiting",
         Shape
  PROVE  WaitInv'
BY QueuePeers DEF WaitInv

LEMMA WaitTimeOut ==
  ASSUME WaitInv, Shape, NEW p \in Peers, TimeOut(p)
  PROVE  WaitInv'
<1>1. /\ \A r \in Entry : LET m == IF r.peer = p THEN [r EXCEPT !.cancelled = TRUE] ELSE r
                           IN  m.peer = r.peer /\ (~m.cancelled => ~r.cancelled /\ r.peer # p)
      /\ NoRequest.peer # p
  BY PeersAssumption DEF Entry, NoRequest
<1>2. /\ DOMAIN pending' = DOMAIN pending
      /\ \A i \in DOMAIN pending :
           /\ pending'[i].peer = pending[i].peer
           /\ ~pending'[i].cancelled => ~pending[i].cancelled /\ pending[i].peer # p
  BY <1>1, QueuePeers DEF TimeOut, Cancel
<1>3. main'.at = main.at
  BY DEF TimeOut, Cancel, Shape, MainShape, MainStates
<1>4. main'.request = IF main.request.peer = p THEN [main.request EXCEPT !.cancelled = TRUE] ELSE main.request
  BY DEF TimeOut, Cancel, Shape, MainShape, MainStates
<1>5. /\ main.request = NoRequest => main'.request = NoRequest
      /\ ~main'.request.cancelled => main'.request = main.request /\ main.request.peer # p
  BY <1>1, <1>4, QueuePeers
<1>6. ready' = ready \ {p} /\ \A q \in Peers \ {p} : client'[q] = client[q]
  BY DEF TimeOut, At, Shape
<1>7. /\ main'.at \notin {"popped", "execute"} => main'.request = NoRequest
      /\ \A q \in ready' : client'[q] = "waiting"
  BY <1>3, <1>5, <1>6 DEF WaitInv, Shape
<1>8. ASSUME NEW i \in DOMAIN pending', ~pending'[i].cancelled
      PROVE  /\ client'[pending'[i].peer] = "waiting"
             /\ pending'[i].peer \notin ready'
             /\ \A j \in DOMAIN pending' :
                  ~pending'[j].cancelled /\ pending'[j].peer = pending'[i].peer => i = j
  BY <1>2, <1>6, <1>8, QueuePeers DEF WaitInv
<1>9. ~main'.request.cancelled =>
        /\ client'[main'.request.peer] = "waiting"
        /\ main'.request.peer \notin ready'
        /\ \A i \in DOMAIN pending' : ~pending'[i].cancelled => pending'[i].peer # main'.request.peer
  BY <1>2, <1>5, <1>6, QueuePeers DEF WaitInv
<1> QED BY <1>7, <1>8, <1>9 DEF WaitInv

LEMMA WaitEnqueue ==
  ASSUME WaitInv, Shape, NEW p \in Peers, Enqueue(p)
  PROVE  WaitInv'
<1>1. CASE Len(pending) >= MaxPending
  BY <1>1, WaitFrame DEF Enqueue, At, Shape
<1>2. CASE ~(Len(pending) >= MaxPending)
  <2> DEFINE e == [peer |-> p, cancelled |-> FALSE]
  <2>1. e \in Entry /\ e.peer = p /\ Len(pending) < MaxPending
    BY <1>2, LenProperties, LimitsAssumption DEF Entry, Shape, Queue
  <2>2. pending' = Append(pending, e) /\ UNCHANGED <<ready, main>>
    BY <1>2 DEF Enqueue
  <2>3. /\ client[p] = "queueing" /\ client'[p] = "waiting"
        /\ \A q \in Peers \ {p} : client'[q] = client[q]
    BY <1>2 DEF Enqueue, At, Shape
  <2>4. /\ DOMAIN pending' = 1..(Len(pending) + 1)
        /\ \A i \in DOMAIN pending' :
             pending'[i] = IF i \in DOMAIN pending THEN pending[i] ELSE e
    <3> HIDE DEF e
    <3> QED BY <2>1, <2>2, QueueAppend DEF Shape
  <2>5. Len(pending) \in Nat /\ DOMAIN pending = 1..Len(pending)
    BY LenProperties DEF Shape, Queue
  <2>6. \A i \in DOMAIN pending' : i \in DOMAIN pending \/ i = Len(pending) + 1
    BY <2>4, <2>5
  <2>7. p \notin ready /\ (\A i \in DOMAIN pending : ~pending[i].cancelled => pending[i].peer # p)
        /\ (~main.request.cancelled => main.request.peer # p)
    BY <2>3 DEF WaitInv
  <2>8. ASSUME NEW i \in DOMAIN pending', ~pending'[i].cancelled
        PROVE  /\ client'[pending'[i].peer] = "waiting"
               /\ pending'[i].peer \notin ready'
               /\ \A j \in DOMAIN pending' :
                    ~pending'[j].cancelled /\ pending'[j].peer = pending'[i].peer => i = j
    <3> HIDE DEF e
    <3>1. CASE i \in DOMAIN pending
      BY <2>1, <2>2, <2>3, <2>4, <2>6, <2>7, <2>8, <3>1, QueuePeers DEF WaitInv
    <3>2. CASE i \notin DOMAIN pending
      BY <2>1, <2>2, <2>3, <2>4, <2>6, <2>7, <2>8, <3>2, QueuePeers DEF WaitInv
    <3> QED BY <3>1, <3>2
  <2>9. ~main.request.cancelled =>
          /\ client'[main.request.peer] = "waiting"
          /\ \A i \in DOMAIN pending' : ~pending'[i].cancelled => pending'[i].peer # main.request.peer
    <3> HIDE DEF e
    <3> QED BY <2>1, <2>3, <2>4, <2>7, QueuePeers DEF WaitInv
  <2>10. \A q \in ready : client'[q] = "waiting"
    BY <2>3, <2>7 DEF WaitInv, Shape
  <2> QED BY <2>2, <2>8, <2>9, <2>10 DEF WaitInv
<1> QED BY <1>1, <1>2

LEMMA WaitClient ==
  ASSUME WaitInv, Shape, NEW p \in Peers, Client(p) \/ Request(p)
  PROVE  WaitInv'
<1> USE DEF At, ClientKeeps
<1>1. CASE Answered(p)
  <2>1. /\ p \in ready /\ ready' = ready \ {p} /\ UNCHANGED <<pending, main>>
        /\ \A q \in Peers \ {p} : client'[q] = client[q]
    BY <1>1 DEF Answered, Shape
  <2> QED BY <2>1, QueuePeers DEF WaitInv, Shape
<1>2. CASE ReadClosed(p) \/ PacedStop(p) \/ WriteAborted(p) \/ Leave(p)
  BY <1>2, WaitFrame DEF ReadClosed, PacedStop, WriteAborted, Leave, Shape
<1>3. CASE Flush(p) \/ Stamp(p) \/ CountDown(p)
  BY <1>3, WaitFrame DEF Flush, Stamp, CountDown, Shape
<1>4. CASE ReadRefused(p) \/ ReadPaced(p) \/ Spend(p) \/ Written(p)
  BY <1>4, WaitFrame DEF ReadRefused, ReadPaced, Spend, Written, Shape
<1> QED BY <1>1, <1>2, <1>3, <1>4, WaitTimeOut, WaitEnqueue DEF Client, Request

LEMMA WaitPop ==
  ASSUME WaitInv, Shape, Pop
  PROVE  WaitInv'
<1>1. CASE pending = <<>> \/ main.budget = 0
  <2>1. UNCHANGED <<pending, ready, client>> /\ main'.request = NoRequest /\ main.request = NoRequest
    BY <1>1 DEF Pop, Resting, MainKeeps, WaitInv
  <2> QED BY <2>1 DEF WaitInv, NoRequest
<1>2. CASE ~(pending = <<>> \/ main.budget = 0)
  <2>1. pending # <<>> /\ pending' = Tail(pending) /\ UNCHANGED <<client, ready>>
    BY <1>2 DEF Pop, MainKeeps
  <2>2. main'.at = "popped" /\ main'.request = Head(pending)
    BY <1>2 DEF Pop, Shape, MainShape, MainStates
  <2>3. /\ 1 \in DOMAIN pending /\ Head(pending) = pending[1]
        /\ DOMAIN pending' \subseteq Nat \ {0}
        /\ \A i \in DOMAIN pending' : i + 1 \in DOMAIN pending /\ pending'[i] = pending[i + 1]
    BY <2>1, QueuePop DEF Shape
  <2>4. ASSUME NEW i \in DOMAIN pending', ~pending'[i].cancelled
        PROVE  /\ client'[pending'[i].peer] = "waiting"
               /\ pending'[i].peer \notin ready'
               /\ \A j \in DOMAIN pending' :
                    ~pending'[j].cancelled /\ pending'[j].peer = pending'[i].peer => i = j
    <3>1. ASSUME NEW j \in DOMAIN pending', ~pending'[j].cancelled, pending'[j].peer = pending'[i].peer
          PROVE  i = j
      <4>1. i + 1 = j + 1
        BY <2>3, <2>4, <3>1 DEF WaitInv
      <4>2. i \in Nat /\ j \in Nat
        BY <2>3
      <4> QED BY <4>1, <4>2
    <3> QED BY <2>1, <2>3, <2>4, <3>1 DEF WaitInv
  <2>5. ~main'.request.cancelled =>
          /\ client'[main'.request.peer] = "waiting"
          /\ main'.request.peer \notin ready'
          /\ \A i \in DOMAIN pending' : ~pending'[i].cancelled => pending'[i].peer # main'.request.peer
    <3>1. \A i \in DOMAIN pending' : i + 1 # 1
      BY <2>3
    <3> QED BY <2>1, <2>2, <2>3, <3>1 DEF WaitInv
  <2>6. \A q \in ready' : client'[q] = "waiting"
    BY <2>1 DEF WaitInv
  <2> QED BY <2>2, <2>4, <2>5, <2>6 DEF WaitInv
<1> QED BY <1>1, <1>2

LEMMA WaitMain ==
  ASSUME WaitInv, Shape, Tick \/ MainStep \/ GracePasses
  PROVE  WaitInv'
<1> USE DEF MainKeeps, revocation
<1>1. CASE Tick
  <2>1. UNCHANGED <<pending, ready, client>> /\ main'.request = NoRequest /\ main.request = NoRequest
    BY <1>1 DEF Tick, Resting, WaitInv
  <2> QED BY <2>1 DEF WaitInv, NoRequest
<1>2. CASE CheckClients \/ ClearRevocation \/ Revoke \/ GracePasses
  BY <1>2, WaitFrame DEF CheckClients, ClearRevocation, Revoke, GracePasses, Shape, MainShape, MainStates
<1>3. CASE CheckCancelled
  <2>1. CASE main.request.cancelled
    <3>1. UNCHANGED <<pending, ready, client>> /\ main'.request = NoRequest
      BY <1>3, <2>1 DEF CheckCancelled, Shape, MainShape, MainStates
    <3> QED BY <3>1 DEF WaitInv, NoRequest
  <2>2. CASE ~main.request.cancelled
    BY <1>3, <2>2, WaitFrame DEF CheckCancelled, Shape, MainShape, MainStates
  <2> QED BY <2>1, <2>2
<1>4. CASE Execute
  <2>1. UNCHANGED <<pending, client>> /\ main'.request = NoRequest
    BY <1>4 DEF Execute, Shape, MainShape, MainStates
  <2>2. ready' = IF main.request.cancelled THEN ready ELSE ready \cup {main.request.peer}
    BY <1>4 DEF Execute
  <2> QED BY <2>1, <2>2 DEF WaitInv, NoRequest
<1>5. CASE Fault
  <2>1. UNCHANGED <<pending, ready, client>> /\ main'.request = NoRequest
    BY <1>5 DEF Fault, Resting
  <2> QED BY <2>1 DEF WaitInv, NoRequest
<1> QED BY <1>1, <1>2, <1>3, <1>4, <1>5, WaitPop DEF MainStep

LEMMA WaitKept == Inv /\ [Next]_vars => WaitInv'
<1> SUFFICES ASSUME Inv, [Next]_vars PROVE WaitInv'
  OBVIOUS
<1>0. Shape /\ ListenerInv /\ PhaseInv /\ WaitInv
  BY DEF Inv
<1> USE DEF revocation
<1>1. CASE \E p \in Peers : Client(p) \/ Request(p)
  BY <1>0, <1>1, WaitClient
<1>2. CASE \E p \in Peers : Connect(p) \/ HangUp(p) \/ Read(p)
  BY <1>0, <1>2, WaitFrame DEF Connect, HangUp, Read
<1>3. CASE Listener
  <2>1. \A p \in Peers : client[p] = "waiting" => client'[p] = "waiting"
    BY <1>0, <1>3 DEF Listener, StopListening, Accept, ThreadFails, RefuseWritten, RefuseAborted,
                      FlushRefused, CreatePipe, Shape, ListenerInv
  <2>2. UNCHANGED <<ready, pending, main>>
    BY <1>3 DEF Listener, StopListening, Accept, ThreadFails, RefuseWritten, RefuseAborted,
                FlushRefused, CreatePipe, ListenerKeeps
  <2> QED BY <1>0, <2>1, <2>2, WaitFrame DEF Shape
<1>4. CASE Tick \/ MainStep \/ GracePasses
  BY <1>0, <1>4, WaitMain
<1>5. CASE Start \/ BeginStop \/ JoinListener
  BY <1>0, <1>5, WaitFrame DEF Start, BeginStop, JoinListener, MainKeeps
<1>6. CASE FailFirst \/ JoinClients
  <2>1. /\ pending' = <<>> /\ UNCHANGED <<client, main>>
        /\ ready' = ready \cup {pending[i].peer : i \in {j \in DOMAIN pending : ~pending[j].cancelled}}
    BY <1>6 DEF FailFirst, JoinClients, FailQueued, MainKeeps
  <2>2. main.request = NoRequest
    BY <1>0, <1>6 DEF PhaseInv, WaitInv, FailFirst, JoinClients
  <2>3. \A q \in ready' : client[q] = "waiting"
    BY <1>0, <2>1 DEF WaitInv
  <2>4. DOMAIN pending' = {}
    BY <2>1
  <2> QED BY <2>1, <2>2, <2>3, <2>4 DEF WaitInv, NoRequest
<1>7. CASE UNCHANGED vars
  BY <1>0, <1>7, WaitFrame DEF vars
<1> QED BY <1>1, <1>2, <1>3, <1>4, <1>5, <1>6, <1>7 DEF Next, Stop

-----------------------------------------------------------------------------
(* The theorems *)

LEMMA InvInit == Init => Inv
<1> SUFFICES ASSUME Init PROVE Inv
  OBVIOUS
<1>1. Threads = {} /\ Cardinality(Threads) = 0
  BY FS_EmptySet DEF Init, Threads
<1>2. DOMAIN pending = {}
  BY DEF Init
<1>3. Queue /\ MainShape
  BY EmptySeq, Rests, LimitsAssumption DEF Init, Queue, MainShape
<1>4. Shape /\ ListenerInv /\ LockInv
  BY <1>3 DEF Init, Shape, Serving, Listen, ListenerInv, LockInv
<1>5. CountInv /\ PhaseInv
  BY <1>1, LimitsAssumption DEF Init, CountInv, PhaseInv, Resting, Listen
<1>6. WaitInv
  BY <1>2 DEF Init, WaitInv, Resting, NoRequest
<1> QED BY <1>4, <1>5, <1>6 DEF Inv

LEMMA InvKept == Inv /\ [Next]_vars => Inv'
BY ShapeKept, ListenerKept, CountKept, LockKept, PhaseKept, WaitKept DEF Inv

LEMMA InvHolds == Spec => []Inv
BY InvInit, InvKept, PTL DEF Spec

LEMMA InvCounts ==
  ASSUME Inv
  PROVE  /\ {p \in Peers : client[p] \in Serving} = Threads
         /\ active_clients \in 0..Cardinality(Peers)
<1>1. Cardinality(Threads) <= Cardinality(Peers) /\ Cardinality(Threads) \in Nat
      /\ Cardinality(Peers) \in Nat
  BY PeersAssumption, ThreadsFinite, FS_Subset, FS_CardinalityType DEF Threads
<1>2. {p \in Peers : client[p] \in Serving} = Threads
  BY DEF Inv, Shape, Threads, Serving
<1> QED BY <1>1, <1>2 DEF Inv, CountInv

LEMMA WaitInvMeans ==
  ASSUME Inv
  PROVE  RequestHasWaiter
<1> SUFFICES ASSUME NEW p \in Peers
             PROVE  /\ Uncancelled(p) <= 1
                    /\ Uncancelled(p) = 1 => client[p] = "waiting" /\ p \notin ready
  BY DEF RequestHasWaiter
<1> DEFINE e == [peer |-> p, cancelled |-> FALSE]
           Q == {i \in DOMAIN pending : pending[i] = e}
<1>0. WaitInv /\ Shape
  BY DEF Inv
<1>1. e.peer = p /\ ~e.cancelled
  OBVIOUS
<1>2. ASSUME NEW i \in Q
      PROVE  client[p] = "waiting" /\ p \notin ready /\ main.request # e /\ Q = {i}
  <2>1. i \in DOMAIN pending /\ ~pending[i].cancelled /\ pending[i].peer = p
    BY <1>1
  <2>2. client[p] = "waiting" /\ p \notin ready /\ main.request # e
    BY <1>0, <1>1, <2>1 DEF WaitInv
  <2>3. \A j \in Q : j \in DOMAIN pending /\ ~pending[j].cancelled /\ pending[j].peer = p
    BY <1>1
  <2>4. \A j \in Q : j = i
    BY <1>0, <2>1, <2>3 DEF WaitInv
  <2> QED BY <2>2, <2>4
<1>3. main.request = e => client[p] = "waiting" /\ p \notin ready
  BY <1>0, <1>1 DEF WaitInv
<1>4. Uncancelled(p) = Cardinality(Q) + (IF main.request = e THEN 1 ELSE 0)
  BY DEF Uncancelled
<1> HIDE DEF e, Q
<1>5. CASE Q = {}
  <2>1. Cardinality(Q) = 0
    BY <1>5, FS_EmptySet
  <2> QED BY <1>3, <1>4, <2>1
<1>6. CASE Q # {}
  <2>1. PICK i \in Q : TRUE
    BY <1>6
  <2>2. Cardinality(Q) = 1
    BY <1>2, <2>1, FS_Singleton
  <2> QED BY <1>2, <1>4, <2>1, <2>2
<1> QED BY <1>5, <1>6

\* Every variable keeps its range, the queue its limit of kMaxPending requests (client_thread,
\* tick, stop).
THEOREM TypeCorrect == Spec => []TypeOK
<1>1. Inv => TypeOK
  BY InvCounts DEF Inv, Shape, Queue, MainShape, MainStates, TypeOK
<1> QED BY <1>1, InvHolds, PTL

\* active_clients is the number of threads that serve a connection, and at most kMaxClients,
\* whatever helpers come and go, threads fail to start or stop() resets it.
THEOREM CountsClients == Spec => []ActiveCountExact
<1>1. Inv => ActiveCountExact
  BY InvCounts DEF Inv, CountInv, ActiveCountExact
<1> QED BY <1>1, InvHolds, PTL

\* A request that tick() is still going to execute has exactly one thread waiting for it,
\* which has no completion yet: a completion is never set for another request or for nobody.
THEOREM RequestsHaveWaiters == Spec => []RequestHasWaiter
BY WaitInvMeans, InvHolds, PTL

\* When stop() has returned no thread runs, nothing is queued or locked and no hook is left.
THEOREM StopsClean == Spec => []StoppedIsClean
<1>1. Inv => StoppedIsClean
  <2> SUFFICES ASSUME Inv, phase = "off"
               PROVE  /\ listener.at = "down" /\ pending = <<>> /\ lock = NoPeer /\ ~hooks
                      /\ \A p \in Peers : client[p] = "none"
    BY DEF StoppedIsClean
  <2>1. \A p \in Peers : client[p] = "none"
    BY DEF Inv, PhaseInv, Threads
  <2> QED BY <2>1 DEF Inv, PhaseInv, LockInv, Shape
<1> QED BY <1>1, InvHolds, PTL

=============================================================================

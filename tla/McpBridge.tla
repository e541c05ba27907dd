------------------------------ MODULE McpBridge ------------------------------
(***************************************************************************)
(* The bridge of Explorer::Mcp::Bridge: one listener thread, one thread    *)
(* per helper connection, and the game's main thread, which executes the   *)
(* queued requests from tick() and runs start() and stop().                *)
(*                                                                         *)
(* A peer is the helper at the other end of a pipe.  It may send, read and *)
(* hang up whenever it likes.  What a request does is left out, but for    *)
(* the trace hooks it may install, which outlive the connection.           *)
(***************************************************************************)
EXTENDS Naturals, Sequences, FiniteSets

CONSTANTS
  Peers,       \* helpers that connect, and connect again
  NoPeer,      \* no helper
  MaxClients,  \* kMaxClients, 4 in the code
  MaxPending,  \* bound of the request queue, 64 in the code
  FrameBudget  \* kMaxRequestsPerFrame, 4 in the code

ASSUME PeersAssumption == IsFiniteSet(Peers) /\ Peers # {} /\ NoPeer \notin Peers
ASSUME LimitsAssumption ==
  /\ MaxClients \in Nat \ {0}
  /\ MaxPending \in Nat \ {0}
  /\ FrameBudget \in Nat \ {0}

VARIABLES
  open,      \* peers that hold their end of a pipe
  unread,    \* peers with bytes of the bridge they have not read
  client,    \* where the thread of each connection is
  served,    \* connections with served_request set, until they end
  ready,     \* connections whose current request has its completion set
  pending,   \* the queue: connection and cancelled flag of each request
  lock,      \* the thread inside g_state.mutex across a blocking write
  listener,  \* where listener_main is, and with which peer
  active_clients,
  revoke_instrumentation,
  away,      \* kRevokeGraceMs have passed since disconnected_at_ms
  hooks,     \* whether requests have trace hooks installed
  main,      \* where the main thread is in tick()
  phase      \* how far start() and stop() are

vars == <<open, unread, client, served, ready, pending, lock, listener,
          active_clients, revoke_instrumentation, away, hooks, main, phase>>
pipes == <<open, unread>>
revocation == <<revoke_instrumentation, away, hooks>>

Entry == [peer: Peers, cancelled: BOOLEAN]

NoRequest == [peer |-> NoPeer, cancelled |-> TRUE]

\* Threads between their start and active_clients.fetch_sub.
Serving == {"reading", "paced", "queueing", "busy", "waiting", "answering",
            "leaving", "closing", "stamping", "counting"}

stopping == phase \in {"stopping", "joining", "draining"}

TypeOK ==
  /\ open \subseteq Peers /\ unread \subseteq Peers
  /\ client \in [Peers -> Serving \cup {"none"}]
  /\ served \subseteq Peers /\ ready \subseteq Peers
  /\ pending \in Seq(Entry) /\ Len(pending) <= MaxPending
  /\ lock \in Peers \cup {NoPeer}
  /\ listener \in [at: {"down", "listen", "arrived", "refuse", "flush", "create"},
                   peer: Peers \cup {NoPeer}]
  /\ active_clients \in 0..Cardinality(Peers)
  /\ revoke_instrumentation \in BOOLEAN /\ away \in BOOLEAN /\ hooks \in BOOLEAN
  /\ main \in [at: {"idle", "check", "clear", "revoke", "pop", "popped", "execute"},
               late: BOOLEAN, budget: 0..FrameBudget,
               request: Entry \cup {NoRequest}]
  /\ phase \in {"off", "running", "stopping", "joining", "draining"}

Resting == [at |-> "idle", late |-> FALSE, budget |-> 0, request |-> NoRequest]
Listen(at) == [at |-> at, peer |-> NoPeer]

Init ==
  /\ open = {} /\ unread = {}
  /\ client = [p \in Peers |-> "none"]
  /\ served = {} /\ ready = {}
  /\ pending = <<>>
  /\ lock = NoPeer
  /\ listener = Listen("down")
  /\ active_clients = 0
  /\ revoke_instrumentation = FALSE
  /\ away = TRUE /\ hooks = FALSE
  /\ main = Resting
  /\ phase = "off"

-----------------------------------------------------------------------------
(***************************************************************************)
(* Peers.                                                                  *)
(***************************************************************************)

\* One pipe instance at a time waits for a connection.
Connect(p) ==
  /\ p \notin open /\ client[p] = "none"
  /\ listener.at = "listen"
  /\ open' = open \cup {p}
  /\ unread' = unread \ {p}
  /\ listener' = [at |-> "arrived", peer |-> p]
  /\ UNCHANGED <<client, served, ready, pending, lock, active_clients, revocation, main, phase>>

HangUp(p) ==
  /\ p \in open
  /\ open' = open \ {p}
  /\ unread' = unread \ {p}
  /\ UNCHANGED <<client, served, ready, pending, lock, listener, active_clients,
                 revocation, main, phase>>

Read(p) ==
  /\ p \in unread
  /\ unread' = unread \ {p}
  /\ UNCHANGED <<open, client, served, ready, pending, lock, listener, active_clients,
                 revocation, main, phase>>

-----------------------------------------------------------------------------
(***************************************************************************)
(* listener_main.                                                          *)
(***************************************************************************)
ListenerKeeps == <<served, ready, pending, lock, revocation, main, phase>>

\* Mutant: nothing ends the wait for a connection.
StopListeningDeaf == FALSE /\ UNCHANGED vars

\* The stop event ends the wait for a connection.
StopListening ==
  /\ listener.at = "listen" /\ stopping
  /\ listener' = Listen("down")
  /\ UNCHANGED <<pipes, client, active_clients, ListenerKeeps>>

\* A connection that arrives while the bridge stops is closed, as is one whose
\* peer has already gone; one too many is refused, any other gets a thread.
Accept ==
  LET p == listener.peer IN
  /\ listener.at = "arrived"
  /\ \/ /\ stopping
        /\ listener' = Listen("down")
        /\ open' = open \ {p}
        /\ UNCHANGED <<client, active_clients>>
     \/ /\ ~stopping /\ p \notin open
        /\ listener' = Listen("create")
        /\ UNCHANGED <<open, client, active_clients>>
     \/ /\ ~stopping /\ active_clients >= MaxClients
        /\ listener' = [listener EXCEPT !.at = "refuse"]
        /\ UNCHANGED <<open, client, active_clients>>
     \/ /\ ~stopping /\ active_clients < MaxClients
        /\ active_clients' = active_clients + 1
        /\ client' = [client EXCEPT ![p] = "reading"]
        /\ listener' = Listen("create")
        /\ UNCHANGED open
  /\ UNCHANGED <<unread, ListenerKeeps>>

\* Mutant: the count is not taken back.
ThreadFailsCounted ==
  /\ listener.at = "arrived" /\ ~stopping /\ active_clients < MaxClients
  /\ listener' = Listen("create")
  /\ active_clients' = active_clients + 1
  /\ UNCHANGED <<pipes, client, ListenerKeeps>>

\* std::thread throws: the count is taken back, and the connection is dropped
\* with its handles open, so that the peer stays connected to nobody.
ThreadFails ==
  /\ listener.at = "arrived" /\ ~stopping /\ active_clients < MaxClients
  /\ listener' = Listen("create")
  /\ UNCHANGED <<pipes, client, active_clients, ListenerKeeps>>

\* bridge_busy reaches the pipe, or the peer or stop() ends the write.
RefuseWritten ==
  /\ listener.at = "refuse" /\ listener.peer \in open
  /\ unread' = unread \cup {listener.peer}
  /\ listener' = [listener EXCEPT !.at = "flush"]
  /\ UNCHANGED <<open, client, active_clients, ListenerKeeps>>

RefuseAborted ==
  /\ listener.at = "refuse" /\ (listener.peer \notin open \/ stopping)
  /\ listener' = [listener EXCEPT !.at = "flush"]
  /\ UNCHANGED <<pipes, client, active_clients, ListenerKeeps>>

\* close_connection: FlushFileBuffers waits until the peer has read everything
\* or is gone; no event ends that wait.
FlushRefused ==
  /\ listener.at = "flush" /\ listener.peer \notin unread
  /\ open' = open \ {listener.peer}
  /\ listener' = Listen("create")
  /\ UNCHANGED <<unread, client, active_clients, ListenerKeeps>>

\* The next pipe instance, which may fail; then the bridge has no listener.
CreatePipe ==
  /\ listener.at = "create"
  /\ \/ ~stopping /\ listener' = Listen("listen")
     \/ listener' = Listen("down")
  /\ UNCHANGED <<pipes, client, active_clients, ListenerKeeps>>

Listener ==
  \/ StopListening \/ Accept \/ ThreadFails \/ RefuseWritten \/ RefuseAborted
  \/ FlushRefused \/ CreatePipe

-----------------------------------------------------------------------------
(***************************************************************************)
(* serve_client and run_client.                                            *)
(***************************************************************************)
ClientKeeps == <<listener, away, hooks, phase>>
At(p, at) == client' = [client EXCEPT ![p] = at]

\* Nothing more to read, or the stop event.
ReadClosed(p) ==
  /\ client[p] = "reading"
  /\ p \notin open \/ stopping
  /\ At(p, "leaving")
  /\ UNCHANGED <<pipes, served, ready, pending, lock, active_clients,
                 revoke_instrumentation, main, ClientKeeps>>

\* An oversized, malformed or rate-limited request is answered at once.
ReadRefused(p) ==
  /\ client[p] = "reading" /\ p \in open
  /\ At(p, "answering")
  /\ UNCHANGED <<pipes, served, ready, pending, lock, active_clients,
                 revoke_instrumentation, main, ClientKeeps>>

\* The budget is short by less than kMaxBudgetWaitSeconds.
ReadPaced(p) ==
  /\ client[p] = "reading" /\ p \in open
  /\ At(p, "paced")
  /\ UNCHANGED <<pipes, served, ready, pending, lock, active_clients,
                 revoke_instrumentation, main, ClientKeeps>>

PacedStop(p) ==
  /\ client[p] = "paced" /\ stopping
  /\ At(p, "leaving")
  /\ UNCHANGED <<pipes, served, ready, pending, lock, active_clients,
                 revoke_instrumentation, main, ClientKeeps>>

\* The request is within budget, at once or after the wait.
Spend(p) ==
  /\ \/ client[p] = "reading" /\ p \in open
     \/ client[p] = "paced"
  /\ served' = served \cup {p}
  /\ At(p, "queueing")
  /\ UNCHANGED <<pipes, ready, pending, lock, active_clients, revoke_instrumentation, main, ClientKeeps>>

\* Mutant: the limit is tested off by one.
EnqueuePastLimit(p) ==
  /\ client[p] = "queueing" /\ lock = NoPeer
  /\ IF Len(pending) > MaxPending
     THEN lock' = p /\ At(p, "busy") /\ UNCHANGED pending
     ELSE /\ pending' = Append(pending, [peer |-> p, cancelled |-> FALSE])
          /\ At(p, "waiting") /\ UNCHANGED lock
  /\ UNCHANGED <<pipes, served, ready, active_clients, revoke_instrumentation, main, ClientKeeps>>

Enqueue(p) ==
  /\ client[p] = "queueing" /\ lock = NoPeer
  /\ IF Len(pending) >= MaxPending
     THEN lock' = p /\ At(p, "busy") /\ UNCHANGED pending
     ELSE /\ pending' = Append(pending, [peer |-> p, cancelled |-> FALSE])
          /\ At(p, "waiting") /\ UNCHANGED lock
  /\ UNCHANGED <<pipes, served, ready, active_clients, revoke_instrumentation, main, ClientKeeps>>

\* The completion is set, or stop() set it to bridge_stopped.
Answered(p) ==
  /\ client[p] = "waiting" /\ p \in ready
  /\ ready' = ready \ {p}
  /\ At(p, "answering")
  /\ UNCHANGED <<pipes, served, pending, lock, active_clients,
                 revoke_instrumentation, main, ClientKeeps>>

\* cancelled.store(true), wherever the request is by now.
Cancel(p) ==
  LET mark(r) == IF r.peer = p THEN [r EXCEPT !.cancelled = TRUE] ELSE r IN
  /\ pending' = [i \in DOMAIN pending |-> mark(pending[i])]
  /\ main' = [main EXCEPT !.request = mark(main.request)]

\* Mutant: the request is not cancelled.
TimeOutQuietly(p) ==
  /\ client[p] = "waiting"
  /\ ready' = ready \ {p}
  /\ At(p, IF stopping THEN "leaving" ELSE "answering")
  /\ UNCHANGED <<pipes, served, lock, pending, active_clients, revoke_instrumentation,
                 main, ClientKeeps>>

\* Mutant: the wait has no deadline.
TimeOutOnStop(p) ==
  /\ client[p] = "waiting" /\ stopping
  /\ Cancel(p)
  /\ ready' = ready \ {p}
  /\ At(p, "leaving")
  /\ UNCHANGED <<pipes, served, lock, active_clients, revoke_instrumentation, ClientKeeps>>

\* The deadline passes.  A completion set after the last wait is not seen.
TimeOut(p) ==
  /\ client[p] = "waiting"
  /\ Cancel(p)
  /\ ready' = ready \ {p}
  /\ At(p, IF stopping THEN "leaving" ELSE "answering")
  /\ UNCHANGED <<pipes, served, lock, active_clients, revoke_instrumentation, ClientKeeps>>

\* write_line: into the pipe's buffer, which may be full of unread answers.
Written(p) ==
  /\ client[p] \in {"answering", "busy"} /\ p \in open
  /\ unread' = unread \cup {p}
  /\ lock' = IF lock = p THEN NoPeer ELSE lock
  /\ At(p, "reading")
  /\ UNCHANGED <<open, served, ready, pending, active_clients, revoke_instrumentation,
                 main, ClientKeeps>>

WriteAborted(p) ==
  /\ client[p] \in {"answering", "busy"}
  /\ p \notin open \/ stopping
  /\ lock' = IF lock = p THEN NoPeer ELSE lock
  /\ At(p, "leaving")
  /\ UNCHANGED <<pipes, served, ready, pending, active_clients, revoke_instrumentation,
                 main, ClientKeeps>>

\* Only clients that sent requests can trigger trace revocation.
Leave(p) ==
  /\ client[p] = "leaving"
  /\ revoke_instrumentation' = (revoke_instrumentation \/ p \in served)
  /\ served' = served \ {p}
  /\ At(p, "closing")
  /\ UNCHANGED <<pipes, ready, pending, lock, active_clients, main, ClientKeeps>>

\* close_connection, as in FlushRefused.
Flush(p) ==
  /\ client[p] = "closing" /\ p \notin unread
  /\ open' = open \ {p}
  /\ At(p, "stamping")
  /\ UNCHANGED <<unread, served, ready, pending, lock, active_clients,
                 revoke_instrumentation, main, ClientKeeps>>

\* disconnected_at_ms.store(now_ms()).
Stamp(p) ==
  /\ client[p] = "stamping"
  /\ away' = FALSE
  /\ At(p, "counting")
  /\ UNCHANGED <<pipes, served, ready, pending, lock, listener, active_clients,
                 revoke_instrumentation, hooks, main, phase>>

CountDown(p) ==
  /\ client[p] = "counting"
  /\ active_clients' = active_clients - 1
  /\ At(p, "none")
  /\ UNCHANGED <<pipes, served, ready, pending, lock, revoke_instrumentation, main, ClientKeeps>>

Client(p) ==
  \/ ReadClosed(p) \/ PacedStop(p) \/ Enqueue(p) \/ Answered(p) \/ TimeOut(p)
  \/ WriteAborted(p) \/ Leave(p) \/ Flush(p) \/ Stamp(p) \/ CountDown(p)
  \/ client[p] = "paced" /\ Spend(p)

\* What the thread does when the peer sends something or reads nothing.
Request(p) ==
  \/ ReadRefused(p)
  \/ ReadPaced(p)
  \/ client[p] = "reading" /\ Spend(p)
  \/ Written(p)

-----------------------------------------------------------------------------
(***************************************************************************)
(* tick() on the main thread.                                              *)
(***************************************************************************)
MainKeeps == <<pipes, client, served, lock, listener, active_clients>>

\* The grace period after the last disconnect is over.
GracePasses ==
  /\ ~away
  /\ away' = TRUE
  /\ UNCHANGED <<MainKeeps, ready, pending, revoke_instrumentation, hooks, main, phase>>

\* tick() reads disconnected_at_ms before it reads active_clients.
Tick ==
  /\ phase = "running" /\ main.at = "idle"
  /\ main' = [Resting EXCEPT !.at = IF revoke_instrumentation THEN "check" ELSE "pop",
                             !.late = revoke_instrumentation /\ away,
                             !.budget = FrameBudget]
  /\ UNCHANGED <<MainKeeps, ready, pending, revocation, phase>>

CheckClients ==
  /\ main.at = "check"
  /\ main' = [main EXCEPT !.at = IF active_clients > 0 THEN "clear"
                                 ELSE IF main.late THEN "revoke" ELSE "pop",
                          !.late = FALSE]
  /\ UNCHANGED <<MainKeeps, ready, pending, revocation, phase>>

ClearRevocation ==
  /\ main.at = "clear"
  /\ revoke_instrumentation' = FALSE
  /\ main' = [main EXCEPT !.at = "pop"]
  /\ UNCHANGED <<MainKeeps, ready, pending, away, hooks, phase>>

\* RuntimeTools::revoke_instrumentation stops every trace a request installed.
Revoke ==
  /\ main.at = "revoke"
  /\ revoke_instrumentation' = FALSE
  /\ hooks' = FALSE
  /\ main' = [main EXCEPT !.at = "pop"]
  /\ UNCHANGED <<MainKeeps, ready, pending, away, phase>>

\* Mutant: a frame takes requests for as long as there are any.
PopAll ==
  /\ main.at = "pop" /\ lock = NoPeer
  /\ IF pending = <<>>
     THEN main' = Resting /\ UNCHANGED pending
     ELSE /\ pending' = Tail(pending)
          /\ main' = [main EXCEPT !.at = "popped", !.request = Head(pending)]
  /\ UNCHANGED <<MainKeeps, ready, revocation, phase>>

Pop ==
  /\ main.at = "pop" /\ lock = NoPeer
  /\ IF pending = <<>> \/ main.budget = 0
     THEN main' = Resting /\ UNCHANGED pending
     ELSE /\ pending' = Tail(pending)
          /\ main' = [main EXCEPT !.at = "popped", !.budget = @ - 1, !.request = Head(pending)]
  /\ UNCHANGED <<MainKeeps, ready, revocation, phase>>

CheckCancelled ==
  /\ main.at = "popped"
  /\ main' = IF main.request.cancelled
             THEN [main EXCEPT !.at = "pop", !.request = NoRequest]
             ELSE [main EXCEPT !.at = "execute"]
  /\ UNCHANGED <<MainKeeps, ready, pending, revocation, phase>>

\* execute() and set_value.  The waiting thread may have given up meanwhile.
\* The request may start a method trace, or stop the last one.
Execute ==
  /\ main.at = "execute"
  /\ ready' = IF main.request.cancelled THEN ready ELSE ready \cup {main.request.peer}
  /\ hooks' \in BOOLEAN
  /\ main' = [main EXCEPT !.at = "pop", !.request = NoRequest]
  /\ UNCHANGED <<MainKeeps, pending, revoke_instrumentation, away, phase>>

\* A native fault leaves tick() through the handler in ModRuntime::update; the
\* completion is never set.
Fault ==
  /\ main.at = "execute"
  /\ main' = Resting
  /\ UNCHANGED <<MainKeeps, ready, pending, revocation, phase>>

MainStep ==
  \/ CheckClients \/ ClearRevocation \/ Revoke \/ Pop \/ CheckCancelled \/ Execute \/ Fault

-----------------------------------------------------------------------------
(***************************************************************************)
(* start() and stop() on the main thread.                                  *)
(***************************************************************************)
Start ==
  /\ phase = "off"
  /\ phase' = "running"
  /\ listener' = Listen("listen")
  /\ UNCHANGED <<pipes, client, served, ready, pending, lock, active_clients, revocation, main>>

\* The flag and the event, then the first fail_queued_requests.
BeginStop ==
  /\ phase = "running" /\ main.at = "idle"
  /\ phase' = "stopping"
  /\ UNCHANGED <<MainKeeps, ready, pending, revocation, main>>

FailQueued ==
  /\ lock = NoPeer
  /\ ready' = ready \cup {pending[i].peer : i \in {j \in DOMAIN pending : ~pending[j].cancelled}}
  /\ pending' = <<>>

FailFirst ==
  /\ phase = "stopping"
  /\ FailQueued
  /\ phase' = "joining"
  /\ UNCHANGED <<MainKeeps, revocation, main>>

\* server_thread.join().
JoinListener ==
  /\ phase = "joining" /\ listener.at = "down"
  /\ phase' = "draining"
  /\ UNCHANGED <<MainKeeps, ready, pending, revocation, main>>

\* Mutant: what was queued after the first pass stays queued.
JoinClientsOnly ==
  /\ phase = "draining"
  /\ \A p \in Peers : client[p] = "none"
  /\ active_clients' = 0
  /\ hooks' = FALSE
  /\ phase' = "off"
  /\ UNCHANGED <<pipes, client, served, ready, pending, lock, listener, revoke_instrumentation,
                 away, main>>

\* The client threads are joined, the rest of the queue fails, and
\* RuntimeModel::stop() takes down every trace.
JoinClients ==
  /\ phase = "draining"
  /\ \A p \in Peers : client[p] = "none"
  /\ FailQueued
  /\ active_clients' = 0
  /\ hooks' = FALSE
  /\ phase' = "off"
  /\ UNCHANGED <<pipes, client, served, lock, listener, revoke_instrumentation, away, main>>

Stop == FailFirst \/ JoinListener \/ JoinClients

-----------------------------------------------------------------------------
Next ==
  \/ \E p \in Peers : Connect(p) \/ HangUp(p) \/ Read(p) \/ Client(p) \/ Request(p)
  \/ Listener
  \/ GracePasses
  \/ Tick \/ MainStep
  \/ Start \/ BeginStop \/ Stop

Spec == Init /\ [][Next]_vars

-----------------------------------------------------------------------------
\* run_client: the counter is the number of threads that serve a connection,
\* whatever the order in which they come and go, and never exceeds the limit.
ActiveCountExact ==
  /\ active_clients = Cardinality({p \in Peers : client[p] \in Serving})
  /\ active_clients <= MaxClients

\* serve_client and tick(): a request that nobody has given up on is in one place,
\* and the thread that sent it waits for it and for no other.  One that times out
\* after tick() looked at `cancelled` is no longer such a request and is executed
\* all the same: see ExecutedHasWaiter.
Uncancelled(p) ==
  Cardinality({i \in DOMAIN pending : pending[i] = [peer |-> p, cancelled |-> FALSE]})
  + (IF main.request = [peer |-> p, cancelled |-> FALSE] THEN 1 ELSE 0)
RequestHasWaiter ==
  \A p \in Peers :
    /\ Uncancelled(p) <= 1
    /\ Uncancelled(p) = 1 => client[p] = "waiting" /\ p \notin ready

\* stop(): nothing is left running, queued or locked when it returns.
StoppedIsClean ==
  phase = "off" =>
    /\ listener.at = "down"
    /\ \A p \in Peers : client[p] = "none"
    /\ pending = <<>> /\ lock = NoPeer /\ ~hooks

\* serve_client, "timeout": a request that was given up on is not executed.  It is,
\* when its deadline passes between tick()'s look at `cancelled` and execute().
ExecutedHasWaiter == main.at = "execute" => client[main.request.peer] = "waiting"

\* The threads run, deadlines pass, an answer fits an empty pipe buffer, and a
\* mutex that is released again and again is acquired by who waits for it.
ThreadFairness ==
  /\ \A p \in Peers :
       /\ WF_vars(Client(p)) /\ SF_vars(Enqueue(p))
       /\ WF_vars(p \notin unread /\ Written(p))
  /\ WF_vars(Listener)
  /\ WF_vars(Tick) /\ WF_vars(MainStep) /\ SF_vars(Pop)
  /\ WF_vars(GracePasses)
  /\ WF_vars(Stop) /\ SF_vars(FailFirst)
\* Peers that read what they are sent, or hang up.
PeerFairness == \A p \in Peers : WF_vars(Read(p))

FairSpec == Spec /\ ThreadFairness
PoliteSpec == FairSpec /\ PeerFairness

\* Some helper never again reads what it was sent, for one while its thread writes
\* the busy answer under the mutex.
NeverReads(p) == <>[](p \in unread)
KeepsMutex == \E q \in Peers : <>[](lock = q /\ q \in unread)

\* serve_client: a request that was read is answered, or its connection ends, even
\* when the main thread faults or stops, unless its own helper never reads again or
\* one of them keeps the queue's mutex.
RequestEnds ==
  \A p \in Peers :
    NeverReads(p) \/ KeepsMutex \/ (client[p] = "queueing" ~> client[p] \in {"reading", "none"})

\* tick(): the game's main thread gets through a frame, however many requests come
\* and whoever hangs up, faults or stops reading, but for one case: a helper that
\* never again reads keeps the mutex through the busy answer.
TickEnds == KeepsMutex \/ (main.at # "idle" ~> main.at = "idle")

\* stop(): the main thread gets through the joins, unless a helper never reads what
\* FlushFileBuffers waits for it to read.  The stop event frees the mutex.
StopReturns == (\E p \in Peers : NeverReads(p)) \/ (phase = "stopping" ~> phase = "off")

\* The same of any helper.  The code does not give it: see KeepsMutex, NeverReads.
TickAlwaysEnds == main.at # "idle" ~> main.at = "idle"
StopAlwaysReturns == phase = "stopping" ~> phase = "off"

-----------------------------------------------------------------------------
\* docs/MCP.md: hooks are stopped when the helper has been disconnected for 30
\* seconds.
HooksRevoked ==
  hooks /\ active_clients = 0 ~> ~hooks \/ active_clients > 0 \/ phase # "running"

\* The grace period, in which a client restart reconnects in time.
GraceKept == [][main.at = "revoke" /\ hooks' # hooks => away]_vars
=============================================================================

---------------------------- MODULE HelperProcess ----------------------------
(***************************************************************************)
(* The helper process: StdioServer::run reads the client's messages on the *)
(* reader thread; RequestDispatcher queues tool calls for one worker       *)
(* thread, which runs them over the PipeClient.  The reader connects the   *)
(* same PipeClient when it lists the tools.                                *)
(*                                                                         *)
(* A message is its kind and the task it names; a tool call may be a batch *)
(* of several requests to the bridge.  Notifications, which answer         *)
(* nothing, are left out: progress, task status, changed tool list.        *)
(***************************************************************************)
EXTENDS Naturals, FiniteSets, SequencesExt

CONSTANTS
  Ids,       \* ids of the client's requests, each used once
  NoId,
  Sends(_),  \* kinds of message the client sends under each id
  MaxQueue,  \* kMaximumQueuedWork, 64 in the code
  MaxTasks,  \* kMaximumTasks, 64 in the code
  MaxBatch,  \* bridge requests of one tool call, 10 in the code
  MaxRetries \* kMaximumAutoRetries, 2 in the code

ASSUME HelperAssumption ==
  /\ IsFiniteSet(Ids) /\ NoId \notin Ids
  /\ MaxQueue \in Nat \ {0} /\ MaxTasks \in Nat \ {0}
  /\ MaxBatch \in Nat \ {0} /\ MaxRetries \in Nat

VARIABLES
  session,  \* JsonRpcSession::state_
  at,       \* where the reader and the worker are
  message,  \* the message the reader handles
  asked,    \* kind of each request received so far
  queue,    \* queue_: ids of the calls that wait for the worker
  flagged,  \* calls whose cancellation is requested
  active,   \* active_requests_
  task,     \* status in tasks_
  order,    \* the tasks as they came: task_order_, and those erased from it
  waiters,  \* result_waiters of each task
  stopping,
  work,     \* the worker's call, bridge requests left, retries made
  out,      \* answers each thread has yet to emit, outside the lock
  pipe, pid, \* PipeClient::pipe_ and whether game_pid_ is set
  line,     \* the connection the worker's request was written to
  heard,    \* the connection the worker reads the response from
  answers,  \* how often each request was answered
  awaits,   \* the task each tasks/result had to wait for
  runs      \* how often the game ran the worker's current bridge request

client == <<pipe, pid, line, heard>>
store == <<queue, flagged, active, task, order, waiters, stopping>>
history == <<answers, awaits, runs>>
vars == <<session, at, message, asked, store, work, out, client, history>>

Threads == {"reader", "worker"}
NoPipe == 0
\* As many handles as one connection in use, one overwritten, one new.
Pipes == 1..3
Kinds == {"call", "task", "result", "cancel", "query", "list", "cancelled"}
Nothing == [kind |-> "none", id |-> NoId, of |-> NoId, calls |-> 0]
NoWork == [id |-> NoId, calls |-> 0, tries |-> 0]

ReaderAt == {"read", "handle", "check", "close", "open", "publish", "listed", "emit", "stop",
             "join", "done"}
WorkerAt == {"idle", "taken", "check", "close", "open", "publish", "ready", "write", "written",
             "reply", "next", "complete", "emit", "gone"}

TypeOK ==
  /\ session \in {"AwaitingInitialize", "AwaitingInitialized", "Operational", "Closed"}
  /\ at \in [Threads -> ReaderAt \cup WorkerAt]
  /\ at["reader"] \in ReaderAt /\ at["worker"] \in WorkerAt
  /\ message \in [kind: Kinds \cup {"none"}, id: Ids \cup {NoId}, of: Ids \cup {NoId},
                  calls: 0..MaxBatch]
  /\ asked \in [Ids -> Kinds \cup {"none"}]
  /\ queue \in Seq(Ids \X (1..MaxBatch)) /\ Len(queue) <= MaxQueue
  /\ flagged \subseteq Ids /\ active \subseteq Ids
  /\ task \in [Ids -> {"none", "working", "completed", "cancelled", "purged"}]
  /\ order \in Seq(Ids)
  /\ waiters \in [Ids -> Seq(Ids)]
  /\ stopping \in BOOLEAN
  /\ work \in [id: Ids \cup {NoId}, calls: 0..MaxBatch, tries: 0..MaxRetries]
  /\ out \in [Threads -> Seq(Ids)]
  /\ pipe \in Pipes \cup {NoPipe} /\ pid \in BOOLEAN /\ {line, heard} \subseteq Pipes \cup {NoPipe}
  /\ answers \in [Ids -> Nat] /\ awaits \in [Ids -> Ids \cup {NoId}] /\ runs \in Nat

Init ==
  /\ session = "AwaitingInitialize"
  /\ at = [t \in Threads |-> IF t = "reader" THEN "read" ELSE "idle"]
  /\ message = Nothing
  /\ asked = [i \in Ids |-> "none"]
  /\ queue = <<>> /\ flagged = {} /\ active = {}
  /\ task = [i \in Ids |-> "none"] /\ order = <<>>
  /\ waiters = [i \in Ids |-> <<>>]
  /\ stopping = FALSE
  /\ work = NoWork
  /\ out = [t \in Threads |-> <<>>]
  /\ pipe = NoPipe /\ pid = FALSE /\ line = NoPipe /\ heard = NoPipe
  /\ answers = [i \in Ids |-> 0] /\ awaits = [i \in Ids |-> NoId] /\ runs = 0

Move(t, from, to) == at[t] = from /\ at' = [at EXCEPT ![t] = to]
ReaderMoves(from, to) == Move("reader", from, to)
WorkerMoves(from, to) == Move("worker", from, to)

-----------------------------------------------------------------------------
(***************************************************************************)
(* Reader thread: a message is decoded and permitted, then handled.        *)
(***************************************************************************)

\* Malformed and premature requests are answered at once and change nothing;
\* an initialize with bad params leaves the session where it is.
Initialize ==
  /\ at["reader"] = "read"
  /\ \/ session = "AwaitingInitialize" /\ session' = "AwaitingInitialized"
     \/ session = "AwaitingInitialized" /\ session' = "Operational"
  /\ UNCHANGED <<at, message, asked, store, work, out, client, history>>

\* Requests carry a new id; notifications/cancelled names an older call.
Receive ==
  \E m \in [kind: Kinds, id: Ids \cup {NoId}, of: Ids \cup {NoId}, calls: 1..MaxBatch] :
    /\ session = "Operational"
    /\ m.kind = "cancelled" <=> m.id = NoId
    /\ m.kind \in {"result", "cancel", "cancelled"} <=> m.of # NoId
    /\ m.kind \in {"call", "task"} \/ m.calls = 1
    /\ m.id # NoId => asked[m.id] = "none" /\ m.kind \in Sends(m.id)
    /\ m.of # NoId => asked[m.of] \in {"call", "task"}
    /\ ReaderMoves("read", IF m.kind = "list" THEN "check" ELSE "handle")
    /\ message' = m
    /\ asked' = [i \in Ids |-> IF i = m.id THEN m.kind ELSE asked[i]]
    /\ UNCHANGED <<session, store, work, out, client, history>>

\* Mutant: a task at work counts as finished.
TerminalAny(i) == task[i] \in {"working", "completed", "cancelled"}

Terminal(i) == task[i] \in {"completed", "cancelled"}

Stored == {i \in Ids : task[i] \in {"working", "completed", "cancelled"}}

\* purge_expired_tasks: finished tasks past their time to live go, and the oldest
\* task if it is finished and the store is full.  More than one need never go for
\* that, as the store takes one task at a time and none when it is full.
Expired == {S \in SUBSET Stored : \A i \in S : Terminal(i)}

Older(i, j) == \E k, l \in DOMAIN order : k < l /\ order[k] = i /\ order[l] = j

Purged(expired) ==
  LET left == Stored \ expired
      oldest == {i \in left : \A j \in left : ~Older(j, i)}
  IN  expired \cup {i \in oldest : Terminal(i) /\ Cardinality(left) >= MaxTasks}

PurgeThen(statuses, purged) ==
  task' = [i \in Ids |-> IF i \in purged THEN "purged" ELSE statuses[i]]

Full(purged) ==
  Len(queue) >= MaxQueue
    \/ (message.kind = "task" /\ Cardinality(Stored \ purged) >= MaxTasks)

Refusal(i) == <<i>>

\* RequestDispatcher::submit.
Submit ==
  /\ message.kind \in {"call", "task"}
  /\ ReaderMoves("handle", "emit")
  /\ \E expired \in Expired :
       LET purged == Purged(expired)
           i == message.id
           full == Full(purged)
       IN \/ /\ full
             /\ PurgeThen(task, purged)
             /\ out' = [out EXCEPT !["reader"] = Refusal(i)]
             /\ UNCHANGED <<queue, active, order>>
          \/ /\ ~full /\ message.kind = "task"
             /\ PurgeThen([task EXCEPT ![i] = "working"], purged)
             /\ order' = Append(order, i)
             /\ queue' = Append(queue, <<i, message.calls>>)
             /\ out' = [out EXCEPT !["reader"] = <<i>>]
             /\ UNCHANGED active
          \/ /\ ~full /\ message.kind = "call"
             /\ PurgeThen(task, purged)
             /\ queue' = Append(queue, <<i, message.calls>>)
             /\ active' = active \cup {i}
             /\ UNCHANGED <<out, order>>
  /\ UNCHANGED <<session, message, asked, flagged, waiters, stopping, work, client,
                 history>>

\* Mutant: whoever waits for a cancelled task is forgotten.
CancelledAnswersNone(t) == <<>>

CancelledAnswers(t) == waiters[t]

\* handle_task_request: tasks/result waits for a task at work; tasks/cancel
\* answers whoever waits; anything else is answered from the store.
TaskRequest ==
  /\ message.kind \in {"result", "cancel", "query"}
  /\ ReaderMoves("handle", "emit")
  /\ \E expired \in Expired :
       LET purged == Purged(expired)
           t == message.of
           working == t # NoId /\ task[t] = "working"
       IN \/ /\ working /\ message.kind = "result"
             /\ waiters' = [waiters EXCEPT ![t] = Append(@, message.id)]
             /\ awaits' = [awaits EXCEPT ![message.id] = t]
             /\ PurgeThen(task, purged)
             /\ UNCHANGED <<flagged, out>>
          \/ /\ working /\ message.kind = "cancel"
             /\ flagged' = flagged \cup {t}
             /\ PurgeThen([task EXCEPT ![t] = "cancelled"], purged)
             /\ waiters' = [waiters EXCEPT ![t] = <<>>]
             /\ out' = [out EXCEPT !["reader"] = <<message.id>> \o CancelledAnswers(t)]
             /\ UNCHANGED awaits
          \/ /\ ~working
             /\ PurgeThen(task, purged)
             /\ out' = [out EXCEPT !["reader"] = <<message.id>>]
             /\ UNCHANGED <<flagged, waiters, awaits>>
  /\ UNCHANGED <<session, message, asked, queue, active, order, stopping, work, client,
                 answers, runs>>

CancelRequest ==
  /\ message.kind = "cancelled"
  /\ ReaderMoves("handle", "read")
  /\ flagged' = flagged \cup (active \cap {message.of})
  /\ message' = Nothing
  /\ UNCHANGED <<session, asked, queue, active, task, order, waiters, stopping, work, out,
                 client, history>>

\* tools/list, once a connection was attempted.
ListTools ==
  /\ ReaderMoves("listed", "emit")
  /\ out' = [out EXCEPT !["reader"] = <<message.id>>]
  /\ UNCHANGED <<session, message, asked, store, work, client, history>>

ReaderDone ==
  /\ out["reader"] = <<>>
  /\ ReaderMoves("emit", "read")
  /\ message' = Nothing
  /\ UNCHANGED <<session, asked, store, work, out, client, history>>

\* The end of the input, or an error reading it.
EndOfInput ==
  /\ ReaderMoves("read", "stop")
  /\ session' = "Closed"
  /\ UNCHANGED <<message, asked, store, work, out, client, history>>

\* RequestDispatcher::stop flags plain calls only and joins the worker.
Stop ==
  /\ ReaderMoves("stop", "join")
  /\ stopping' = TRUE
  /\ flagged' = flagged \cup active
  /\ UNCHANGED <<session, message, asked, queue, active, task, order, waiters, work, out,
                 client, history>>

Joined ==
  /\ at["worker"] = "gone"
  /\ ReaderMoves("join", "done")
  /\ UNCHANGED <<session, message, asked, store, work, out, client, history>>

-----------------------------------------------------------------------------
(***************************************************************************)
(* BoundedStdioTransport::emit, one answer at a time under its mutex.      *)
(***************************************************************************)
Emit(t) ==
  /\ at[t] = "emit" /\ out[t] # <<>>
  /\ answers' = [answers EXCEPT ![Head(out[t])] = @ + 1]
  /\ out' = [out EXCEPT ![t] = Tail(@)]
  /\ UNCHANGED <<session, at, message, asked, store, work, client, awaits, runs>>

-----------------------------------------------------------------------------
(***************************************************************************)
(* PipeClient::connect, under no lock.                                     *)
(***************************************************************************)
Connected(t) == IF t = "reader" THEN "listed" ELSE "ready"
NotConnected(t) == IF t = "reader" THEN "listed" ELSE "next"
ConnectKeeps == <<session, message, asked, store, work, out, line, heard, history>>

EnsureConnected(t) ==
  /\ Move(t, "check", IF pid THEN Connected(t) ELSE "close")
  /\ UNCHANGED <<pipe, pid, ConnectKeeps>>

CloseOld(t) ==
  /\ Move(t, "close", "open")
  /\ pipe' = NoPipe /\ pid' = FALSE
  /\ UNCHANGED ConnectKeeps

\* No bridge, or several: pipe_ is left alone.  CreateFile fails: pipe_ is
\* the invalid handle.
OpenFails(t) ==
  /\ Move(t, "open", NotConnected(t))
  /\ pipe' \in {pipe, NoPipe}
  /\ UNCHANGED <<pid, ConnectKeeps>>

OpenPipe(t) ==
  /\ Move(t, "open", "publish")
  /\ pipe' = CHOOSE p \in Pipes : p \notin {pipe, line}
  /\ UNCHANGED <<pid, ConnectKeeps>>

Publish(t) ==
  /\ Move(t, "publish", Connected(t))
  /\ pid' = TRUE
  /\ UNCHANGED <<pipe, ConnectKeeps>>

Connect(t) ==
  EnsureConnected(t) \/ CloseOld(t) \/ OpenFails(t) \/ OpenPipe(t) \/ Publish(t)

-----------------------------------------------------------------------------
(***************************************************************************)
(* Worker thread.                                                          *)
(***************************************************************************)
WorkerKeeps == <<session, message, asked>>

Take ==
  /\ queue # <<>>
  /\ WorkerMoves("idle", "taken")
  /\ work' = [id |-> Head(queue)[1], calls |-> Head(queue)[2], tries |-> 0]
  /\ queue' = Tail(queue)
  /\ UNCHANGED <<flagged, active, task, order, waiters, stopping, out, client,
                 WorkerKeeps, history>>

\* Mutant: the worker waits until no call is active.
QuitInactive ==
  /\ stopping /\ queue = <<>> /\ active = {}
  /\ WorkerMoves("idle", "gone")
  /\ UNCHANGED <<store, work, out, client, WorkerKeeps, history>>

Quit ==
  /\ stopping /\ queue = <<>>
  /\ WorkerMoves("idle", "gone")
  /\ UNCHANGED <<store, work, out, client, WorkerKeeps, history>>

\* Cancelled before execution: no answer, and a plain call keeps its entry in
\* active_requests_.
Skip ==
  /\ work.id \in flagged
  /\ WorkerMoves("taken", "idle")
  /\ task' = [task EXCEPT ![work.id] = IF @ \in {"none", "purged"} THEN @ ELSE "cancelled"]
  /\ work' = NoWork
  /\ UNCHANGED <<queue, flagged, active, order, waiters, stopping, out, client,
                 WorkerKeeps, history>>

Execute ==
  /\ work.id \notin flagged
  /\ WorkerMoves("taken", "check")
  /\ UNCHANGED <<store, work, out, client, WorkerKeeps, history>>

\* call_single refuses a tool that needs a permission which Explorer Config may
\* give or take at any time; without a connection nothing is refused.
CheckPermission ==
  /\ \/ WorkerMoves("ready", "write")
     \/ pid /\ WorkerMoves("ready", "next")
  /\ UNCHANGED <<store, work, out, client, WorkerKeeps, history>>

ClosePipe == pipe' = NoPipe /\ pid' = FALSE /\ line' = NoPipe /\ heard' = NoPipe

\* A transact on an invalid handle fails without closing.
WriteUnconnected ==
  /\ pipe = NoPipe
  /\ WorkerMoves("write", "next")
  /\ UNCHANGED <<store, work, out, client, WorkerKeeps, history>>

WriteFails ==
  /\ pipe # NoPipe
  /\ WorkerMoves("write", "next")
  /\ ClosePipe
  /\ UNCHANGED <<store, work, out, WorkerKeeps, history>>

Write ==
  /\ pipe # NoPipe
  /\ WorkerMoves("write", "written")
  /\ line' = pipe
  /\ UNCHANGED <<store, work, out, pipe, pid, heard, WorkerKeeps, history>>

\* read_line takes pipe_ as it is now.
StartRead ==
  /\ WorkerMoves("written", "reply")
  /\ heard' = pipe
  /\ UNCHANGED <<store, work, out, pipe, pid, line, WorkerKeeps, history>>

MayHaveRun == runs' = runs + 1 \/ UNCHANGED runs

\* The bridge ran the request, or failed it without a hint.
ReadResult ==
  /\ heard = line
  /\ WorkerMoves("reply", "next")
  /\ MayHaveRun
  /\ line' = NoPipe /\ heard' = NoPipe
  /\ UNCHANGED <<store, work, out, pipe, pid, WorkerKeeps, answers, awaits>>

\* rate_limited and busy carry retry_after_ms and were not run.
ReadRetry ==
  /\ heard = line /\ work.tries < MaxRetries
  /\ WorkerMoves("reply", "write")
  /\ work' = [work EXCEPT !.tries = @ + 1]
  /\ line' = NoPipe /\ heard' = NoPipe
  /\ UNCHANGED <<store, out, pipe, pid, WorkerKeeps, history>>

\* Mutant: the request is sent again over a new connection.
ReadFailsRetried ==
  /\ WorkerMoves("reply", "check")
  /\ MayHaveRun
  /\ ClosePipe
  /\ UNCHANGED <<store, work, out, WorkerKeeps, answers, awaits>>

\* The connection that is read breaks, or the handle is invalid; what was
\* asked may have been run.
ReadFails ==
  /\ WorkerMoves("reply", "next")
  /\ MayHaveRun
  /\ ClosePipe
  /\ UNCHANGED <<store, work, out, WorkerKeeps, answers, awaits>>

ReadInvalid == heard = NoPipe /\ ReadFails

\* call_batch goes on with the next entry, whatever became of this one, until
\* its results are too large.
NextCall ==
  /\ \/ work.calls > 1 /\ WorkerMoves("next", "check")
     \/ WorkerMoves("next", "complete")
  /\ work' = [work EXCEPT !.calls = @ - 1, !.tries = 0]
  /\ runs' = 0
  /\ UNCHANGED <<store, out, client, WorkerKeeps, answers, awaits>>

\* Mutant: the call itself gets the result too.
TaskAnswersAll(i) == <<i>> \o waiters[i]

TaskAnswers(i) == waiters[i]

CompleteTask ==
  /\ WorkerMoves("complete", "emit")
  /\ asked[work.id] = "task"
  /\ IF task[work.id] = "working"
     THEN /\ task' = [task EXCEPT ![work.id] = "completed"]
          /\ out' = [out EXCEPT !["worker"] = TaskAnswers(work.id)]
          /\ waiters' = [waiters EXCEPT ![work.id] = <<>>]
     ELSE UNCHANGED <<task, out, waiters>>
  /\ UNCHANGED <<queue, flagged, active, order, stopping, work, client, WorkerKeeps, history>>

CompleteCall ==
  /\ WorkerMoves("complete", "emit")
  /\ asked[work.id] = "call"
  /\ active' = active \ {work.id}
  /\ out' = [out EXCEPT !["worker"] = IF work.id \in flagged THEN <<>> ELSE <<work.id>>]
  /\ UNCHANGED <<queue, flagged, task, order, waiters, stopping, work, client, WorkerKeeps,
                 history>>

WorkerDone ==
  /\ out["worker"] = <<>>
  /\ WorkerMoves("emit", "idle")
  /\ work' = NoWork
  /\ UNCHANGED <<store, out, client, WorkerKeeps, history>>
-----------------------------------------------------------------------------
Reader ==
  \/ Submit \/ TaskRequest \/ CancelRequest \/ ListTools \/ ReaderDone
  \/ Stop \/ Joined \/ Emit("reader") \/ Connect("reader")

Transact ==
  \/ WriteUnconnected \/ WriteFails \/ Write \/ StartRead
  \/ ReadResult \/ ReadRetry \/ ReadInvalid

Worker ==
  \/ Take \/ Quit \/ Skip \/ Execute \/ CheckPermission \/ Transact \/ NextCall
  \/ CompleteTask \/ CompleteCall \/ WorkerDone \/ Emit("worker") \/ Connect("worker")

Next ==
  \/ Initialize \/ Receive \/ EndOfInput
  \/ Reader \/ Worker \/ ReadFails

\* Both threads run.  The bridge answers what reaches it within its time-outs,
\* so a read of the connection that was asked ends.
Spec == Init /\ [][Next]_vars /\ WF_vars(Reader) /\ WF_vars(Worker)

-----------------------------------------------------------------------------
Queued(i) == \E k \in 1..Len(queue) : queue[k][1] = i

\* Calls with a plain answer to come: in the reader's hands, queued, in the
\* worker's hands, or with the result on its way out.
InHand(i) ==
  \/ message.id = i /\ at["reader"] \in {"handle", "check", "close", "open", "publish", "listed"}
  \/ Queued(i)
  \/ work.id = i /\ at["worker"] # "emit"
  \/ \E t \in Threads : Contains(out[t], i)

\* Whoever waits for a task waits for one the worker has or will have: tasks
\* are never purged, skipped or completed under their waiters.
WaitersServed ==
  \A t \in Ids : waiters[t] # <<>> =>
    /\ task[t] = "working"
    /\ Queued(t) \/ (work.id = t /\ at["worker"] \notin {"idle", "emit"})

\* Retries never make the game run a bridge request twice, be it a write or an
\* invocation.
RunsOnce == runs <= 1

\* The reader wrote over the connection the worker had asked on, so that the
\* worker reads one on which nobody will answer.
CrossWired == at["worker"] = "reply" /\ heard \notin {line, NoPipe}

\* Every request is answered, unless it is a cancelled call, or the two
\* threads connected at once and the worker waits on the wrong connection.
Ended(i) == answers[i] > 0 \/ (asked[i] = "call" /\ i \in flagged)

EveryRequestEnds == \A i \in Ids : asked[i] # "none" ~> Ended(i) \/ CrossWired

\* The same without the exception for two threads that connect at once.
RequestsAlwaysEnd == \A i \in Ids : asked[i] # "none" ~> Ended(i)

\* The end of the input ends the process, with every queued task run.
StopEnds == stopping ~> (at["reader"] = "done" /\ queue = <<>>) \/ CrossWired

\* The helper's state as RequestService has it.
Progress == [i \in Ids |->
  CASE asked[i] = "none" -> "new"
    [] asked[i] # "none" /\ answers[i] = 1 -> "answered"
    [] asked[i] # "none" /\ answers[i] > 1 -> "answered twice"
    [] asked[i] = "call" /\ answers[i] = 0 /\ ~InHand(i) -> "withdrawn"
    [] OTHER -> "open"]
Finished == {i \in Ids : task[i] \in {"completed", "cancelled", "purged"}}
Dropped == {i \in flagged : asked[i] = "call"}

Service == INSTANCE RequestService WITH
  status <- Progress, awaited <- awaits, over <- Finished, dropped <- Dropped

\* The helper implements RequestService: above all no request is answered twice,
\* whichever threads answer it, although the reader that cancels a task and the
\* worker that completes it compete for its waiters.
ImplementsService == Service!Spec
=============================================================================

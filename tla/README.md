# Unity Runtime Explorer: a TLA+ model

Unity Runtime Explorer is a mod that runs inside a Unity game. It lets a person
browse scenes and objects, trace and hook managed methods, and it offers the same
to an AI client over the Model Context Protocol (MCP). This directory models the
parts in which several threads, processes or owners meet, checks them with TLC and
proves the central ones with TLAPS. All paths below are relative to the repository
root; `PROJECT.json` writes the same paths with `src/` in front.

- [1. The system](#1-the-system)
- [2. The modules](#2-the-modules)
- [3. What TLC checks](#3-what-tlc-checks)
- [4. What is proved](#4-what-is-proved)
- [5. What the models say about the code](#5-what-the-models-say-about-the-code)
- [6. What is not modelled](#6-what-is-not-modelled)
- [7. What could come next](#7-what-could-come-next)

## 1. The system

### Threads and processes

| who | runs | shares with |
|---|---|---|
| Unity main thread | `ModRuntime::update`: `RuntimeModel::tick`, `Bridge::tick`, all managed calls; usually also the game's window procedure | everything below |
| render thread | the hooked `Present`: ImGui and the windows of the Explorer | main thread: a command queue, published snapshots, the input events |
| window thread | `wndproc()` on the messages of the game's window | render thread: who owns which key, the event queue |
| any game thread | a traced method, hence the entry callback, the stub and the site callbacks | `MethodTracer`: the flight word and the record ring, without a lock |
| bridge listener and client threads | named-pipe I/O, request limits, waiting for answers | main thread: the request queue, atomics |
| helper process, reader and worker | MCP over stdio, the pipe to the bridge | bridge: the pipe; each other: `PipeClient` |

### Components

| component | state it keeps | operations | what makes it correct |
|---|---|---|---|
| `MethodTracer` sessions (`mod/explorer/method_tracer.cpp`) | up to 12 hook sessions: hooks, stub, `active`, `detach_pending`, and a 64-bit flight word (accepting bit and count) | `start`, `stop`, `clear`, `capture_returns`, `close`, `snapshots` (which retries detaches), `stop_all`, `shutdown` | no hook is removed and no stub freed under a call that is inside; the flight count is exact; an active trace records; a stopped one can be reclaimed; no operation waits for ever for the game |
| `MethodTracer` record ring (same file) | 1024 records, a sequence counter | `trace_record_entry`, `trace_record_return_from_stub`, `copy_snapshot`, `reset_records` | a record shown is the record of one call of this session; no holes |
| MCP bridge (`mod/mcp/mcp_bridge.cpp`) | clients (4), pending requests (64), the revocation flag and the time of the last disconnect | `start`, `stop`, `tick`, the listener, one thread per client | every request ends; a request that nobody gave up on has its thread waiting; counters are exact; `stop` leaves nothing behind; hooks left by a departed helper are removed |
| helper: dispatcher, stdio server, pipe client (`mcp/server/`) | work queue (64), tasks (64) with waiters, active requests, a pipe handle | read, submit, cancel, task calls, worker, connect, transact, stop | each request gets one answer; waiters are served; nothing runs twice; the end of input ends the process |
| `RuntimeModel` (`mod/explorer/explorer_model.cpp` and `model_*.cpp`) | selection, camera focus, hierarchy, census, command queue, published snapshot | `tick`, the commands, publish, fault recovery | commands keep their order; nothing acts on objects of a scene that is gone; the tree catches up with the scene |
| `RuntimeTools` (`mod/mcp/`) | reference store (bounded), write journal, ids of trace sessions armed over MCP | one handler for each tool, on the main thread | references of an earlier scene are refused; undo goes back; what MCP armed can be revoked |
| value watches (`mod/explorer/model_field_watch.cpp`) | watches with a hidden trace session, a pin and retained values | set, sample, stop, close, clear, release | hook, pin and handles are given back on every way out |
| render and input hooks (`mod/hooks/render_imgui_hook.cpp`) | five hooks, frame count, ImGui's mutex; owner of each key and button, requests for routing and cursor, event queue | `install`, `uninstall`, the detours, `wndproc`, the poll and the frame | what an installation leaves attached works; no frame inside a teardown; the game gets the release of every press it got |
| previews, highlight, picking | textures, audio clips | load, release, pick | resources are released on the right thread |
| inline sites, x86 decoder, trace formatting | none | decode, format, export | pure analysis |
| protocol, catalogue, schemas (`mcp/core/`) | none | validation, compaction | pure |
| mod lifecycle (`mod/generated/`, `mod/lifecycle/`) | which parts are initialised | initialise with rollback, shutdown | nothing runs after it is torn down |
| Explorer user interface | widgets | draw | sends commands, reads snapshots |
| settings, labels, writers | files | load, save, encode | pure I/O |
| URKit SDK (`sdk/`) | none | hook and reflection interfaces | external |

### How they interact

A person's click becomes a command in `RuntimeModel`'s queue; a tool call of an
MCP client goes helper reader, dispatcher, worker, pipe, bridge client thread,
request queue, `Bridge::tick`, `RuntimeTools`, and often ends as a command that
`RuntimeModel` processes at once. Both end on the Unity main thread, and both may
start a trace. From then on any game thread that calls the traced method runs code
of `MethodTracer`. The main thread reads what they record in
`MethodTracer::snapshots`, which `RuntimeModel::publish` calls, and which is also
the only place that retries a detach that timed out. The windows are drawn inside
the game's own `Present`, and the keys that work them are taken from the game's own
window procedure.

### What is hard

- Removing native code while threads are inside it (50 ms drain, retry, give up);
  the same for the overlay's hooks and the frames inside them.
- A ring with several writers, a reader and no lock.
- Three atomics that say together when a departed helper's hooks are revoked.
- Blocking pipe writes and `FlushFileBuffers` while the main thread joins.
- Time-outs that race with the execution they give up on; cancellations that race
  with completions.
- A scene that changes while a census over several frames reads it and while
  commands drawn from the old one are queued.
- Native faults that leave a function in the middle (`HookSeh` handlers) and the
  recovery that throws managed state away in the next tick.
- Handles, hooks and sessions with several owners: the person, the MCP client and
  the value watches.
- A key that is pressed under one owner and released under another.

`PROJECT.json` lists each of these hazards at its line, with the properties that
cover it.

## 2. The modules

| module | models | instance for TLC | proofs |
|---|---|---|---|
| `MethodTracer` | sessions, flight word, hooks, stubs, calls, control operations | `MCMethodTracer` | `MethodTracerProofs` |
| `TraceRing` | the record ring of one session | `MCTraceRing` | `TraceRingProofs` |
| `McpBridge` | listener, client threads, queue, `tick`, `start`, `stop` | `MCMcpBridge` | `McpBridgeProofs` |
| `RequestService` | abstract: what the helper promises its client | | |
| `HelperProcess` | the helper's reader, dispatcher, worker and pipe client; implements `RequestService` | `MCHelperProcess` | `HelperProcessProofs` |
| `RuntimeModel` | the explorer's tick: commands, census, recovery, selection | `MCRuntimeModel` | `RuntimeModelProofs` |
| `RuntimeTables` | trace sessions and retained handles as the main thread sees them | | |
| `FieldWatch` | value watches, on `RuntimeTables` | | |
| `RuntimeTools` | the MCP tools that keep state, on `RuntimeTables` | | |
| `ExplorerTools` | `FieldWatch` and `RuntimeTools` together with the person, the game and the collector | `MCExplorerTools` | `ExplorerToolsProofs` |
| `InputRouting` | who gets keys and buttons, routing and cursor requests, event queue | | |
| `RenderHook` | the overlay's five hooks, their installation, the frames, the uninstallation | | `RenderHookProofs` |
| `Overlay` | `InputRouting` inside the frames of `RenderHook` | `MCOverlay` | `OverlayProofs` |

`PROJECT.json` maps every definition to the lines it stands for. The definitions
introduced by a comment that begins with "Mutant:" are plausible bugs in the
definition that follows; no behaviour of the specifications takes them. Each
property is violated when one of them takes the place of the code's action.

### MethodTracer

- `session[m]` is the `HookSession` of method `m` with the members that decide
  control: `captures_return`, `instance_filter`, `visible`, `active`,
  `detach_pending`, and whether it owns a stub, an entry hook, inlined sites and a
  site hook. `open` is membership in `g_state.sessions`.
- `flight[m]` is the word `flight_state`: `accepting` is its top bit, `count` the
  other 63, and `LeaveFlight` is `fetch_sub(1)` on the whole word, borrow included.
- `patch[m]` is the loader's side: how many branches it keeps at the entry, of
  either kind, and at the site. It is external code; a request to add or remove
  one may be refused, which the code handles.
- `call[c]` is one activation of a traced method. In `entered`, `writing` and
  `body` it is counted; in `prologue`, `tail` and `epilogue` it runs detour code
  before or after the gate.
- `ctl` is the operation that holds `control_mutex`, and its step. Operations
  exclude each other but not the calls: there is one step for each atomic access
  or loader call whose order matters. `stop` is `Stop`, `CloseGate`, `Drained` or
  `DrainTimeout`, `Detach`, `Release`; the other operations share these steps,
  as they share `deactivate()` in the code.
- `phase` follows `shutdown()`: `stop_all`, then retries for two seconds, then
  everything freed (`down`) or everything kept (`deferred`).
- When memory is freed under a call that is not counted, the call becomes `lost`:
  what it does next is undefined in the code and nothing is assumed about it.

Each action is a whole atomic section of the code. `ResetRecords` only moves on:
what it does to the records is the subject of `TraceRing`.

Two specifications differ in one guard. `Spec` is what the code admits;
`PatientSpec` adds that a caller restarts a trace only when it has no detach
pending. `start()` does not check this; section 5 shows what follows.

### TraceRing

One session's ring. The fields of a `RingRecord` are represented by two entry
fields and one return field, each holding the mark (session and sequence) of the
call that stored it; a record mixed from two calls is one with two marks. Stores
and loads take effect in program order, which x64 gives and the only platform
this builds for has. `mixed` and `faulted` are history variables: sequences whose
slot two calls were writing at the same time, and sequences whose call faulted.
They occur only in conditions of the properties. `Reset` requires no call in the
detour: that is `ResetQuiescent` of `MethodTracer`.

### McpBridge

- `Peers` are helpers, external: each connects, sends, reads, hangs up and comes
  back whenever it likes. `open` and `unread` are the state of its pipe.
- `client[p]` is the step of the thread that serves `p` (`run_client`,
  `serve_client`); `listener` that of `listener_main`; `main` that of `tick()`;
  `phase` that of `start()` and `stop()`.
- `pending` is the request queue with the `cancelled` flag of each entry. `ready`
  says whose promise is set. A `Fault` in a request leaves it unset for ever, as
  `ModRuntime::update` catches the fault outside `tick()`.
- `lock` holds the client thread that writes `bridge_busy` while it holds
  `g_state.mutex`; other uses of the mutex are one atomic step.
- `away` says whether the 30 s of `kRevokeGraceMs` have passed since the last
  `disconnected_at_ms`; `hooks`, whether requests left trace hooks installed.
- Writing an answer and reading it are separate: `Written` puts bytes into the
  pipe, which may block when the peer does not read; `Flush` waits for the reader.

### HelperProcess and RequestService

`at["reader"]` and `at["worker"]` are the places of the two threads: a step is one
critical section of `RequestDispatcher::mutex_`, one answer emitted outside it, or
one call on the pipe. The client sends each id once; what it sends (a call, a call
as a task, `tasks/result`, `tasks/cancel`, `tasks/get` or list, `tools/list`, a
cancellation) decides the handler. `queue`, `flagged`, `active`, `task`, `order`
and `waiters` are the dispatcher's members; `order` keeps the tasks as they came, and a
purge takes expired ones and, when the store is full, the oldest that is left if it is
over. A tool call is up to `MaxBatch` bridge
requests; each is written to the pipe, whose answer may fail before or after the
game ran it, and retried up to `MaxRetries` times where the code retries.

`PipeClient` has no lock, and both threads use it: `pipe` is its one handle, `line`
the connection the worker wrote its request to and `heard` the one it reads from.
`CrossWired` says that they differ, which is the race of finding `helper_connect`.

`RequestService` is the promise to the client: a request is answered at most once,
only a cancelled plain call may stay unanswered, and `tasks/result` is answered
only when its task is over. `Service` in `HelperProcess` maps the number of answers
of each id to its status; two answers map to a status the service never has.

### RuntimeModel

- A frame is the steps `tick`, `commands` (one for each command), `rest` and
  `read`; the game acts before it (`game`) and after it (`late`). The render
  thread queues commands between any two steps (`Give`), drawn from `shown`, the
  snapshot it took last.
- `commands` is `commands_`; `pending` is what `process_commands` swapped out. A
  native fault puts the rest of `pending` back in front and sets `native_faulted_`;
  the next tick runs `discard_managed_state_after_native_fault`. `Kept` and `Without`
  are `std::erase_if` on a queue: the commands at some places, or not of some kinds, in
  their order.
- A command carries the generation and the revision it was drawn from; the guards
  of `process_command` expire it, ask for a retry or run it.
- `census` is the rebuild of the tree in slices of `MinSlice` objects; `refresh`,
  `eventPending` and `settled` are the debounce of `refresh_requested_`.
- `life` says what the game made of each object: it dooms objects, with a callback
  or without, and they die at the end of the frame.
- `late` in a census and in a tree is a history flag: a refresh was asked for, or
  came due, while that census was already under way and was absorbed by it.

### RuntimeTables, FieldWatch, RuntimeTools, ExplorerTools

These run on one thread; what interleaves is whole calls, between which the scene
changes, the collector runs and faults are recovered.

- `sessions` is `MethodTracer` seen through its control interface. A detach that
  comes late, which is a matter of calls in `MethodTracer`, is a choice here.
- `handles` is the part of `reference_handles_` with scope `0xb`, the only tokens
  that survive a selection change, and therefore the ones that can leak.
- `watch[o]` is a value watch: its hidden session, its pin and the tokens of the
  values it retained. `WatchLost`, `WatchBaseline`, `WatchSame` and `WatchChange` are
  the outcomes of one pass of `refresh_field_watches`.
- `answer` is what the last call came to and three generations: that of the reference it
  went through, of the published tree and of the scene. A call that becomes a command is
  `applied` or refused by `process_command`; a call that goes to a component itself
  (read, write, invoke, remove, enable) has `reached` it once `find_reference` has found
  the reference.
- `references` is the store of `RuntimeTools` in the order in which entries are
  evicted, each with the generation and revision it was issued in. `Issue` adds the
  entries of one call, of which `list_method_traces` has several, and evicts from the
  front what no longer fits, with its handle. `journal` and `replaying` serve
  `undo_write`; `mcpTraces` is `mcp_method_trace_ids_`.
- `ExplorerTools` adds the Traces panel and Class Browser (`PanelStart`, ...),
  scene changes, censuses, selection, recovery, the collector, the inspection of an
  address (`InspectRaw`) and `ModRuntime::stop()` (`Stop`), after which nothing runs.
  `armedBy`, who started a session last, `answer`, and `stranded`, the tokens whose owner
  forgot them, are history variables of the properties.

### InputRouting, RenderHook, Overlay

- `hw` is what the player holds down; `msgs` the hardware's window messages,
  `posted` the messages the overlay posts to itself (a `PostMessage` that finds no room
  fails, and the render thread goes on); `game` the inputs the game
  believes held, external but for what `wndproc()` passes on.
- `gameOwned`, `menuReleased` and `menuOwned` are the code's maps of who owns a
  press (`g_game_keyboard`, `g_menu_released_*`, `g_wndproc_mouse_down`).
  `wndproc()` is one step, except for a button, which reads and writes
  `g_wndproc_mouse_down` in two: the render thread's poll writes it too.
- `input` and `cursor` are the requested and applied states of
  `request_window_input_state` and its twin, with `aged` for the 500 ms after
  which they are repeated.
- `install()` is one step per attempt: which hooks the probes offer and which the
  loader refuses, to attach or to detach again, is chosen. `flags` is what the code
  believes to be attached, `attached` what is, and `kept` what the loader did not give up
  in an unwinding, which clears the flag whatever came of the detach. `uninstall()` is a step
  per hook, then a wait for frames with a time limit, then the teardown.
- A frame is `RenderFrameGuard`'s look, increment and second look, the lock, the
  work and the way out. `ResizeBuffers` takes the mutex without being counted.
- `Overlay` puts the render thread's half of `InputRouting` (toggle, poll, drain,
  publish) between `Ready` and `Unlock` of a frame of `RenderHook`, ImGui's start
  with `wndproc()`'s installation, and `shutdown_imgui()` in the teardown.

### How the modules compose

`ExplorerTools` and `Overlay` are compositions: their actions are those of the
modules they extend, conjoined with what the others leave unchanged or do at the
same step. `TraceRing` takes over from `MethodTracer` where a call is `writing` or
`body` and at `reset`; what it assumes, that a reset meets no writer, is an
invariant checked and proved there. `RuntimeTables` is `MethodTracer` as its
callers see it. `McpBridge` treats the tracer as `hooks` and the helper as a peer,
`HelperProcess` treats the bridge as a connection that may fail; the request that
is in both is executed by `RuntimeTools`.

## 3. What TLC checks

The states are the distinct states of an exhaustive search of the instance.

| run | instance | what it shows |
|---|---|---|
| `tracer_sessions` | 2 methods, one too short for an entry hook; 2 calls; 2 sessions; 834,000 states | nothing is detached or freed under a counted call, the count is exact, resets are quiescent, every session ends armed or reclaimable; `control_mutex` is always given back and `shutdown()` ends although calls may stay inside |
| `tracer_restart` | 1 method | a violation, see section 5 |
| `trace_ring` | 3 threads, 2 slots, 3 calls, 1 reset; 1,904,710 states | which records a snapshot can trust: whole, with their own return value, without holes |
| `bridge` | 2 helpers for one place, a queue of 1, 1 request a frame; 166,848 states | the client count is exact, a request nobody gave up on has its waiter, `stop()` leaves nothing; every request and every tick ends and `stop()` returns, but for a helper that never again reads what it was sent |
| `bridge_revocation` | 1 helper | a violation, see section 5 |
| `helper` | 3 ids with nine kinds of message between them, 1 task, a queue of 1, batches of 2, 1 retry; 102,000 states | waiters are served, a bridge request runs once, every request and the process end, `RequestService` is implemented |
| `helper_connect` | 2 ids | a violation, see section 5 |
| `runtime_model` | a root, its child, an object of the second scene; census slices of 1 object; any 2 of nine kinds of command; 1 fault, 2 scenes; 4.6 million states | the camera stays on the selection, commands keep their order over a fault, what expired stays dropped, the tree at rest is the scene |
| `runtime_progress` | the same objects, 1 command; 381,000 states | the tree reaches the present scene, a dead selection leaves |
| `explorer_tools` | 1 object, 1 method, 5 tokens, 1 session slot, a store, a journal and a history of 2; 2 scenes; 414,004 states | handles have one owner, but for two named ways out; hidden hooks have a pinned object, MCP's traces can be revoked, undo goes back, commands act in the scene of their reference and component accesses in that of the published tree |
| `overlay` | toggle key, another key, a button; 3 inputs, an event queue of 2, 3 posted messages, 1 presenting thread, 2 attempts, 1 device loss; 1,096,155 states | the game gets its releases, what an installation leaves attached works, a teardown meets no frame |
| `overlay_progress` | toggle key only, cursor control offered, 4 posted messages; 139,891 states | routing and cursor settle, `uninstall()` returns |

### Bounds

- *Tracer.* Two calls are the least for which one is inside while another enters.
  Two methods give one with an entry hook and one whose entry is too short, so
  that both paths of `attach_session` interleave. `MaxPatches` 2 lets a hook be
  added over one that was left. `CountMask` 2 can hold every call.
- *Ring.* Two slots and three calls make the ring wrap. Three threads let two
  write one slot while a third is a whole ring behind. One reset is enough for a
  record of the previous session to be mistaken for one of this session.
- *Bridge.* Two helpers for one place make a refusal happen while one is served,
  and a helper leave and come back while its old thread is still going.
  `FrameBudget` 1 makes frames end with requests left. The theorems of section 4
  cover every number of helpers, places and requests.
- *Helper.* `EachSends` gives each id the messages that make a case of its own: a
  call or a task; a second task, a waiter for the first or a list of the tools;
  and a request about a task. A queue of one makes it full; batches of two make
  a call end in the middle; one retry is what tells "sent again" from "run again".
- *Model.* Two objects in one scene make a census of slices of one object take
  several frames, with a change in the middle. Two commands are the least that
  can be reordered; `MaxQueue` 2 bounds those that wait, callbacks included.
- *Explorer tools.* One object and one method are enough for every conflict over
  them, since sessions are per method and watches per object; one slot makes
  sessions compete. A store of two overflows with the next reference. `OneSide`
  explores the hooks and watches while the scene and the journal are at rest, and
  the other way round: the two sides share only references and handles. Beside busy
  hooks the store holds no game object, and two references only while MCP has armed no
  trace. One handle is stranded by an inspected address, or all of the stored
  references' by `Stop`.
- *Overlay.* Three inputs are a press, a toggle and a release in some order;
  `ReleasesReachTheGame` covers any number. An event queue of two overflows while a poll
  is under way. `Ownership` and `Requests` explore the use of the input with hooks that
  went in without trouble (`HooksPlain`: DirectX 12, the API with the most hooks), and
  every trouble of the hooks with an idle player (`InputIdle`): the two share only
  whether `wndproc()` is installed and `g_shutting_down`, and `HooksAlone` proves that
  the input decides nothing about the hooks. In `overlay` requests arrive in time
  (`Prompt`), as it is about who owns a press, after a device loss only one input
  happens, and an idle player's first requests stay unanswered (`Unanswered`).
- *Overlay's requests.* `overlay_progress` toggles the menu up to three times
  (`TogglesOnly`); requests of one kind at a time are refused, fail or come late. Four
  posted messages are what lets a request be overtaken by its opposite and that one by
  the next, be repeated after 500 ms while the first copy still waits, and be left over
  when ImGui starts again after a device loss: states with the queues (open, closed,
  open), (open, open) and four messages are among those searched. A fifth is not sent,
  which is `PostMessage` failing. `OneOffer` leaves one target of each API to find.

`CHECK_DEADLOCK FALSE` is set because each system may rightly stop: the tracer
after `shutdown()` when the loader keeps no hook, the ring when its `MaxCalls` are
used up, the bridge when it is off and a listener failed, the helper at the end of
input, the others when their bounds are used up.

### Fairness

*Tracer* (`ControlFairness`): the thread that holds `control_mutex` runs, and the
two-second deadline of `shutdown()` passes even though each poll may start a new
attempt to detach. The loader, the calls and the callers get none: a call may stay
in a traced method for ever, and a detach may be refused for ever.

*Bridge* (`ThreadFairness`): threads run and deadlines pass. A `std::mutex` is not
fair, but its holders release it without waiting for anything but the pipe; strong
fairness of `Enqueue`, `Pop` and `FailFirst` says that a thread waiting for it
gets it if it is released again and again. Nothing is assumed of the helpers in
`bridge` (`FairSpec`): what one that never again reads can hold up is named in the
properties. `NeverReads(p)`: its own requests, and `stop()`, which joins its thread.
`KeepsMutex`: it does so while its thread writes the busy answer under `g_state.mutex`,
and holds up everybody's requests and the ticks, until the stop event ends the write.
Section 5 has the unconditional properties, which the code does not give.
`bridge_revocation` alone assumes `PeerFairness`, that helpers read what they are sent,
so that its counterexample owes nothing to one that does not.

*Helper*: both threads run; a read from the connection that was asked ends, because
the bridge answers within its time-outs (`RequestEnds` of `McpBridge`).

*Model*: the main thread goes through its frames, and a debounce whose time is up
again and again is seen by a tick (`SF(Settles)`): a game that destroyed something
in every frame for ever would postpone the census for ever, as the code does.

*Overlay*: threads run, time passes, a mutex that is free again and again is had in
the end, the game goes on presenting through the API the menu is drawn with, and
what is refused again and again (a posted request, a draw target) is granted in
the end.

### Refinement

`ImplementsService`: `HelperProcess` implements `RequestService` under the mapping
of section 2, checked by TLC and proved. `HooksAlone`: `Overlay` implements `HookSpec`, the
specification of `RenderHook` alone, proved; the theorems about `RenderHook` are
carried over to the overlay by it.

## 4. What is proved

All proofs are checked by TLAPS, with no step left open.

### MethodTracerProofs

For every set of methods, any finite set of calls, and any positive `MaxSessions`,
`CountMask` and `MaxPatches` (`MethodsAssumption`, `CallsAssumption`,
`BoundsAssumption`):

| theorem | statement |
|---|---|
| `TypeCorrect` | `Spec => []TypeOK`: even a restart over a pending detach keeps the count within its mask |
| `CountsExactly` | `PatientSpec => []FlightCountExact` |
| `StubsOutliveCalls` | `PatientSpec => []StubOutlivesCall` |
| `ActiveTracesAreArmed` | `PatientSpec => []ActiveIsArmed` |
| `ResetsAreQuiescent` | `PatientSpec => []ResetQuiescent` |
| `StoppedTracesAreReclaimable` | `PatientSpec => []StoppedIsReclaimable` |
| `HooksOutliveCalls` | `PatientSpec => HookOutlivesCall` |

None of the invariants is inductive. `HookOutlivesCall`, for instance, needs that
when `Detach` runs the gate is closed *and* the count was zero *and* still is,
which needs that a closed gate admits nobody, that the count is exact, and that
only the operation in progress reopens the gate. The invariant `IInv` says this
for one method at a time: the count of each gate is the number of calls between
enter and leave; what a session's members are, by whether it is the one `ctl` works
on and at which step; what `ctl` may be at each step (`CtlInv`); what the sessions
are in each phase of a shutdown (`PhaseInv`). There is one lemma for each action,
over three shared ones: steps of calls change only the gate of their own method
(`CallGates`), freeing memory loses only uncounted calls (`OnlyUncountedLost`), and
a control step leaves other methods alone (`ControlFrame`).

The theorems other than `TypeCorrect` are about `PatientSpec`: their assumption on
callers is real, and `tracer_restart` shows that without it they are false.

### McpBridgeProofs

For any finite set of helpers and any `MaxClients`, `MaxPending`, `FrameBudget`, all of
`Spec`, without fairness:

| theorem | statement |
|---|---|
| `TypeCorrect` | `Spec => []TypeOK` |
| `CountsClients` | `Spec => []ActiveCountExact` |
| `RequestsHaveWaiters` | `Spec => []RequestHasWaiter` |
| `StopsClean` | `Spec => []StoppedIsClean` |

The invariant `Inv` is a conjunction of parts that are kept in this order: `Shape`
(types and where each thread can be), `ListenerInv` (the connection in the
listener's hands has no thread yet), `CountInv` (the counter is the cardinality of
the serving threads), `LockInv` (only a thread that writes the busy answer holds the
mutex), `PhaseInv` (what each phase of `stop()` has already taken down) and
`WaitInv`: each request that its thread has not given up on is in one place, the queue
or the main thread's hands, and the thread of its helper waits for it without an
answer. `WaitInv` is what a time-out, a pop, a fault and `fail_queued_requests` must
each keep. A request given up on between the check of `cancelled` and its execution is
executed for nobody; that is `ExecutedHasWaiter` of section 5.

### RenderHookProofs and OverlayProofs

For any finite set of presenting threads and any number of attempts and losses:

| theorem | statement |
|---|---|
| `InstallsWhole` | `HookSpec => []InstallWhole`: whatever the loader refuses, an installation that ended left a set of hooks that works, or none, apart from what the loader did not give up in an unwinding |
| `FramesCounted` | `HookSpec => []FramesExact` |
| `TearsDownUnblocked` | `HookSpec => []TeardownUnblocked` |
| `HookTypes` | `HookSpec => []HookTypeOK` |
| `HooksAlone` | `Spec => HookSpec`: the overlay implements its hooks |
| `OverlayInstallsWhole`, `OverlayTearsDownUnblocked` | the same two properties of the overlay, by `HooksAlone` |
| `ReleasesReachTheGame` | `Spec => []GameReleased`, for any keys, buttons and queue lengths |

`InstallWhole` is about what is attached, not about the flags by which the code goes on.
It rests on `Stages`, what is attached after each stage of an attempt, and on
`FlagsTrue`: the flags are all that is attached but `kept`, on either side of an
unwinding.
`TeardownUnblocked` rests on `FrameInv`: the count is the number of frames between
the increment and the destructor, the mutex has the owner its threads say, and once
`g_shutting_down` is set and the count was seen zero, nobody can come to be counted
without leaving at the second look. `ReleasesReachTheGame` rests on `OwnInv`: each
input the game believes held is in `gameOwned`, or its release is on the way, or
the game loses the focus first; it is kept by every handler of `wndproc()` and is
untouched by the render thread, although both write `menuOwned`.

### TraceRingProofs

For any set of calls, any positive `Size` and any `MaxCalls` and `MaxResets`
(`SizeAssumption`, `BoundsAssumption`), all of `Spec`:

| theorem | statement |
|---|---|
| `LiveRecordsOwned` | `Spec => []RingInv` |
| `EntriesAreWhole` | `Spec => []EntryWhole` |
| `ReturnsAreOfOwnCalls` | `Spec => []ReturnOfOwnCall` |
| `RingIsDense` | `Spec => []RingDense` |

A sequence is *live* while no later one has been claimed for its slot. `RingInv` says
of each live sequence whose slot no two calls wrote at once who may write its record
(`Alone`: the call that claimed it), how far that call has come (`Progress`), and what
the record shows at each of its steps (`Shows`, `Whole`); `Copied` carries this through
the snapshot, which reads the published sequence before and after the fields. The lemmas
at the top are about remainders: two sequences share a slot exactly when they differ by
a multiple of the ring's size, so that of the last `Size` sequences no two do.

### HelperProcessProofs

For any finite set of ids, any kinds of messages, and any positive `MaxQueue`,
`MaxTasks`, `MaxBatch` and any `MaxRetries` (`HelperAssumption`), all of `Spec`, without
fairness:

| theorem | statement |
|---|---|
| `AnswersHavePlaces` | `Spec => []HelperInv` |
| `WaitersAreServed` | `Spec => []WaitersServed` |
| `RunAtMostOnce` | `Spec => []RunsOnce` |
| `ServiceImplemented` | `Spec => ImplementsService` |

`HelperInv` is a bookkeeping of answers. An answer that was not given yet has one place
to come from: the reader that handles its request (`Fresh`), the output of one thread
(`Outgoing`, `Emptied`), the waiters of one task (`Awaiting`), or, for a plain call, the
queue and then the worker (`InLine`). `Kinded` says which requests may be where, and
`AtWork` that a task at work is queued or with the worker. `WaitersServed` alone is not
inductive: that a completion answers the waiters of its own task needs `AtWork`, and that
the task is still at work when the worker has it needs that cancelled tasks are flagged
(`Kinded`). Each action has one lemma, which shows that it keeps the invariant and that
it is a step of `RequestService` or leaves its variables as they are; the steps of the
pipe client and of the worker's requests share `QuietKeeps`, as they move no answer.

### RuntimeModelProofs

For any set of objects with any parents and scenes, any positive `MinSlice` and any
bounds (`ModelAssumption`), and any set of commands the user may give, lifecycle
events excluded (`UiAssumption`), all of `Spec`, without fairness:

| theorem | statement |
|---|---|
| `ModelKeeps` | `Spec => []RuntimeInv` |
| `CameraOnSelection` | `Spec => []FocusOnSelection` |
| `CommandsInOrder` | `Spec => []OrderKept` |
| `UnsafeDropped` | `Spec => []DropsUnsafe` |
| `TreeIsFresh` | `Spec => []TreeFresh` |

`RuntimeInv` has three parts beside the types and the focus. `QueueInv`: a queue is
taken apart into the set of what waits in it and the order it stands in. Each
operation keeps a part of the set in the order it had; a new command is numbered behind
everything that waits, and what was swapped out before a fault goes back in front of
everything that came later; unless a fault is still to be recovered from, what was
numbered before the last one (up to `cut`) is of a kind the recovery may keep. `TreeInv`: a destroyed object is in the tree or in the
census only while something leads to another census (`CensusComes`: an event, a fault,
the debounce, a refresh), or in the case of `late`, which section 5 explains. `TreeFresh`
alone is not inductive, because an object that Unity destroys at the end of the frame is
doomed before it is gone: for it there must be a census that cannot start in the same
frame (`CensusComesLater`).

### ExplorerToolsProofs

For any objects, methods, setters and finite set of tokens, any numbers of sessions and
trace ids, a store, a journal and value stamps of any positive size and a history of more
than one event (`TablesAssumption`, `WatchAssumption`, `ToolsAssumption`), all of `Spec`:

| theorem | statement |
|---|---|
| `ToolsKeepInv` | `Spec => []ToolsInv` |
| `ToolsTyped` | `Spec => []TypeOK` |
| `HandlesHaveOwners` | `Spec => []HandlesOwned` |
| `HooksStayScoped` | `Spec => []HookScoped` |
| `RevocationReaches` | `Spec => []McpTracesTracked` |
| `UndoNeverAdvances` | `Spec => []UndoGoesBack` |
| `NoStaleMutation` | `Spec => []MutationsCurrent` |

The instance of `explorer_tools` has one object and one method and leaves half of the
state at rest (`OneSide`); the theorems do neither. `ToolsInv` adds to the properties what
makes them inductive:

- *Handles.* Each watch keeps a distinct token for each event, the newest event has the
  current value's, and two watches share none (`TokensApart`). Without the first, a full
  history would release with its oldest event a token that a later one still shows.
  What is stranded is apart from both kinds of owner, and stays so.
- *Hooks.* An active session has an id (`ActiveNumbered`), so that a watch which forgot
  its trace leads to none. Stops, closes and retried detaches only make the sessions
  `Quieter`, which keeps every property of this part; the starts are the other case.
- *Writes.* A new value is greater than the present one and than all the journal holds
  (`FreshFacts`, from the definition of `Max`), and what a component's or a managed
  object's entry is about is an object (`AboutObjects`).
- *Answers.* `find_reference` compares with the published tree, so that what it finds
  `reached` a component of that tree's generation, and `process_command` compares again
  with the present one, so that what is `applied` is of this scene. The two are one scene
  apart between a scene's callback and the census.

`ListTraces` numbers the sessions it lists with `CHOOSE`; that there is one for each place
is `Ranked`, by the pigeonhole principle.

### What is only model-checked

- Liveness, in every module: `ControlReturns`, `ShutdownEnds`, `RequestEnds`,
  `TickEnds`, `StopReturns`, `EveryRequestEnds`, `StopEnds`, `SceneCatchesUp`,
  `DeadSelectionLeaves`, `RoutingSettles`, `UninstallEnds`. Their proofs would need
  fairness and `ENABLED`, which the prover does not handle.
- The counterexamples of the three runs that end with one (section 5).

Every safety property that a passing run checks is proved, of the specification that the
run checks (for the tracer `PatientSpec`).

## 5. What the models say about the code

Three runs end with a counterexample. Each contradicts a sentence of the repository
that `PROJECT.json` quotes under `findings`.

1. `tracer_restart`. A call stays inside while its trace is stopped; the drain
   times out and the detach is pending. `start()` on the same method does not look
   at `detach_pending`, resets the ring beside the call and stores
   `flight_accepting` over the word that counts it. When the call leaves it
   borrows from the accepting bit.
2. `bridge_revocation`. `run_client` sets `revoke_instrumentation` before it
   decrements `active_clients`; a `tick()` in between clears the flag, and the
   departed helper's hooks stay for as long as no other helper comes and goes.
3. `helper_connect`. The reader lists the tools and connects anew while the worker
   waits for an answer on the old pipe. The worker goes on reading from the new
   handle, on which nobody answers, without a time limit.

### Further disagreements

These are properties a comment or a document states, written down in the modules
and not among the runs, of which each needs one. To see the counterexample, make
the definition an INVARIANT (or PROPERTY) of the named configuration.

| definition | configuration | what happens |
|---|---|---|
| `ReturnPathKeepsStub` | `MethodTracer.cfg` | `leave_flight` is called inside `trace_record_return_from_stub`; the rest of the stub runs uncounted, and the drain can free it |
| `SiteHookOwned` | `MethodTracer.cfg` | `attach_session` installs the site hooks first; a refused entry hook destroys the new session and leaves them with a pointer into it |
| `GraceKept` | `McpBridge.cfg` | `tick()` computes the time since the last disconnect before it reads `active_clients`; a helper that leaves in between gets no grace period |
| `ExecutedHasWaiter` | `McpBridge.cfg` | a request can time out after `tick()` looked at `cancelled` and before it runs it (`mcp_bridge.cpp:373`, `548-552`); it is executed although its client was told of the time-out |
| `TickAlwaysEnds` | `McpBridge.cfg` | the busy answer is written under `g_state.mutex` (`mcp_bridge.cpp:355-361`) with no time limit; while the helper does not read, `tick()` waits for the mutex on the game's main thread |
| `StopAlwaysReturns` | `McpBridge.cfg` | `FlushFileBuffers` (`mcp_bridge.cpp:392`) waits for a helper that keeps its pipe open and does not read; `stop()` waits in its join, on the game's main thread |
| `TreeFresh` without `~published.late` | `RuntimeModel.cfg` | a refresh asked for while a census is under way is cleared with it (`explorer_model.cpp:193`), although the comment at `:1098` says that it starts another; an object destroyed after its part of the census was read stays in the tree until the next event |
| `ReferencesSurvive` | `ExplorerTools.cfg` | `docs/MCP.md:309-311` lets references outlive ordinary refreshes; a command made from one is compared with the revision (`explorer_model.cpp:514-519`) and asks for a retry, while the tool answers ok |
| `WatchSlotReclaimed` | `ExplorerTools.cfg` | a watch closed while its detach is pending forgets its hidden session (`model_field_watch.cpp:355`), which then keeps one of twelve slots; the comment at `method_tracer.cpp:1503-1508` says otherwise |
| `AccessCurrent` | `ExplorerTools.cfg` | `docs/MCP.md:309-311` lets object references expire on a scene change; until the next census `find_reference` compares with the old tree (`mcp_runtime_tools.cpp:459-490`), and a member is read, written or invoked through a reference of the old scene (`:667`, `:2996`) |
| `NothingStranded` | `ExplorerTools.cfg` | `inspect_raw_reference` retains a `0xb` handle and forgets its token (`model_object_inspector.cpp:559-573`); `Bridge::stop` drops the stored references without releasing theirs (`mcp_runtime_tools.cpp:393-401`) |
| `UserTraceKept` | `ExplorerTools.cfg` | a trace that a person started and MCP started again joins `mcp_method_trace_ids_`; the revocation stops it, against `docs/MCP.md:348-349` |
| `Resynchronized` | `Overlay.cfg` | after an overflow of the event queue a button still held is not pressed again for ImGui: `g_wndproc_mouse_down` says it is down already (`render_imgui_hook.cpp:1033`) |
| `GameAlwaysReleased` | `Overlay.cfg` | a press that reaches the game while no handler is installed, released over the menu after one is, stays down for the game |
| `PresentForwarded` | `Overlay.cfg` | an unwinding ignores the result of `detach_ex` and nulls `g_present`; a detour that stays attached answers `DXGI_ERROR_INVALID_CALL` to every frame |
| `GoneUnhooked` | `Overlay.cfg` | the same unwinding clears the flag of a hook that stayed (`render_imgui_hook.cpp:2587-2598`, `2611-2620`, `2648-2665`); `uninstall()` goes by the flags, and ends with a hook left in the game, against its comment at `:2818` |

### Met while reading, without a property

- `invoke_method` uses `method_reference` after `value_json` may have evicted it from
  the store (`mcp_runtime_tools.cpp:2675-2680`).
- `clear_component_cache` frees the handles of trace returns while
  `traced_return_references_` keeps their tokens (`explorer_model.cpp:1386-1402`).
- `manage_component` reaches a component only through the selected object and answers
  ok whether it did anything or not.
- Between a native fault and the recovery in the next frame `Bridge::tick` runs
  requests on the state the fault left (`mod_runtime.cpp`); the camera stays where a
  focus put it when the fault discards the focus.
- A managed exception that unwinds past the stub leaves its return context on the
  thread's stack (`method_tracer.cpp:648`).
- After a device loss the close requests are posted and the handler removed at once,
  so that routing and native cursor stay open until ImGui starts again, and
  `uninstall()` in that time has no window to restore. `restore_wndproc` forgets the
  old procedure when another mod subclassed on top of it.
- Tokens of nested values are numbered from the same start for every inspected
  object, so that following a field of a second object may reopen the first one's;
  graph and shelf share a token scope with two counters; closing a background tab of
  the inspector returns before its locked members are cleared
  (`model_object_inspector.cpp:296-338`).
- A second audio export replaces the pending one without a word; a preview texture is
  released at once on a recovery and on `stop()`, and otherwise only after
  `kPendingReleaseFrameDelay` frames.

What holds is as informative. The retry of a pending detach is safe against every
other operation. The ring's snapshot is reliable under a condition that can be
stated: the slot has not been claimed again, and two calls a whole ring apart were
not in it together. No request of the bridge is lost or left waiting by time-outs,
faults and stops in any order, for any number of helpers, as long as these read what
they are sent; the helper answers each request once although a cancellation and a
completion compete for its waiters. No queued command that carries a generation runs in
another scene than the one it was drawn from, not even between a scene's callback and the census. What
`install()` attached, and did not try in vain to take out again, is a set of hooks that
works, and a frame never meets a teardown.

## 6. What is not modelled

- *Tracer:* metadata and ABI of a session, formatting, the memory reads of
  arguments, the stack of return contexts of a thread, the decision which inlined
  sites to hook (the constants `Tiny` and `Inlined`). A call that reaches a hook
  whose session is gone is not followed.
- *Ring:* the atomic words of the argument buffers, `write_signal`, wrapping of the
  64-bit sequence.
- *Bridge:* the discovery document and its secret, the permission mask, failures
  of `start()`, the arithmetic of the request budget (only that a request may be
  refused or paced), the handles left open when a client thread cannot start.
- *Helper:* the handshake beyond its states, notifications (progress, status of
  tasks, changed tool list), the clock (any finished task may have expired), the text of messages,
  discovery documents and the limits on a message's length.
- *Runtime model:* the contents of components and members, inspector tabs, the class
  browser, the reference graph, and what a command writes into an object.
- *Runtime tools:* instance scans, snapshots and diffs, labels, metadata queries,
  references to types, methods and graph nodes; permissions beyond granted or not.
- *Value watches:* the alarm, the samples of the graph, the kinds of owner of a
  member.
- *Overlay:* graphics objects, positions, wheel, raw mouse input, window capture, the
  relay of messages between mods, swap chains other than the game's, unsupported
  device types, `install()` without the main-thread dispatcher, `uninstall()` called
  by the thread that presents.
- *Previews, highlight and picking; `ManagedReferenceStore`; inline sites and decoder;
  trace formatting; protocol and schemas; mod lifecycle; user interface; settings and
  writers; the SDK:* `PROJECT.json` gives the reason for each. Most are pure functions
  with unit tests of their own, drawing, or files; the concurrent parts of the
  lifecycle, the tracer's shutdown and the bridge's stop, are in the models.

## 7. What could come next

1. The inspector: its tabs, nested tokens and locked members (the observations in
   section 5 suggest what to state).
2. `Lifecycle`: initialise with rollback, shutdown, and the hooks that outlive it.
3. `RequestBudget`: the token bucket over scaled integers.
4. A composition of `HelperProcess` with `McpBridge`, with a request's identity kept
   over the pipe.
5. The sessions of `RuntimeTables` as an abstract specification that `MethodTracer`
   implements, with the choice `late` made by the calls that are inside.

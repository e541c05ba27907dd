----------------------------- MODULE ExplorerTools -----------------------------
(***************************************************************************)
(* The MCP tools, the value watches and the Traces panel on the tables     *)
(* they share.  All of them run on the main thread, one command, tool call *)
(* or sample at a time, and in any order: the user, an MCP client and the  *)
(* sampling know nothing of one another, while scenes change, the tree is  *)
(* rebuilt, the collector runs and a call that kept a hook installed       *)
(* leaves between any two of them.                                         *)
(***************************************************************************)
EXTENDS FieldWatch, RuntimeTools

CONSTANT MaxQueuedStops  \* bound: stop commands by method that wait

ASSUME StopsAssumption == MaxQueuedStops \in Nat

VARIABLES
  stops,     \* the methods the user asked to stop, in commands_
  stranded,  \* history: the tokens of handles whose owner forgot them
  stopped    \* ModRuntime::stop() has run

vars == <<tables, toolVars, watch, stops, stranded, stopped>>

-----------------------------------------------------------------------------
(* The user's Traces panel and Class Browser *)

PanelStart(m) ==
  /\ Startable(sessions, m, NoObject)
  /\ Numbered(sessions, m)
  /\ sessions' = Started(sessions, m, NoObject, TRUE, "user")
  /\ lastTrace' = IF sessions[m].id = 0 THEN lastTrace + 1 ELSE lastTrace
  /\ UNCHANGED <<handles, heap, toolVars, watch, stops>>

\* The panel stops and closes a session it shows by its id.
PanelStop(m) ==
  /\ sessions[m].visible /\ sessions[m].active
  /\ \E late \in SUBSET {m} : sessions' = Stopped(sessions, {m}, late)
  /\ UNCHANGED <<lastTrace, handles, heap, toolVars, watch, stops>>

PanelClose(m) ==
  /\ sessions[m].visible
  /\ sessions' = Closed(sessions, {m})
  /\ UNCHANGED <<lastTrace, handles, heap, toolVars, watch, stops>>

\* The Class Browser's button names the method; by the time the command runs
\* the session it was drawn from may be another one.
QueueStop(m) ==
  /\ sessions[m].visible /\ sessions[m].active
  /\ Cardinality(stops) < MaxQueuedStops
  /\ stops' = stops \union {m}
  /\ UNCHANGED <<tables, toolVars, watch>>

StopMethod(m) ==
  /\ m \in stops
  /\ stops' = stops \ {m}
  /\ \E late \in SUBSET {m} : sessions' = Stopped(sessions, {m}, late)
  /\ UNCHANGED <<lastTrace, handles, heap, toolVars, watch>>

-----------------------------------------------------------------------------
(* The explorer and the game *)

\* SceneHint clears the selection, and with it the component cache and every
\* handle whose scope is not 0xb.
SceneHint ==
  /\ generation < MaxGenerations
  /\ generation' = generation + 1
  /\ selected' = FALSE
  /\ UNCHANGED <<tables, tree, references, writes, mcpTraces, answer, watch, stops>>

PublishTree ==
  /\ tree.rev < MaxRevisions
  /\ tree' = [gen |-> generation, rev |-> tree.rev + 1]
  /\ UNCHANGED <<tables, generation, selected, references, writes, mcpTraces, answer, watch, stops>>

\* From the tree, by picking or from an inspected reference, which are of no generation.
UserSelects ==
  /\ selected' = TRUE
  /\ UNCHANGED <<tables, generation, tree, references, writes, mcpTraces, answer, watch, stops>>

\* ObjectDestroyRequested for the selected object.
SelectionDestroyed ==
  /\ selected
  /\ selected' = FALSE
  /\ ReleaseAllWatches
  /\ UNCHANGED <<generation, tree, references, writes, mcpTraces, answer, stops>>

\* discard_managed_state_after_native_fault() drops the watches and the
\* selection, and with the queue the stops in it; the tools keep what they have.
Recover ==
  /\ selected' = FALSE
  /\ stops' = {}
  /\ ReleaseAllWatches
  /\ UNCHANGED <<generation, tree, references, writes, mcpTraces, answer>>

\* publish() retries the detaches whose calls have left.
Publish ==
  /\ \E M \in SUBSET {m \in Methods : sessions[m].pending} : M # {} /\ sessions' = Drained(sessions, M)
  /\ UNCHANGED <<lastTrace, handles, heap, toolVars, watch, stops>>

GameWrites(o) ==
  /\ Fresh(o) <= MaxStamp
  /\ values' = [values EXCEPT ![o] = Fresh(o)]
  /\ UNCHANGED <<tables, sceneVars, references, journal, replaying, mcpTraces, answer, watch, stops>>

\* A pin and a strong handle keep an object.
Collect(o) ==
  /\ o \in heap
  /\ ~watch[o].pin
  /\ \A t \in Tokens : handles[t] # [obj |-> o, strong |-> TRUE]
  /\ heap' = heap \ {o}
  /\ UNCHANGED <<sessions, lastTrace, handles, toolVars, watch, stops>>

WatchTokens == UNION {TokensOf(watch[o]) : o \in Objects}
ReferenceTokens == {e.handle : e \in Range(references)} \ {0}

\* inspect_raw_reference(): a handle as of a watch, for an address the user typed.  The
\* Object Inspector takes handles of its own, and a GameObject is selected; nobody
\* keeps the token.
InspectRaw(o) ==
  /\ o \in heap /\ FreeIn(handles) # {}
  /\ handles' = Captured(handles, o)
  /\ stranded' = stranded \union {LowToken(handles)}
  /\ selected' \in {selected, TRUE}
  /\ UNCHANGED <<sessions, lastTrace, heap, generation, tree, references, writes, mcpTraces,
                 answer, watch, stops, stopped>>

\* ModRuntime::stop(): Bridge::stop() ends in RuntimeTools::reset(), which drops the
\* references without their handles; then RuntimeModel::stop() stops every session and
\* closes the watches.  Nothing reads what else they reset.
Stop ==
  /\ references' = <<>> /\ journal' = <<>> /\ mcpTraces' = {}
  /\ stranded' = stranded \union ReferenceTokens
  /\ \E late \in SUBSET Methods :
       sessions' = Closed(Stopped(sessions, Methods, late), TracesOf(Objects))
  /\ handles' = Released(handles, WatchTokens)
  /\ watch' = [o \in Objects |-> NoWatch]
  /\ selected' = FALSE /\ stopped' = TRUE
  /\ UNCHANGED <<lastTrace, heap, generation, tree, replaying, values, answer, stops>>

Init == TablesInit /\ WatchInit /\ ToolsInit /\ stops = {} /\ stranded = {} /\ stopped = FALSE

Running ==
  \/ WatchNext /\ UNCHANGED <<toolVars, stops>>
  \/ ToolsNext /\ UNCHANGED <<watch, stops>>
  \/ \E m \in Methods : \/ PanelStart(m) \/ PanelStop(m) \/ PanelClose(m)
                        \/ QueueStop(m) \/ StopMethod(m)
  \/ SceneHint \/ PublishTree \/ UserSelects \/ SelectionDestroyed \/ Recover \/ Publish
  \/ \E o \in Objects : GameWrites(o) \/ Collect(o)

Next ==
  /\ ~stopped
  /\ \/ Running /\ UNCHANGED <<stranded, stopped>>
     \/ \E o \in Objects : InspectRaw(o)
     \/ Stop

Spec == Init /\ [][Next]_vars

-----------------------------------------------------------------------------
(* Properties *)

\* Type correctness of the shared tables, the watches and the tools' state.
TypeOK ==
  /\ TablesTypeOK /\ WatchTypeOK /\ ToolsTypeOK /\ stops \subseteq Methods
  /\ stopped \in BOOLEAN

\* But for what an inspected address and the end of the mod strand, every retained 0xb
\* handle is owned by exactly one of a watch and a stored reference: no eviction, full
\* history, cleared or closed watch and no fault forgets a handle, and nobody's handle
\* is released by somebody else (clear_component_cache, release_reference_handle).
HandlesOwned ==
  /\ Held = WatchTokens \union ReferenceTokens \union stranded
  /\ WatchTokens \intersect ReferenceTokens = {}
  /\ stranded \intersect (WatchTokens \union ReferenceTokens) = {}
  /\ \A i, j \in DOMAIN references :
       i # j /\ references[i].handle # 0 => references[i].handle # references[j].handle

\* A session that is active and not shown belongs to an active watch that pins
\* the object the hook is scoped to: a collector that moves the object would
\* leave the hook's raw filter on another one (attach_setter_hook).
HookScoped ==
  \A m \in Methods :
    sessions[m].active /\ ~sessions[m].visible =>
      LET o == sessions[m].scope
      IN  o \in heap /\ watch[o].active /\ watch[o].pin /\ watch[o].trace = sessions[m].id

\* What MCP armed and is still active can be revoked: its id is in
\* mcp_method_trace_ids_, however the session was stopped, closed, restarted or
\* adopted before.
McpTracesTracked ==
  \A m \in Methods : sessions[m].active /\ sessions[m].armedBy = "mcp" => sessions[m].id \in mcpTraces

\* undo_write only ever goes back: each record of the journal is older than the
\* next one of the same object, and the last is older than the present value,
\* whatever was lost, trimmed or written by the game in between.
UndoGoesBack ==
  \A i \in DOMAIN journal :
    /\ journal[i].previous < values[journal[i].about]
    /\ \A j \in DOMAIN journal :
         i < j /\ journal[i].about = journal[j].about => journal[i].previous < journal[j].previous

\* A call that becomes a command (select, mutate, add) acts only in the scene its
\* reference was issued in, even between the scene's callback and the next census,
\* when the published tree still has the reference's generation.  A call that goes to a
\* component itself asks that tree alone: it can be one scene late, and no more once
\* the census is published; see AccessCurrent.
MutationsCurrent ==
  /\ answer.verdict = "applied" => answer.issued = answer.at
  /\ answer.verdict = "reached" => answer.issued = answer.shown

\* docs/MCP.md of all object references: they "expire on a scene generation change".
AccessCurrent == answer.verdict = "reached" => answer.issued = answer.at

\* model_object_inspector.cpp gives back what it retains; two ways do not.
NothingStranded == stranded = {}

\* A hidden session that is stopped and drained has a watch that will close it:
\* no property watch keeps one of the max_sessions slots for good
\* (method_tracer.cpp, close()).
WatchSlotReclaimed ==
  \A m \in Retained :
    ~sessions[m].visible /\ ~sessions[m].active /\ ~sessions[m].pending =>
      \E o \in Objects : watch[o].trace = sessions[m].id

\* docs/MCP.md: object references "survive ordinary hierarchy refreshes and
\* expire on a scene generation change".
ReferencesSurvive == answer.verdict = "retry" => answer.issued # answer.at

\* docs/MCP.md: "Trace sessions started manually from the Explorer UI are not
\* affected by MCP revocation."
UserTraceKept ==
  [][Revoke => \A m \in Methods : sessions[m].active /\ sessions[m].armedBy = "user" => sessions'[m].active]_vars
=============================================================================

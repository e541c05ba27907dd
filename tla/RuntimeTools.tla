------------------------------ MODULE RuntimeTools ------------------------------
(***************************************************************************)
(* The tools an MCP client calls (src/mod/mcp/mcp_runtime_tools.cpp), as   *)
(* far as they keep state between two calls: the bounded store of opaque   *)
(* references, the journal that undo_write replays and the trace sessions  *)
(* that a revocation of instrumentation stops.  Every call runs on Unity's *)
(* main thread from Bridge::tick, so that a call is one step, but scene    *)
(* changes, censuses, the user and the collector act between two calls.    *)
(*                                                                         *)
(* There is one game object with one component; an old and a new instance  *)
(* of it are told apart by the scene generation.  References to a game     *)
(* object, a component, a managed object and a trace are kept; the ones to *)
(* types, methods and graph nodes fill the same store and are left out, as *)
(* are instance scans, snapshots and every query that changes nothing.  A  *)
(* missing permission is a call that does nothing, except in undo_write.   *)
(***************************************************************************)
EXTENDS RuntimeTables, Sequences, SequencesExt, FiniteSetsExt

CONSTANTS
  MaxReferences,  \* kMaxReferences
  MaxJournal,     \* kMaxJournal
  MaxGenerations, \* bound: scene generations
  MaxRevisions,   \* bound: censuses published
  MaxStamp        \* bound: values of a member told apart

ASSUME ToolsAssumption ==
  /\ {MaxReferences, MaxJournal, MaxGenerations, MaxRevisions, MaxStamp} \subseteq Nat \ {0}

VARIABLES
  generation,  \* scene_generation_ of the model
  tree,        \* generation and revision of the published hierarchy
  selected,    \* the object is selected and its component is cached
  references,  \* references_ in the order of reference_order_
  journal,     \* write_journal_
  replaying,   \* replaying_undo_
  mcpTraces,   \* mcp_method_trace_ids_
  values,      \* the member of each object that is written, a later value greater
  answer       \* what the last call through a scene-bound reference did

sceneVars == <<generation, tree, selected>>
writes == <<journal, replaying, values>>
toolVars == <<sceneVars, references, writes, mcpTraces, answer>>

Silent == [verdict |-> "none", issued |-> 0, shown |-> 0, at |-> 0]

-----------------------------------------------------------------------------
(* References *)

\* One shape for every kind: a field a kind does not use is 0 or NoObject.  The
\* opaque token of an entry, 48 random bits, is its place in the store, and 0 is
\* a token the store does not know.
Entry == [kind : {"game", "component", "managed", "trace"},
          gen : 0..MaxGenerations, rev : 0..MaxRevisions,
          about : Objects \union {NoObject}, handle : Tokens \union {0}, trace : 0..MaxTraceIds]

Plain(kind) == [kind |-> kind, gen |-> 0, rev |-> 0, about |-> NoObject, handle |-> 0, trace |-> 0]

\* issue_reference(), once for each of n entries: a full store evicts its oldest,
\* and with a managed object's entry its handle.
Overflow(n) == IF Len(references) + n > MaxReferences
                 THEN Len(references) + n - MaxReferences ELSE 0

\* Mutant: the handle of an evicted entry is forgotten.
EvictedEntry(n) == {}
Evicted(n) == {references[i].handle : i \in DOMAIN references \cap 1..Overflow(n)}

Stored(new) ==
  LET all == references \o new
  IN  SubSeq(all, Overflow(Len(new)) + 1, Len(all))

\* What a remembered token has become once n entries were evicted.
Aged(place, n) == IF place > n THEN place - n ELSE 0
JournalAged(n) == [i \in DOMAIN journal |-> [journal[i] EXCEPT !.place = Aged(@, n)]]

\* The entries new join the store, after h became of the handles.
Issue(new, h) ==
  /\ references' = Stored(new)
  /\ handles' = Released(h, Evicted(Len(new)))
  /\ journal' = JournalAged(Overflow(Len(new)))

\* capture_managed_reference(): the handle first, then the reference.
IssueManaged(o, strong) ==
  LET t == HighToken(handles)
  IN  /\ FreeIn(handles) # {}
      /\ Issue(<<[Plain("managed") EXCEPT !.about = o, !.handle = t]>>, Rooted(handles, t, o, strong))

\* find_reference(): the generation of the published tree decides, not the present one.
Found(kind) ==
  {i \in DOMAIN references :
     /\ references[i].kind = kind
     /\ kind \in {"game", "component"} => references[i].gen = tree.gen}

\* resolve_target_reference()
Targets ==
  {i \in Found("component") : references[i].about \in heap}
    \union {i \in Found("managed") : handles[references[i].handle].obj \in heap}

-----------------------------------------------------------------------------
(* Calls that issue references *)

FindGameObject ==
  /\ Issue(<<[Plain("game") EXCEPT !.gen = tree.gen, !.rev = tree.rev]>>, handles)
  /\ answer' = Silent
  /\ UNCHANGED <<sessions, lastTrace, heap, sceneVars, values, replaying, mcpTraces>>

\* A component is listed for the game object a reference leads to.
InspectGameObject(o) ==
  /\ o \in heap
  /\ Found("game") # {}
  /\ Issue(<<[Plain("component") EXCEPT !.gen = tree.gen, !.about = o]>>, handles)
  /\ answer' = Silent
  /\ UNCHANGED <<sessions, lastTrace, heap, sceneVars, values, replaying, mcpTraces>>

\* A call through the reference at place i: the generations of the reference, of the
\* published tree and of the scene.
Answered(i, verdict) ==
  [verdict |-> verdict, issued |-> references[i].gen, shown |-> tree.gen, at |-> generation]

\* A member is read, written or invoked once find_reference() has the reference of the
\* component; a managed object is of no scene.
Accessed(i) == IF references[i].kind = "component" THEN Answered(i, "reached") ELSE Silent

\* A value that is an object: read weakly, returned by an invocation strongly.
ReadObject(o, strong) ==
  /\ o \in heap
  /\ \E i \in Targets : answer' = Accessed(i)
  /\ IssueManaged(o, strong)
  /\ UNCHANGED <<sessions, lastTrace, heap, sceneVars, values, replaying, mcpTraces>>

-----------------------------------------------------------------------------
(* Calls that become a command of the explorer *)

\* Mutant: only the tree is compared.
VerdictOfTree(gen, rev) == IF rev # 0 /\ rev # tree.rev THEN "retry" ELSE "applied"

\* process_command(): a command of another generation or drawn from another
\* tree is not run, though the call succeeds.
Verdict(gen, rev) ==
  IF gen # 0 /\ gen # generation THEN "expired"
  ELSE IF rev # 0 /\ rev # tree.rev THEN "retry"
  ELSE "applied"

SelectGameObject ==
  \E i \in Found("game") :
    /\ answer' = Answered(i, Verdict(references[i].gen, references[i].rev))
    /\ selected' = (selected \/ answer'.verdict = "applied")
    /\ UNCHANGED <<tables, generation, tree, references, writes, mcpTraces>>

\* mutate_game_object, and manage_component when it adds.
MutateGameObject ==
  \E i \in Found("game") :
    /\ answer' = Answered(i, Verdict(references[i].gen, references[i].rev))
    /\ UNCHANGED <<tables, sceneVars, references, writes, mcpTraces>>

\* remove and set_enabled name an instance only, and reach it only through the
\* cache of the selected object's components.
ManageComponent ==
  \E i \in Found("component") :
    /\ answer' = Answered(i, IF selected THEN "reached" ELSE "unavailable")
    /\ UNCHANGED <<tables, sceneVars, references, writes, mcpTraces>>

-----------------------------------------------------------------------------
(* write_member and undo_write *)

Trimmed(j) == IF Len(j) > MaxJournal THEN Tail(j) ELSE j

\* What the journal keeps of a write: the reference it went through, the object
\* and the value before it.
Write == [place : 0..MaxReferences, about : Objects, previous : 1..MaxStamp]

\* Mutant: the replay is journaled too.
JournaledAlways(j, i, replay) ==
  Trimmed(Append(j, [place |-> i, about |-> references[i].about, previous |-> values[references[i].about]]))

\* remember_write()
Journaled(j, i, replay) ==
  LET o == references[i].about
  IN  IF replay THEN j ELSE Trimmed(Append(j, [place |-> i, about |-> o, previous |-> values[o]]))

\* Any value will do as long as it is told from the ones before.
Fresh(o) == Max({values[o]} \union {journal[i].previous : i \in DOMAIN journal}) + 1

WriteMember ==
  \E i \in Targets :
    LET o == references[i].about
    IN  /\ Fresh(o) <= MaxStamp
        /\ values' = [values EXCEPT ![o] = Fresh(o)]
        /\ journal' = Journaled(journal, i, replaying)
        /\ answer' = Accessed(i)
        /\ UNCHANGED <<tables, sceneVars, references, replaying, mcpTraces>>

Newest == journal[Len(journal)]

\* The record is gone before the replay; a replay that is refused loses it.
UndoWrite ==
  /\ journal # <<>>
  /\ \/ /\ Newest.place \in Targets
        /\ journal' = Journaled(Front(journal), Newest.place, TRUE)
        /\ values' = [values EXCEPT ![Newest.about] = Newest.previous]
        /\ answer' = Accessed(Newest.place)
     \/ /\ journal' = Front(journal)
        /\ answer' = Silent
        /\ UNCHANGED values
  /\ replaying' = FALSE
  /\ UNCHANGED <<tables, sceneVars, references, mcpTraces>>

\* A native fault in the replay ends the call inside it.
UndoFaults ==
  /\ journal # <<>>
  /\ Newest.place \in Targets
  /\ journal' = Front(journal)
  /\ replaying' = TRUE
  /\ answer' = Accessed(Newest.place)
  /\ UNCHANGED <<tables, sceneVars, references, values, mcpTraces>>

-----------------------------------------------------------------------------
(* Traces *)

\* list_method_traces: a reference for every session the Traces panel shows.
Listed == {sessions[m].id : m \in {n \in Retained : sessions[n].visible}}
TraceEntry(id) == [Plain("trace") EXCEPT !.trace = id]

ListTraces ==
  LET nth(k) == CHOOSE id \in Listed : Cardinality({i \in Listed : i <= id}) = k
  IN  /\ Listed # {}
      /\ Issue([k \in 1..Cardinality(Listed) |-> TraceEntry(nth(k))], handles)
      /\ answer' = Silent
      /\ UNCHANGED <<sessions, lastTrace, heap, sceneVars, values, replaying, mcpTraces>>

\* Mutant: only a new session joins.
AdoptedNew(id) == IF id > lastTrace THEN mcpTraces \union {id} ELSE mcpTraces

\* The id joins the ones to revoke whether the session is new, restarted or adopted.
Adopted(id) == mcpTraces \union {id}

\* set_method_trace(), then whatever active session of the method is published:
\* the one this call started, or one that was there.
StartTrace(m) ==
  /\ \E granted \in BOOLEAN :
       LET starts == granted /\ Startable(sessions, m, NoObject)
       IN  /\ starts => Numbered(sessions, m)
           /\ sessions' = IF starts THEN Started(sessions, m, NoObject, TRUE, "mcp") ELSE sessions
           /\ lastTrace' = IF starts /\ sessions[m].id = 0 THEN lastTrace + 1 ELSE lastTrace
  /\ IF sessions'[m].active /\ sessions'[m].visible
       THEN /\ mcpTraces' = Adopted(sessions'[m].id)
            /\ Issue(<<TraceEntry(sessions'[m].id)>>, handles)
       ELSE UNCHANGED <<mcpTraces, references, handles, journal>>
  /\ answer' = Silent
  /\ UNCHANGED <<heap, sceneVars, values, replaying>>

StopTrace ==
  \E i \in Found("trace") :
    /\ \E late \in SUBSET WithId(references[i].trace) :
         sessions' = Stopped(sessions, WithId(references[i].trace), late)
    /\ mcpTraces' = mcpTraces \ {references[i].trace}
    /\ answer' = Silent
    /\ UNCHANGED <<lastTrace, handles, heap, sceneVars, references, writes>>

\* revoke_instrumentation(), and the explorer's tick once tracing is forbidden.
Revoke ==
  /\ mcpTraces # {}
  /\ LET M == UNION {WithId(id) : id \in mcpTraces}
     IN  \E late \in SUBSET M : sessions' = Stopped(sessions, M, late)
  /\ mcpTraces' = {}
  /\ UNCHANGED <<lastTrace, handles, heap, sceneVars, references, writes, answer>>

ToolsInit ==
  /\ generation = 1
  /\ tree = [gen |-> 1, rev |-> 1]
  /\ selected = FALSE
  /\ references = <<>>
  /\ journal = <<>>
  /\ replaying = FALSE
  /\ mcpTraces = {}
  /\ values = [o \in Objects |-> 1]
  /\ answer = Silent

ToolsNext ==
  \/ FindGameObject \/ SelectGameObject \/ MutateGameObject \/ ManageComponent
  \/ WriteMember \/ UndoWrite \/ UndoFaults
  \/ ListTraces \/ StopTrace \/ Revoke
  \/ \E o \in Objects : InspectGameObject(o) \/ \E strong \in BOOLEAN : ReadObject(o, strong)
  \/ \E m \in Methods : StartTrace(m)

ToolsTypeOK ==
  /\ generation \in 1..MaxGenerations
  /\ tree \in [gen : 1..MaxGenerations, rev : 1..MaxRevisions]
  /\ selected \in BOOLEAN
  /\ references \in Seq(Entry) /\ Len(references) <= MaxReferences
  /\ journal \in Seq(Write) /\ Len(journal) <= MaxJournal
  /\ replaying \in BOOLEAN
  /\ mcpTraces \subseteq 1..MaxTraceIds
  /\ values \in [Objects -> 1..MaxStamp]
  /\ answer \in [verdict : {"none", "applied", "reached", "retry", "expired", "unavailable"},
                 issued : 0..MaxGenerations, shown : 0..MaxGenerations, at : 0..MaxGenerations]
=============================================================================

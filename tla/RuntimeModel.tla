------------------------------ MODULE RuntimeModel ------------------------------
(***************************************************************************)
(* The explorer's model (src/mod/explorer/explorer_model.cpp): one object, *)
(* ticked once a frame on Unity's main thread, that owns the selection,    *)
(* the camera focus and the published tree of the scene's objects.         *)
(*                                                                         *)
(* Three parties act on it.  The user interface draws a published snapshot *)
(* on the render thread and queues commands.  The game loads scenes and    *)
(* destroys objects on the main thread between two ticks, and the SDK's    *)
(* callbacks queue a SceneHint or an ObjectDestroyRequested for each.  The *)
(* tick drains the queue, then rebuilds the tree by a census that may take *)
(* many frames.  Any managed access may raise a native fault; it is caught *)
(* and the next tick throws the managed state away.                        *)
(*                                                                         *)
(* A tick is several steps so that the render thread can queue between     *)
(* them: "tick", "commands" (one step a command), "rest" and "read"; the   *)
(* game runs before it ("game") and after it ("late"), and Unity destroys  *)
(* what is doomed at the end of the frame.  The duration of a debounce is  *)
(* abstracted to settled, the time since the last event has passed, which  *)
(* happens between two ticks: a tick is taken to be shorter.  The panels a *)
(* selection opens, traces, watches and previews are left out here.        *)
(***************************************************************************)
EXTENDS Naturals, Sequences, SequencesExt, FiniteSets, FiniteSetsExt

CONSTANTS
  Objects,      \* the game objects that exist at some time
  SceneOf,      \* the scene an object belongs to
  Parent,       \* its parent, or itself for a root
  UiKinds,      \* the commands the user gives
  MinSlice,     \* kMinCensusObjectsPerSlice
  MaxQueue,     \* bound: commands waiting in commands_
  MaxUi,        \* bound: commands the user gives in all
  MaxScenes,    \* bound: scenes the game loads, the first included
  MaxFaults,    \* bound: native faults
  NoObject

ASSUME ModelAssumption ==
  /\ SceneOf \in [Objects -> Nat]
  /\ Parent \in [Objects -> Objects]
  /\ NoObject \notin Objects
  /\ {MinSlice, MaxQueue, MaxUi, MaxScenes, MaxFaults} \subseteq Nat
  /\ MinSlice > 0

VARIABLES
  life,         \* what the game made of each object
  scene,        \* the number of the game's current scene
  commands,     \* commands_
  pending,      \* what process_commands swapped out and has still to run
  pc,           \* where the main thread is
  faulted,      \* native_faulted_
  refresh,      \* refresh_requested_
  eventPending, \* event_refresh_pending_
  settled,      \* event_refresh_due_ has come
  sceneLoad,    \* pending_scene_load_.active
  generation,   \* scene_generation_
  nextRevision, \* next_hierarchy_revision_
  census,       \* hierarchy_census_, or <<>>
  hierarchy,    \* hierarchy_
  published,    \* the hierarchy of published_
  shown,        \* the one the user interface draws
  selected,     \* working_.selected_instance_id
  focus,        \* the target of camera_focus_, or NoObject
  liveData,     \* live_data_
  given,        \* bound: commands given so far, which also numbers them
  faults,       \* bound: faults so far
  cut           \* commands numbered up to here were queued before the recovery

world == <<life, scene>>
queue == <<commands, pending, given>>
work == <<refresh, eventPending, settled, sceneLoad, generation, nextRevision, census>>
trees == <<hierarchy, published, shown>>
choice == <<selected, focus, liveData>>
fault == <<faulted, faults, cut>>
vars == <<world, queue, pc, work, trees, choice, fault>>

-----------------------------------------------------------------------------
(* Commands *)

Kinds == {"select", "clear", "focus", "restore", "refresh", "delete",
          "duplicate", "rename", "edit", "metadata", "camera", "live", "load",
          "scene", "destroyed"}
Lifecycle == {"scene", "destroyed"}

ASSUME UiAssumption == UiKinds \subseteq Kinds \ Lifecycle

\* The commands a fault does not drop: they look their target up again.
Safe == {"select", "clear", "refresh", "scene", "destroyed"}

\* The commands that resolve a GameObject before they act.
NeedObject == {"select", "focus", "delete", "duplicate", "rename", "edit"}

\* The ones the tree's context menu sends with the revision it was drawn from.
Revised == {"delete", "duplicate"}

\* Kinds of which commands_ keeps only the newest.
Replaced(kind) ==
  CASE kind \in {"select", "clear"} -> {"select", "clear"}
    [] kind \in {"camera"} -> {kind}
    [] OTHER -> {}

\* A lifecycle event is numbered 0 and tagged with no generation.
Event(kind, o) == [kind |-> kind, obj |-> o, gen |-> 0, rev |-> 0, seq |-> 0]

\* What std::erase_if leaves: the commands at some places, in the order they had.
Kept(q, places) ==
  LET Rank(i) == Cardinality({j \in places : j <= i})
  IN  [k \in 1 .. Cardinality(places) |-> q[CHOOSE i \in places : Rank(i) = k]]
Without(q, kinds) == Kept(q, {i \in DOMAIN q : q[i].kind \notin kinds})

\* enqueue() under command_mutex_.
Enqueued(q, c) ==
  IF c.kind = "metadata" /\ \E i \in DOMAIN q : q[i].kind = c.kind /\ q[i].obj = c.obj
    THEN q
    ELSE Append(Without(q, Replaced(c.kind)), c)

-----------------------------------------------------------------------------
(* The tree *)

None == <<>>
Lineage(o) == {o, Parent[o], Parent[Parent[o]]}
Family(o) == {p \in Objects : o \in Lineage(p)}
Exists(o) == life[o] \in {"live", "doomed"}

\* What FindObjectsOfTypeAll returns when the census starts.  (late is history: a
\* refresh was asked for while the census was under way, which it stands in for.)
NewCensus == [rev |-> nextRevision, gen |-> generation,
              left |-> {o \in Objects : Exists(o)}, flat |-> {}, late |-> FALSE]

\* An object whose parent is not in the census is a root; a root whose scene
\* cannot be read is dropped with all under it.
Root(o, flat) == IF Parent[o] \in flat THEN Parent[o] ELSE o
Tree(c) == [rev |-> c.rev, gen |-> c.gen, late |-> c.late,
            ids |-> {o \in c.flat : Exists(Root(o, c.flat))}]

-----------------------------------------------------------------------------
(* Parts of the commands *)

\* Mutant: the camera keeps the focus.
ClearSelectionOnly == selected' = NoObject /\ UNCHANGED focus
ClearSelection == selected' = NoObject /\ focus' = NoObject

Debounce == eventPending' = TRUE /\ settled' = FALSE

\* select_object, which a live object of another selection gets through.
SelectObject(o) ==
  IF ~Exists(o) THEN ClearSelection
  ELSE IF selected = o THEN UNCHANGED <<selected, focus>>
  ELSE selected' = o /\ focus' = NoObject

\* update_camera_focus ends a session whose target is gone.
FocusUpdated == IF focus # NoObject /\ ~Exists(focus) THEN NoObject ELSE focus

Doomed(o) == [p \in Objects |-> IF p \in Family(o) /\ life[p] = "live"
                                  THEN "doomed" ELSE life[p]]

\* The selected object is used as it is rooted; another must be found alive.
Resolves(c) == c.obj = selected \/ Exists(c.obj)

Expired(c) == /\ c.kind \notin Lifecycle \cup {"load"}
              /\ c.gen # 0
              /\ c.gen # generation

Outdated(c) == c.rev # 0 /\ c.rev # hierarchy.rev

-----------------------------------------------------------------------------
(* process_command, one operator a group of cases; each says all of work,  *)
(* choice and the world                                                    *)

RequestRefresh == refresh' = TRUE /\ UNCHANGED <<eventPending, settled, sceneLoad,
                                               generation, nextRevision, census>>

Refused(c) ==
  \/ Expired(c) /\ UNCHANGED <<world, commands, work, choice>>
  \/ /\ ~Expired(c)
     /\ Outdated(c) \/ (c.kind \in NeedObject /\ ~Resolves(c))
     /\ RequestRefresh
     /\ UNCHANGED <<world, commands, choice>>

Accepted(c) == /\ ~Expired(c)
               /\ ~Outdated(c)
               /\ c.kind \in NeedObject => Resolves(c)

ChangesSelection(c) ==
  /\ \/ c.kind = "select" /\ SelectObject(c.obj)
     \/ /\ c.kind = "focus"
        /\ selected' = c.obj
        /\ focus' \in {IF c.obj = selected THEN focus ELSE NoObject, NoObject}
                     \cup {o \in {c.obj} : Exists(o)}
     \/ c.kind = "restore" /\ focus' = NoObject /\ UNCHANGED selected
     \/ c.kind = "clear" /\ ClearSelection
     \/ c.kind = "camera" /\ focus' = FocusUpdated /\ UNCHANGED selected
  /\ UNCHANGED <<world, commands, work, liveData>>

\* A destroyed selection is noticed by the refresh_inspector these end in.
EditsObject(c) ==
  /\ c.kind = "edit"
  /\ IF selected # NoObject /\ ~Exists(selected)
       THEN ClearSelection ELSE UNCHANGED <<selected, focus>>
  /\ UNCHANGED <<world, commands, work, liveData>>

\* Rename, SetActive and Refresh show their effect by a new census.
AsksRefresh(c) ==
  /\ c.kind \in {"refresh", "rename"}
  /\ RequestRefresh
  /\ UNCHANGED <<world, commands, choice>>

\* Destroy runs inside the command; the SDK reports it as it does the game's.
DeletesObject(c) ==
  /\ c.kind = "delete"
  /\ IF selected = c.obj THEN ClearSelection ELSE UNCHANGED <<selected, focus>>
  /\ life' = Doomed(c.obj)
  /\ commands' = Enqueued(commands, Event("destroyed", c.obj))
  /\ refresh' = TRUE
  /\ Debounce
  /\ UNCHANGED <<scene, sceneLoad, generation, nextRevision, census, liveData>>

DuplicatesObject(c) ==
  /\ c.kind = "duplicate"
  /\ life' \in {life} \cup
       {[life EXCEPT ![o] = "live"] : o \in {p \in Objects : life[p] = "none" /\ SceneOf[p] = scene}}
  /\ refresh' = TRUE
  /\ Debounce
  /\ UNCHANGED <<scene, commands, sceneLoad, generation, nextRevision, census, choice>>

LoadsScene(c) ==
  /\ c.kind = "load"
  /\ \/ sceneLoad' = TRUE /\ refresh' = TRUE
     \/ UNCHANGED <<sceneLoad, refresh>>
  /\ UNCHANGED <<world, commands, eventPending, settled, generation, nextRevision,
                 census, choice>>

SetsOption(c) ==
  /\ \/ c.kind = "live" /\ liveData' = ~liveData
     \/ c.kind = "metadata" /\ UNCHANGED liveData
  /\ UNCHANGED <<world, commands, work, selected, focus>>

NewGeneration ==
  /\ generation' = generation + 1
  /\ census' = None
  /\ sceneLoad' \in {sceneLoad, FALSE}

SceneHint(c) ==
  /\ c.kind = "scene"
  /\ NewGeneration
  /\ ClearSelection
  /\ Debounce
  /\ UNCHANGED <<world, commands, refresh, nextRevision, liveData>>

\* Mutant: only the destruction of the selected object asks for a census.
DestroyRequestedTarget(c) ==
  /\ c.kind = "destroyed"
  /\ IF c.obj = selected THEN ClearSelection /\ Debounce
                         ELSE UNCHANGED <<selected, focus, eventPending, settled>>
  /\ UNCHANGED <<world, commands, refresh, sceneLoad, generation, nextRevision, census,
                 liveData>>

DestroyRequested(c) ==
  /\ c.kind = "destroyed"
  /\ IF c.obj = selected THEN ClearSelection ELSE UNCHANGED <<selected, focus>>
  /\ Debounce
  /\ UNCHANGED <<world, commands, refresh, sceneLoad, generation, nextRevision, census,
                 liveData>>

Runs(c) ==
  \/ Refused(c)
  \/ /\ Accepted(c)
     /\ \/ ChangesSelection(c) \/ EditsObject(c) \/ AsksRefresh(c)
        \/ DeletesObject(c) \/ DuplicatesObject(c) \/ LoadsScene(c)
        \/ SetsOption(c) \/ SceneHint(c) \/ DestroyRequested(c)
-----------------------------------------------------------------------------
(* A frame of the main thread *)

\* The destruction burst becomes one command in the first one's place: the last
\* request that targets the selection, or the first.
Coalesced(q) ==
  LET Bursts == {i \in DOMAIN q : q[i].kind = "destroyed"}
      first == Min(Bursts)
      Hits == {i \in Bursts \ {first} : q[i].obj = selected}
      kept == IF Hits = {} THEN first ELSE Max(Hits)
  IN  IF Bursts = {} THEN q
      ELSE Kept([q EXCEPT ![first] = q[kept]], {first} \cup (DOMAIN q \ Bursts))

FrameBegins ==
  /\ pc = "game"
  /\ pc' = "tick"
  /\ UNCHANGED <<world, queue, work, trees, choice, fault>>

RaisesFault == /\ faults < MaxFaults
               /\ faults' = faults + 1
               /\ faulted' = TRUE
               /\ pc' = "late"
               /\ UNCHANGED cut

\* A fault of the bridge's requests, which run before the tick in the same
\* guarded update, or of the tick outside process_command.
FrameFaults ==
  /\ pc \in {"tick", "rest", "read"}
  /\ RaisesFault
  /\ UNCHANGED <<world, queue, work, trees, choice>>

\* Mutant: the queue is kept.
RecoveredAll == commands

\* The tick after a fault: what was queued and is not safe is dropped.
Recovered == Without(commands, Kinds \ Safe)

\* Mutant: the refresh of an earlier event is not put off.
RefreshForgotten == refresh' = FALSE /\ UNCHANGED <<eventPending, settled>>
RefreshLater == refresh' = FALSE /\ Debounce

Recovers ==
  /\ pc = "tick"
  /\ faulted
  /\ faulted' = FALSE
  /\ cut' = given
  /\ ClearSelection
  /\ census' = None
  /\ commands' = Recovered
  /\ RefreshLater
  /\ published' = hierarchy
  /\ pc' = "late"
  /\ UNCHANGED <<world, pending, given, sceneLoad, generation, nextRevision,
                 hierarchy, shown, liveData, faults>>

Drains ==
  /\ pc = "tick"
  /\ ~faulted
  /\ pending' = Coalesced(commands)
  /\ commands' = <<>>
  /\ pc' = "commands"
  /\ UNCHANGED <<world, given, work, trees, choice, fault>>

RunsCommand ==
  /\ pc = "commands"
  /\ pending # <<>>
  /\ Runs(Head(pending))
  /\ pending' = Tail(pending)
  /\ UNCHANGED <<pc, given, trees, fault>>

\* Mutant: the batch is appended.
RequeuedBehind == commands \o Without(Tail(pending), Kinds \ Safe)

\* A metadata fault stays with its component; another ends the frame, and the
\* safe commands behind it go back in front of the newer ones.
Requeued == Without(Tail(pending), Kinds \ Safe) \o commands

BatchAbandoned == pending' = <<>>

CommandFaults ==
  /\ pc = "commands"
  /\ pending # <<>>
  /\ Head(pending).kind # "metadata"
  /\ RaisesFault
  /\ commands' = Requeued
  /\ BatchAbandoned
  /\ \/ UNCHANGED <<generation, census, sceneLoad>>
     \/ Head(pending).kind = "scene" /\ NewGeneration
  /\ UNCHANGED <<world, given, refresh, eventPending, settled, nextRevision, trees,
                 choice>>

MetadataFaults ==
  /\ pc = "commands"
  /\ pending # <<>>
  /\ Head(pending).kind = "metadata"
  /\ faults < MaxFaults
  /\ faults' = faults + 1
  /\ pending' = Tail(pending)
  /\ published' = hierarchy
  /\ UNCHANGED <<world, commands, given, pc, work, hierarchy, shown, choice, faulted, cut>>

CommandsDone ==
  /\ pc = "commands"
  /\ pending = <<>>
  /\ pc' = "rest"
  /\ UNCHANGED <<world, queue, work, trees, choice, fault>>

\* Up to the census: the pending scene load, the debounce and the focus.
Due == eventPending /\ settled
BeforeCensus(asked) ==
  /\ asked => sceneLoad
  /\ sceneLoad' \in IF asked THEN {FALSE} ELSE {sceneLoad, FALSE}
  /\ eventPending' = (eventPending /\ ~Due)
  /\ refresh' = FALSE
  /\ UNCHANGED <<settled, generation>>
Asked(asked) == refresh \/ asked \/ Due \/ census # None
FocusAfter == IF eventPending' THEN focus ELSE FocusUpdated

SkipsCensus ==
  /\ pc = "rest"
  /\ BeforeCensus(FALSE)
  /\ ~Asked(FALSE)
  /\ focus' = FocusAfter
  /\ pc' = "read"
  /\ UNCHANGED <<world, queue, nextRevision, census, trees, selected, liveData, fault>>

\* refresh_hierarchy: at least MinSlice objects a slice, then as time allows.  A
\* census that is under way is carried on, whatever was asked meanwhile.  (Its
\* test of the generation never fails: a SceneHint ends the census itself.)
Started == IF census = None THEN NewCensus ELSE [census EXCEPT !.late = @ \/ refresh \/ Due]
Visited(part) == [Started EXCEPT !.left = @ \ part,
                                 !.flat = @ \cup {o \in part : Exists(o)}]

CensusSlice ==
  /\ pc = "rest"
  /\ \E asked \in BOOLEAN : BeforeCensus(asked) /\ Asked(asked)
  /\ \E part \in SUBSET Started.left :
       /\ part # Started.left
       /\ Cardinality(part) >= MinSlice
       /\ census' = Visited(part)
  /\ nextRevision' = IF census = None THEN nextRevision + 1 ELSE nextRevision
  /\ focus' = FocusAfter
  /\ pc' = "read"
  /\ UNCHANGED <<world, queue, trees, selected, liveData, fault>>

\* Mutant: a selection that is gone is kept.
CensusKeepsAny == TRUE
CensusKeeps == selected \in hierarchy'.ids /\ Exists(selected)

\* The completed census replaces the tree and drops a selection it lacks.
CensusDone ==
  /\ pc = "rest"
  /\ \E asked \in BOOLEAN : BeforeCensus(asked) /\ Asked(asked)
  /\ hierarchy' = Tree(Visited(Started.left))
  /\ published' = hierarchy'
  /\ nextRevision' = IF census = None THEN nextRevision + 1 ELSE nextRevision
  /\ census' = None
  /\ IF CensusKeeps
       THEN UNCHANGED selected /\ focus' = FocusAfter
       ELSE ClearSelection
  /\ pc' = "late"
  /\ UNCHANGED <<world, queue, shown, liveData, fault>>

\* Live data, the highlight and the watches, each when its interval is due.
Reads ==
  /\ pc = "read"
  /\ \/ UNCHANGED <<selected, focus>>
     \/ /\ liveData /\ ~eventPending
        /\ selected # NoObject /\ ~Exists(selected)
        /\ ClearSelection
  /\ pc' = "late"
  /\ UNCHANGED <<world, queue, work, trees, liveData, fault>>

Settles ==
  /\ pc \in {"game", "late"}
  /\ eventPending /\ ~settled
  /\ settled' = TRUE
  /\ UNCHANGED <<world, queue, pc, refresh, eventPending, sceneLoad, generation,
                 nextRevision, census, trees, choice, fault>>

-----------------------------------------------------------------------------
(* The game, between two ticks *)

GameDestroys(o) ==
  /\ pc \in {"game", "late"}
  /\ life[o] = "live"
  /\ Len(commands) < MaxQueue
  /\ life' = Doomed(o)
  /\ commands' = Enqueued(commands, Event("destroyed", o))
  /\ UNCHANGED <<scene, pending, given, pc, work, trees, choice, fault>>

FrameEnds ==
  /\ pc = "late"
  /\ pc' = "game"
  /\ life' = [o \in Objects |-> IF life[o] = "doomed" THEN "dead" ELSE life[o]]
  /\ UNCHANGED <<scene, queue, work, trees, choice, fault>>

\* A load destroys the other scenes' objects, except scene 0's, which live on.
GameLoadsScene ==
  /\ pc \in {"game", "late"}
  /\ scene < MaxScenes
  /\ Len(commands) < MaxQueue
  /\ scene' = scene + 1
  /\ life' = [o \in Objects |->
                CASE SceneOf[o] = scene' -> "live"
                  [] SceneOf[o] = 0 \/ life[o] = "none" -> life[o]
                  [] OTHER -> "dead"]
  /\ commands' = Enqueued(commands, Event("scene", NoObject))
  /\ UNCHANGED <<pending, given, pc, work, trees, choice, fault>>

-----------------------------------------------------------------------------
(* The render thread *)

UiDraws ==
  /\ shown # published
  /\ shown' = published
  /\ UNCHANGED <<world, queue, pc, work, hierarchy, published, choice, fault>>

\* The tag is read from published_, not from the snapshot on the screen.
UiGives(kind, o) ==
  /\ given < MaxUi
  /\ Len(commands) < MaxQueue
  /\ given' = given + 1
  /\ commands' = Enqueued(commands,
       [kind |-> kind, obj |-> o, gen |-> published.gen,
        rev |-> IF kind \in Revised THEN shown.rev ELSE 0, seq |-> given'])
  /\ UNCHANGED <<world, pending, pc, work, trees, choice, fault>>

UiCommands ==
  \E kind \in UiKinds :
    IF kind \in NeedObject \cup {"metadata"}
      THEN \E o \in shown.ids : UiGives(kind, o)
      ELSE UiGives(kind, NoObject)

-----------------------------------------------------------------------------
EmptyTree == [rev |-> 0, gen |-> 0, late |-> FALSE, ids |-> {}]

\* start()
Init ==
  /\ life = [o \in Objects |-> IF SceneOf[o] \in {0, 1} THEN "live" ELSE "none"]
  /\ scene = 1
  /\ commands = <<>> /\ pending = <<>> /\ given = 0
  /\ pc = "game"
  /\ refresh = TRUE /\ eventPending = FALSE /\ settled = FALSE /\ sceneLoad = FALSE
  /\ generation = 1 /\ nextRevision = 1 /\ census = None
  /\ hierarchy = EmptyTree /\ published = EmptyTree /\ shown = EmptyTree
  /\ selected = NoObject /\ focus = NoObject /\ liveData = TRUE
  /\ faulted = FALSE /\ faults = 0 /\ cut = 0

Frame ==
  \/ FrameBegins \/ Recovers \/ Drains \/ RunsCommand \/ CommandsDone
  \/ SkipsCensus \/ CensusSlice \/ CensusDone \/ Reads \/ FrameEnds

Faults == FrameFaults \/ CommandFaults \/ MetadataFaults

Game == GameLoadsScene \/ \E o \in Objects : GameDestroys(o)

Next == Frame \/ Faults \/ Game \/ Settles \/ UiDraws \/ UiCommands

\* Unity calls the update every frame, ends every frame, and time passes.  The
\* user, the game and the faults are free.  (Time passes between ticks only, so
\* that it does is a strong fairness.)
Fairness == WF_vars(Frame) /\ SF_vars(Settles)

Spec == Init /\ [][Next]_vars /\ Fairness

-----------------------------------------------------------------------------
(* Properties *)

CommandSet == [kind : Kinds, obj : Objects \cup {NoObject}, gen : Nat, rev : Nat, seq : Nat]
TreeSet == [rev : Nat, gen : Nat, late : BOOLEAN, ids : SUBSET Objects]

TypeOK ==
  /\ life \in [Objects -> {"none", "live", "doomed", "dead"}]
  /\ commands \in Seq(CommandSet) /\ pending \in Seq(CommandSet)
  /\ pc \in {"game", "tick", "commands", "rest", "read", "late"}
  /\ faulted \in BOOLEAN /\ refresh \in BOOLEAN /\ liveData \in BOOLEAN
  /\ eventPending \in BOOLEAN /\ settled \in BOOLEAN /\ sceneLoad \in BOOLEAN
  /\ scene \in Nat /\ generation \in Nat /\ nextRevision \in Nat
  /\ given \in Nat /\ faults \in Nat /\ cut \in Nat
  /\ census = None \/ census \in [rev : Nat, gen : Nat, left : SUBSET Objects,
                                  flat : SUBSET Objects, late : BOOLEAN]
  /\ hierarchy \in TreeSet /\ published \in TreeSet /\ shown \in TreeSet
  /\ selected \in Objects \cup {NoObject} /\ focus \in Objects \cup {NoObject}
  /\ pc # "commands" => pending = <<>>

\* The camera is held on the selected object or not at all: every way of losing
\* or changing the selection, from a command, a destroy request, a census or the
\* recovery, gives the camera back first.
FocusOnSelection == focus # NoObject => focus = selected

\* What the user asked runs in the order it was asked, through the swap of the
\* queue, the coalescing, a fault in the middle of a batch and the requeue.
\* (Lifecycle events carry number 0 and are left out.)
OrderKept ==
  LET waiting == pending \o commands
      Given == {i \in DOMAIN waiting : waiting[i].seq # 0}
  IN  \A i, j \in Given : i < j => waiting[i].seq < waiting[j].seq

\* A command that does not look its target up again, given before a fault was
\* recovered from, is never run after the recovery.
DropsUnsafe ==
  ~faulted => \A i \in DOMAIN (pending \o commands) :
    LET c == (pending \o commands)[i] IN c.seq \in 1 .. cut => c.kind \in Safe

\* With no work left the tree shows no destroyed object ("Debounce the census
\* instead of silently keeping a stale tree", explorer_model.cpp:1098), but for the
\* one case the code leaves open: the refresh a destroy request had asked for came
\* due while a census was under way, which took its place.
Quiet == /\ commands = <<>> /\ pending = <<>> /\ pc = "game"
         /\ ~faulted /\ ~refresh /\ ~eventPending /\ census = None
TreeFresh == Quiet /\ ~published.late => \A o \in published.ids : life[o] # "dead"

\* No command of the user's is refused as one of an expired scene for ever: when
\* the game stops loading scenes, the published tree reaches the generation the
\* model is in, through faults and however often a census is cut short.
SceneCatchesUp == <>[](published.gen = generation)

\* A selected object that the game destroyed, with or without a request that
\* names it, is dropped, whether live data runs or not.
DeadSelectionLeaves ==
  \A o \in Objects : (selected = o /\ life[o] = "dead") ~> selected # o
=============================================================================

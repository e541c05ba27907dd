------------------------------- MODULE FieldWatch -------------------------------
(***************************************************************************)
(* Value watches (src/mod/explorer/model_field_watch.cpp).  A watch        *)
(* samples one member of one object every frame and keeps a bounded        *)
(* history of changes; when the member is a property with a setter it also *)
(* pins the object and hooks the setter through a method-trace session     *)
(* that the Traces panel does not show.  A change whose value is an object *)
(* retains that object behind a token of the shared handle table, so a     *)
(* watch owns a hook, a pin and a set of tokens that it has to give back   *)
(* on every way out.                                                       *)
(*                                                                         *)
(* Here each object has one member worth watching and Setter is its        *)
(* setter.  The kinds of owner a member can have, the alarm, the samples   *)
(* of the graph and the texts are left out.                                *)
(***************************************************************************)
EXTENDS RuntimeTables, Sequences, Functions

CONSTANTS
  Setter,       \* the setter of the watched member of an object
  MaxEvents     \* kMaxFieldWatchEvents

ASSUME WatchAssumption ==
  /\ Setter \in [Objects -> Methods]
  /\ MaxEvents \in Nat /\ MaxEvents > 1

VARIABLE watch  \* field_watches_

NoToken == 0

NoWatch == [open |-> FALSE, active |-> FALSE, trace |-> 0, pin |-> FALSE,
            current |-> NoToken, events |-> <<>>, baseline |-> FALSE]

Watch == [open : BOOLEAN, active : BOOLEAN, trace : 0..MaxTraceIds, pin : BOOLEAN,
          current : Tokens \union {NoToken}, events : Seq(Tokens \union {NoToken}),
          baseline : BOOLEAN]

WatchTypeOK ==
  /\ watch \in [Objects -> Watch]
  /\ \A o \in Objects : Len(watch[o].events) <= MaxEvents

\* What release_field_watch_references() releases.
TokensOf(w) == ({w.current} \union Range(w.events)) \ {NoToken}

\* watch_reference_for(): the token that retains v, none when v is no object or
\* could not be retained.  CanCapture is the bound on tokens.
CanCapture(h, v) == v # NoObject => FreeIn(h) # {}
TokenFor(h, v) == IF v = NoObject THEN NoToken ELSE LowToken(h)
Captured(h, v) == IF v = NoObject THEN h ELSE Rooted(h, LowToken(h), v, FALSE)

\* What the member may hold: a value or one of the objects; one that cannot be
\* retained reads like a value.
Readings == heap \union {NoObject}

-----------------------------------------------------------------------------
(* The hook on the setter *)

\* detach_setter_hook() unpins, then stops and closes the trace of each watch in W.
TracesOf(W) == UNION {WithId(watch[o].trace) : o \in {p \in W : watch[p].trace # 0}}
\* Mutant: the pin is returned and the hook left in place.
DetachedPin(W, late) == sessions
Detached(W, late) == LET M == TracesOf(W) IN Closed(Stopped(sessions, M, late), M)

\* attach_setter_hook() after its detach left s: the runtime may refuse the pin
\* or the hook.
Hooks(s, o, granted) == granted /\ Startable(s, Setter[o], o)

SetWatch(o) ==
  /\ o \in heap
  /\ \E v \in Readings, readable, granted \in BOOLEAN, late \in SUBSET TracesOf({o}) :
       LET s == Detached({o}, late)
           h == Released(handles, TokensOf(watch[o]))
           hooked == Hooks(s, o, granted)
       IN  /\ ~readable => v = NoObject
           /\ CanCapture(h, v)
           /\ hooked => Numbered(s, Setter[o])
           /\ handles' = Captured(h, v)
           /\ sessions' = IF hooked THEN Started(s, Setter[o], o, FALSE, "watch") ELSE s
           /\ lastTrace' = IF hooked /\ s[Setter[o]].id = 0 THEN lastTrace + 1 ELSE lastTrace
           /\ watch' = [watch EXCEPT ![o] =
                [open |-> TRUE, active |-> TRUE, pin |-> hooked,
                 trace |-> IF hooked THEN sessions'[Setter[o]].id ELSE 0,
                 current |-> TokenFor(h, v), events |-> <<>>, baseline |-> readable]]
  /\ UNCHANGED heap

StopWatch(o) ==
  /\ watch[o].active
  /\ \E late \in SUBSET TracesOf({o}) : sessions' = Detached({o}, late)
  /\ watch' = [watch EXCEPT ![o].active = FALSE, ![o].pin = FALSE, ![o].trace = 0]
  /\ UNCHANGED <<lastTrace, handles, heap>>

\* "Stop a field watch before closing it".
CloseWatch(o) ==
  /\ watch[o].open
  /\ ~watch[o].active
  /\ \E late \in SUBSET TracesOf({o}) : sessions' = Detached({o}, late)
  /\ handles' = Released(handles, TokensOf(watch[o]))
  /\ watch' = [watch EXCEPT ![o] = NoWatch]
  /\ UNCHANGED <<lastTrace, heap>>

ClearWatch(o) ==
  /\ watch[o].open
  /\ handles' = Released(handles, TokensOf(watch[o]))
  /\ watch' = [watch EXCEPT ![o].current = NoToken, ![o].events = <<>>, ![o].baseline = FALSE]
  /\ UNCHANGED <<sessions, lastTrace, heap>>

ReleaseAllWatches ==
  /\ \E late \in SUBSET TracesOf(Objects) : sessions' = Detached(Objects, late)
  /\ handles' = Released(handles, UNION {TokensOf(watch[o]) : o \in Objects})
  /\ watch' = [o \in Objects |-> NoWatch]
  /\ UNCHANGED <<lastTrace, heap>>

-----------------------------------------------------------------------------
(* One sample: a pass of refresh_field_watches() over one watch.  The passes *)
(* over two watches touch nothing of one another.                            *)

\* The newest event holds the current token too; only otherwise is it released here.
Outdated(w) ==
  IF w.events # <<>> /\ w.events[Len(w.events)] = w.current THEN {} ELSE {w.current}

\* A full history drops its oldest event with the token that event holds.
Dropped(w) == IF Len(w.events) = MaxEvents THEN {Head(w.events)} ELSE {}
Kept(w) == IF Len(w.events) = MaxEvents THEN Tail(w.events) ELSE w.events

\* A session that is no longer active is forgotten; the pin stays.
Signalled(w) == IF \E m \in WithId(w.trace) : sessions[m].active THEN w.trace ELSE 0

\* The target was collected: only the sampling ends.
WatchLost(o) ==
  /\ watch[o].active
  /\ o \notin heap
  /\ watch' = [watch EXCEPT ![o].active = FALSE]
  /\ UNCHANGED tables

WatchBaseline(o) ==
  /\ watch[o].active /\ o \in heap
  /\ ~watch[o].baseline
  /\ \E v \in Readings :
       LET h == Released(handles, {watch[o].current})
       IN  /\ CanCapture(h, v)
           /\ handles' = Captured(h, v)
           /\ watch' = [watch EXCEPT ![o].trace = Signalled(watch[o]), ![o].baseline = TRUE,
                                     ![o].current = TokenFor(h, v)]
  /\ UNCHANGED <<sessions, lastTrace, heap>>

WatchSame(o) ==
  /\ watch[o].active /\ o \in heap
  /\ watch[o].baseline
  /\ watch' = [watch EXCEPT ![o].trace = Signalled(watch[o])]
  /\ UNCHANGED tables

WatchChange(o) ==
  /\ watch[o].active /\ o \in heap
  /\ watch[o].baseline
  /\ \E v \in Readings :
       LET h == Released(handles, Outdated(watch[o]) \union Dropped(watch[o]))
       IN  /\ CanCapture(h, v)
           /\ handles' = Captured(h, v)
           /\ watch' = [watch EXCEPT ![o].trace = Signalled(watch[o]),
                                     ![o].current = TokenFor(h, v),
                                     ![o].events = Append(Kept(watch[o]), TokenFor(h, v))]
  /\ UNCHANGED <<sessions, lastTrace, heap>>

WatchNext ==
  \/ \E o \in Objects : \/ SetWatch(o) \/ StopWatch(o) \/ CloseWatch(o) \/ ClearWatch(o)
                        \/ WatchLost(o) \/ WatchBaseline(o) \/ WatchSame(o) \/ WatchChange(o)
  \/ ReleaseAllWatches

WatchInit == watch = [o \in Objects |-> NoWatch]
=============================================================================

----------------------------- MODULE RuntimeTables -----------------------------
(***************************************************************************)
(* Two tables of the explorer that several of its parts write on Unity's   *)
(* main thread.                                                            *)
(*                                                                         *)
(* sessions is what src/mod/explorer/method_tracer.cpp keeps of each       *)
(* traced method, seen through its control interface: start, stop, close   *)
(* and the retry of a pending detach.  What happens inside a session, the  *)
(* hook, the stub and the calls, is module MethodTracer; here a call that  *)
(* keeps a stop from detaching is the choice late.  Every session here is  *)
(* one without return capture, so that close() can give its slot back.     *)
(*                                                                         *)
(* handles is the part of RuntimeModel::reference_handles_ whose tokens    *)
(* have the scope 0xb: the one scope that clearing the component cache and *)
(* the Object Inspector leaves alone, so that each such handle lives until *)
(* whoever asked for it releases it.  heap is the managed objects that the *)
(* collector has not freed.                                                *)
(***************************************************************************)
EXTENDS Naturals, FiniteSets

CONSTANTS
  Objects,      \* the managed objects that are watched, captured and written
  Methods,      \* the methods that can be traced
  Tokens,       \* bound: the tokens of handles, numbers from 1
  MaxSessions,  \* max_sessions
  MaxTraceIds,  \* bound: sessions created in all
  NoObject

ASSUME TablesAssumption ==
  /\ NoObject \notin Objects
  /\ Tokens \subseteq Nat \ {0} /\ IsFiniteSet(Tokens)
  /\ MaxSessions \in Nat
  /\ MaxTraceIds \in Nat

VARIABLES sessions, lastTrace, handles, heap
tables == <<sessions, lastTrace, handles, heap>>

-----------------------------------------------------------------------------
(* MethodTracer's sessions.  armedBy is no field of the code: it says who    *)
(* started the session last.                                                 *)

Session == [id : 0..MaxTraceIds, active : BOOLEAN, visible : BOOLEAN, pending : BOOLEAN,
            scope : Objects \union {NoObject}, armedBy : {"nobody", "user", "mcp", "watch"}]

NoSession == [id |-> 0, active |-> FALSE, visible |-> FALSE, pending |-> FALSE,
              scope |-> NoObject, armedBy |-> "nobody"]

Retained == {m \in Methods : sessions[m].id # 0}

WithId(id) == {m \in Retained : sessions[m].id = id}

\* start() accepts a method without a session while a slot is free, and one
\* whose session is stopped and has the same instance filter.
Startable(s, m, scope) ==
  IF s[m].id = 0 THEN Cardinality({n \in Methods : s[n].id # 0}) < MaxSessions
                 ELSE ~s[m].active /\ s[m].scope = scope

\* The bound on ids applies only to a start that creates a session.
Numbered(s, m) == s[m].id = 0 => lastTrace < MaxTraceIds

Started(s, m, scope, visible, who) ==
  IF s[m].id = 0
    THEN [s EXCEPT ![m] = [id |-> lastTrace + 1, active |-> TRUE, visible |-> visible,
                           pending |-> FALSE, scope |-> scope, armedBy |-> who]]
    ELSE [s EXCEPT ![m].active = TRUE, ![m].visible = @ \/ visible, ![m].armedBy = who]

\* stop() of the sessions in M; those in late keep their hook until a retry.
Stopped(s, M, late) ==
  [m \in Methods |-> IF m \in M /\ s[m].active
                       THEN [s[m] EXCEPT !.active = FALSE, !.pending = m \in late]
                       ELSE s[m]]

\* close() of one session: a stopped session whose detach is done is erased.
Closed(s, M) ==
  [m \in Methods |-> IF m \in M /\ ~s[m].active /\ ~s[m].pending THEN NoSession ELSE s[m]]

\* The retry of pending detaches that publishing a snapshot makes.
Drained(s, M) == [m \in Methods |-> IF m \in M THEN [s[m] EXCEPT !.pending = FALSE] ELSE s[m]]

-----------------------------------------------------------------------------
(* reference_handles_ and the collector *)

Handle == [obj : Objects \union {NoObject}, strong : BOOLEAN]
Free == [obj |-> NoObject, strong |-> FALSE]

Held == {t \in Tokens : handles[t] # Free}

\* next_reference_token_ gives a token that is not in use (the bound: as long as
\* there is one); which one does not matter, and the watches and the tools take
\* theirs from the two ends.
FreeIn(h) == {t \in Tokens : h[t] = Free}
LowToken(h) == CHOOSE t \in FreeIn(h) : \A u \in FreeIn(h) : t <= u
HighToken(h) == CHOOSE t \in FreeIn(h) : \A u \in FreeIn(h) : t >= u

Rooted(h, t, obj, strong) == [h EXCEPT ![t] = [obj |-> obj, strong |-> strong]]

\* release_reference_handle() of each token in T.
Released(h, T) == [t \in Tokens |-> IF t \in T THEN Free ELSE h[t]]

TablesInit ==
  /\ sessions = [m \in Methods |-> NoSession]
  /\ lastTrace = 0
  /\ handles = [t \in Tokens |-> Free]
  /\ heap = Objects

TablesTypeOK ==
  /\ sessions \in [Methods -> Session]
  /\ lastTrace \in 0..MaxTraceIds
  /\ handles \in [Tokens -> Handle]
  /\ heap \subseteq Objects
=============================================================================

---------------------------- MODULE MethodTracer ----------------------------
(***************************************************************************)
(* The hook sessions of Explorer::MethodTracer: control operations that    *)
(* attach, drain, detach and free native hooks while game threads run      *)
(* through them.                                                           *)
(*                                                                         *)
(* Game threads never take control_mutex.  A call that reaches a detour    *)
(* enters the session's flight gate (enter_flight), records, and leaves    *)
(* the gate (leave_flight); with return capture it stays inside the gate   *)
(* until the method returns through the stub.  Control operations hold     *)
(* control_mutex and interleave with the calls at every atomic access.     *)
(*                                                                         *)
(* A call here is one activation of a traced method: a recursive call on   *)
(* the same thread is another member of Calls.                             *)
(***************************************************************************)
EXTENDS Naturals, FiniteSets

CONSTANTS
  Methods,      \* managed methods that can be traced
  Calls,        \* activations of traced methods
  Tiny,         \* methods whose entry is too short for a branch (PatchFit)
  Inlined,      \* methods with a copy or call site that can be hooked instead
  MaxSessions,  \* max_sessions, 12 in the code
  CountMask,    \* flight_count_mask, 2^63 - 1 in the code
  MaxPatches    \* bound: hooks the loader stacks on one address

ASSUME MethodsAssumption ==
  /\ Methods # {}
  /\ Tiny \subseteq Methods
  /\ Inlined \subseteq Methods
ASSUME CallsAssumption == IsFiniteSet(Calls)
ASSUME BoundsAssumption ==
  /\ MaxSessions \in Nat \ {0}
  /\ CountMask \in Nat \ {0}
  /\ MaxPatches \in Nat \ {0}

VARIABLES
  session,  \* HookSession of each method; open is membership in g_state.sessions
  flight,   \* flight_state: the accepting bit and the count bits of one word
  patch,    \* loader: branches written at the entry (mid, stub) and at a site
  call,     \* where each activation is
  ctl,      \* the operation that holds control_mutex
  watched,  \* methods whose setter hook a field watch owns
  phase     \* progress of shutdown()

vars == <<session, flight, patch, call, ctl, watched, phase>>

Session == [open: BOOLEAN, captures_return: BOOLEAN, instance_filter: BOOLEAN,
            visible: BOOLEAN, active: BOOLEAN, detach_pending: BOOLEAN,
            stub: BOOLEAN, mid_hook: BOOLEAN,
            inline_hooks: BOOLEAN, site_hook: BOOLEAN]

Closed == [open |-> FALSE, captures_return |-> FALSE, instance_filter |-> FALSE,
           visible |-> FALSE, active |-> FALSE, detach_pending |-> FALSE,
           stub |-> FALSE, mid_hook |-> FALSE,
           inline_hooks |-> FALSE, site_hook |-> FALSE]

Gate == [accepting: BOOLEAN, count: 0..CountMask]
OpenGate == [accepting |-> TRUE, count |-> 0]

\* How many branches the loader keeps at the entry, by kind, and at the site.
Patch == [mid: 0..MaxPatches, stub: 0..MaxPatches, site: 0..MaxPatches]

AnyMethod == CHOOSE m \in Methods : TRUE

Ops == {"none", "new", "start", "stop", "unwatch", "clear", "capture", "poll"}
Steps == {"idle", "gate", "drain", "detach", "release", "convert", "reset",
          "attach", "reopen", "activate", "close"}
CtlState == [op: Ops, m: Methods, at: Steps, resume: BOOLEAN]
Idle == [op |-> "none", m |-> AnyMethod, at |-> "idle", resume |-> FALSE]

\* A call is counted between enter_flight and leave_flight.  In prologue, tail
\* and epilogue it executes detour code without being counted.
Counted == {"entered", "writing", "body"}
Uncounted == {"prologue", "tail", "epilogue"}
CallState == [pc: {"out", "lost"} \cup Counted \cup Uncounted,
              m: Methods, via: {"mid", "stub", "site"}]
Outside == [pc |-> "out", m |-> AnyMethod, via |-> "mid"]

TypeOK ==
  /\ session \in [Methods -> Session]
  /\ flight \in [Methods -> Gate]
  /\ patch \in [Methods -> Patch]
  /\ call \in [Calls -> CallState]
  /\ ctl \in CtlState
  /\ watched \subseteq Methods
  /\ phase \in {"running", "stopping", "retrying", "down", "deferred"}

Init ==
  /\ session = [m \in Methods |-> Closed]
  /\ flight = [m \in Methods |-> OpenGate]
  /\ patch = [m \in Methods |-> [mid |-> 0, stub |-> 0, site |-> 0]]
  /\ call = [c \in Calls |-> Outside]
  /\ ctl = Idle
  /\ watched = {}
  /\ phase = "running"

InFlight(m) == {c \in Calls : call[c].m = m /\ call[c].pc \in Counted}

-----------------------------------------------------------------------------
(***************************************************************************)
(* Calls on game threads.                                                  *)
(***************************************************************************)

\* Mutant: the completion leaves twice.
LeaveFlightTwice(gate) ==
  IF gate.count > 0
  THEN [gate EXCEPT !.count = @ - 2]
  ELSE [accepting |-> ~gate.accepting, count |-> CountMask]

\* fetch_sub(1) on the whole word: with no count left it borrows from the
\* accepting bit and wraps the count to its mask.
LeaveFlight(gate) ==
  IF gate.count > 0
  THEN [gate EXCEPT !.count = @ - 1]
  ELSE [accepting |-> ~gate.accepting, count |-> CountMask]

\* Leaving a mid-function or site callback ends the call; leaving the entry
\* stub goes on to its tail, which jumps to the original method.
LeaveEntry(c) == IF call[c].via = "stub" THEN [call[c] EXCEPT !.pc = "tail"] ELSE Outside

\* The method is called (or its inlined copy reached) while a hook is installed.
ReachHook(c, m, via) ==
  /\ call[c].pc = "out"
  /\ session[m].open
  /\ \/ via = "mid" /\ patch[m].mid > 0
     \/ via = "stub" /\ patch[m].stub > 0
     \/ via = "site" /\ session[m].site_hook
  /\ call' = [call EXCEPT ![c] = [pc |-> "prologue", m |-> m, via |-> via]]
  /\ UNCHANGED <<session, flight, patch, ctl, watched, phase>>

EnterFlight(c) ==
  LET m == call[c].m IN
  /\ call[c].pc = "prologue"
  /\ IF flight[m].accepting /\ flight[m].count # CountMask
     THEN /\ flight' = [flight EXCEPT ![m].count = @ + 1]
          /\ call' = [call EXCEPT ![c].pc = "entered"]
     ELSE /\ call' = [call EXCEPT ![c] = LeaveEntry(c)]
          /\ UNCHANGED flight
  /\ UNCHANGED <<session, patch, ctl, watched, phase>>

\* A call that finds the session inactive, or runs on another instance than the
\* one the trace is scoped to, leaves without claiming a record.
SkipRecord(c) ==
  LET m == call[c].m IN
  /\ call[c].pc = "entered"
  /\ ~session[m].active \/ session[m].instance_filter
  /\ flight' = [flight EXCEPT ![m] = LeaveFlight(@)]
  /\ call' = [call EXCEPT ![c] = LeaveEntry(c)]
  /\ UNCHANGED <<session, patch, ctl, watched, phase>>

ClaimRecord(c) ==
  /\ call[c].pc = "entered"
  /\ session[call[c].m].active
  /\ call' = [call EXCEPT ![c].pc = "writing"]
  /\ UNCHANGED <<session, flight, patch, ctl, watched, phase>>

\* The record is written.  Only the stub pushes a return context, and a native
\* fault or a full context stack (max_return_depth) leaves none.
RecordEntry(c) ==
  LET m == call[c].m IN
  /\ call[c].pc = "writing"
  /\ \/ /\ call[c].via = "stub"
        /\ call' = [call EXCEPT ![c].pc = "body"]
        /\ UNCHANGED flight
     \/ /\ flight' = [flight EXCEPT ![m] = LeaveFlight(@)]
        /\ call' = [call EXCEPT ![c] = LeaveEntry(c)]
  /\ UNCHANGED <<session, patch, ctl, watched, phase>>

\* The method returns into the stub, which records the result.
RecordReturn(c) ==
  LET m == call[c].m IN
  /\ call[c].pc = "body"
  /\ flight' = [flight EXCEPT ![m] = LeaveFlight(@)]
  /\ call' = [call EXCEPT ![c].pc = "epilogue"]
  /\ UNCHANGED <<session, patch, ctl, watched, phase>>

\* The last instructions of the stub jump to the original or to the caller.
LeaveStub(c) ==
  /\ call[c].pc \in {"tail", "epilogue"}
  /\ call' = [call EXCEPT ![c] = Outside]
  /\ UNCHANGED <<session, flight, patch, ctl, watched, phase>>

CallStep(c) ==
  \/ \E m \in Methods, via \in {"mid", "stub", "site"} : ReachHook(c, m, via)
  \/ EnterFlight(c)
  \/ SkipRecord(c)
  \/ ClaimRecord(c)
  \/ RecordEntry(c)
  \/ RecordReturn(c)
  \/ LeaveStub(c)

-----------------------------------------------------------------------------
(***************************************************************************)
(* Freeing memory that detour code runs in.  An uncounted call that is     *)
(* still there has undefined behaviour from then on: it is lost.           *)
(***************************************************************************)
Lose(C) == call' = [c \in Calls |-> IF c \in C THEN [Outside EXCEPT !.pc = "lost"] ELSE call[c]]

\* VirtualFree of the stub: calls in its entry, tail or return code.
InStub(m) == {c \in Calls : /\ call[c].m = m
                            /\ call[c].via = "stub"
                            /\ call[c].pc \in Uncounted}

\* ~HookSession: calls that still have to look at the session's gate.
BeforeGate(m) == {c \in Calls : call[c].m = m /\ call[c].pc = "prologue"}

-----------------------------------------------------------------------------
(***************************************************************************)
(* Control operations.  Each takes control_mutex in its first step and     *)
(* holds it until ctl is idle again.                                       *)
(***************************************************************************)
Ready == ctl.at = "idle" /\ phase = "running"

Begin(op, m, at, resume) == ctl' = [op |-> op, m |-> m, at |-> at, resume |-> resume]
Goto(at) == ctl' = [ctl EXCEPT !.at = at]

\* detach_setter_hook calls stop and then close.
Finish == IF ctl.op = "unwatch" THEN Goto("close") ELSE ctl' = Idle

\* start() for a method without a session.  A field watch filters on its
\* instance, is hidden and records no return values; only a trace a person
\* started scans for inlined copies.  A tiny entry drops the return capture
\* after the stub was allocated.
StartNew(m, capture_return, watch) ==
  /\ Ready
  /\ ~session[m].open
  /\ Cardinality({n \in Methods : session[n].open}) < MaxSessions
  /\ watch => ~capture_return
  /\ session' = [session EXCEPT ![m] =
       [Closed EXCEPT !.open = TRUE,
                      !.captures_return = capture_return /\ m \notin Tiny,
                      !.stub = capture_return,
                      !.instance_filter = watch,
                      !.visible = ~watch,
                      !.inline_hooks = ~watch /\ m \in Inlined]]
  /\ flight' = [flight EXCEPT ![m] = OpenGate]
  /\ Begin("new", m, "attach", FALSE)
  /\ UNCHANGED <<patch, call, watched, phase>>

\* start() for a method that has a stopped session.  It looks at active, the
\* capture setting and the filter, and not at detach_pending.
StartExisting(m) ==
  /\ Ready
  /\ session[m].open
  /\ ~session[m].active
  /\ Begin("start", m, "reset", FALSE)
  /\ UNCHANGED <<session, flight, patch, call, watched, phase>>

ResetRecords ==
  /\ ctl.at = "reset"
  /\ IF ctl.op = "clear"
     THEN IF ctl.resume THEN Goto("reopen") ELSE Finish
     ELSE Goto("attach")
  /\ UNCHANGED <<session, flight, patch, call, watched, phase>>

\* attach_session: the site hooks first, then the entry hook the session is
\* configured for; the loader may refuse either.  Without a stub there is no
\* detour to attach.
NewSite(m, ok) ==
  /\ session[m].inline_hooks /\ ~session[m].site_hook
  /\ ok /\ patch[m].site < MaxPatches

NewMid(m, ok) ==
  /\ m \notin Tiny /\ ~session[m].captures_return
  /\ ok /\ patch[m].mid < MaxPatches

NewStub(m, ok) ==
  /\ m \notin Tiny /\ session[m].captures_return /\ session[m].stub
  /\ ok /\ patch[m].stub < MaxPatches

Attached(m, sitesOk, entryOk) ==
  IF m \in Tiny
  THEN session[m].inline_hooks /\ (session[m].site_hook \/ NewSite(m, sitesOk))
  ELSE NewMid(m, entryOk) \/ NewStub(m, entryOk)

\* The handles as attach_session leaves them: a refused mid_attach returns null.
Hooked(m, sitesOk, entryOk) ==
  [session[m] EXCEPT
     !.site_hook = session[m].site_hook \/ NewSite(m, sitesOk),
     !.mid_hook = IF m \in Tiny \/ session[m].captures_return
                  THEN session[m].mid_hook ELSE NewMid(m, entryOk)]

Patched(m, sitesOk, entryOk) ==
  [mid |-> IF NewMid(m, entryOk) THEN patch[m].mid + 1 ELSE patch[m].mid,
   stub |-> IF NewStub(m, entryOk) THEN patch[m].stub + 1 ELSE patch[m].stub,
   site |-> IF NewSite(m, sitesOk) THEN patch[m].site + 1 ELSE patch[m].site]

\* A refused attach leaves what was installed before it.  A new session is
\* destroyed then, and a capture request falls back to an entry-hook session
\* without its hook.
AttachRefused(m, hooked) ==
  /\ ctl' = Idle
  /\ CASE ctl.op = "new" ->
            /\ session' = [session EXCEPT ![m] = Closed]
            /\ Lose(InStub(m) \cup BeforeGate(m))
       [] ctl.op = "capture" ->
            /\ session' = [session EXCEPT ![m] =
                 [hooked EXCEPT !.captures_return = FALSE, !.stub = FALSE]]
            /\ Lose(InStub(m))
       [] OTHER ->
            /\ session' = [session EXCEPT ![m] = hooked]
            /\ UNCHANGED call

AttachWith(m, sitesOk, entryOk) ==
  /\ patch' = [patch EXCEPT ![m] = Patched(m, sitesOk, entryOk)]
  /\ IF Attached(m, sitesOk, entryOk)
     THEN /\ session' = [session EXCEPT ![m] = Hooked(m, sitesOk, entryOk)]
          /\ Goto(IF ctl.op = "new" THEN "activate" ELSE "reopen")
          /\ UNCHANGED call
     ELSE AttachRefused(m, Hooked(m, sitesOk, entryOk))

Attach ==
  /\ ctl.at = "attach"
  /\ \E sitesOk, entryOk \in BOOLEAN : AttachWith(ctl.m, sitesOk, entryOk)
  /\ UNCHANGED <<flight, watched, phase>>

\* Mutant: the gate stays closed after a restart.
ReopenForgotten ==
  /\ ctl.at = "reopen"
  /\ Goto("activate")
  /\ UNCHANGED <<session, flight, patch, call, watched, phase>>

\* flight_state.store(flight_accepting): whatever was counted is forgotten.
Reopen ==
  /\ ctl.at = "reopen"
  /\ flight' = [flight EXCEPT ![ctl.m] = OpenGate]
  /\ Goto("activate")
  /\ UNCHANGED <<session, patch, call, watched, phase>>

Activate ==
  LET m == ctl.m IN
  /\ ctl.at = "activate"
  /\ session' = [session EXCEPT ![m] =
       [session[m] EXCEPT !.active = TRUE,
                          !.visible = session[m].visible \/ ~session[m].instance_filter]]
  /\ watched' = IF session[m].instance_filter THEN watched \cup {m} ELSE watched
  /\ ctl' = Idle
  /\ UNCHANGED <<flight, patch, call, phase>>

\* stop(method) and stop(id): deactivate() of an active session.
Stop(m) ==
  /\ Ready
  /\ session[m].open /\ session[m].active
  /\ session' = [session EXCEPT ![m].active = FALSE]
  /\ Begin("stop", m, "gate", FALSE)
  /\ UNCHANGED <<flight, patch, call, watched, phase>>

\* RuntimeModel::detach_setter_hook: stop and close the watch's hidden trace.
Unwatch(m) ==
  /\ Ready
  /\ m \in watched
  /\ watched' = watched \ {m}
  /\ session' = [session EXCEPT ![m].active = FALSE]
  /\ Begin("unwatch", m, IF session[m].active THEN "gate" ELSE "close", FALSE)
  /\ UNCHANGED <<flight, patch, call, phase>>

\* clear(): the gate is closed only for an active session, which resumes after.
Clear(m) ==
  /\ Ready
  /\ session[m].open /\ session[m].visible
  /\ ~session[m].detach_pending
  /\ session' = [session EXCEPT ![m].active = FALSE]
  /\ Begin("clear", m, IF session[m].active THEN "gate" ELSE "drain", session[m].active)
  /\ UNCHANGED <<flight, patch, call, watched, phase>>

\* Mutant: a pending session is converted too.
CapturePendingReturns(m) ==
  /\ Ready
  /\ session[m].open /\ session[m].visible
  /\ ~session[m].captures_return
  /\ session' = [session EXCEPT ![m].active = FALSE]
  /\ Begin("capture", m, IF session[m].active THEN "gate" ELSE "convert", FALSE)
  /\ UNCHANGED <<flight, patch, call, watched, phase>>

\* capture_returns(): an active session is deactivated first.
CaptureReturns(m) ==
  /\ Ready
  /\ session[m].open /\ session[m].visible
  /\ ~session[m].captures_return
  /\ ~session[m].detach_pending
  /\ session' = [session EXCEPT ![m].active = FALSE]
  /\ Begin("capture", m, IF session[m].active THEN "gate" ELSE "convert", FALSE)
  /\ UNCHANGED <<flight, patch, call, watched, phase>>

CloseGate ==
  /\ ctl.at = "gate"
  /\ flight' = [flight EXCEPT ![ctl.m].accepting = FALSE]
  /\ Goto("drain")
  /\ UNCHANGED <<session, patch, call, watched, phase>>

\* Mutant: the gate is closed and the wait left out.
DrainSkipped ==
  /\ ctl.at = "drain"
  /\ Goto(IF ctl.op = "clear" THEN "reset" ELSE "detach")
  /\ UNCHANGED <<session, flight, patch, call, watched, phase>>

\* The 50 ms wait sees no counted call.
Drained ==
  /\ ctl.at = "drain"
  /\ flight[ctl.m].count = 0
  /\ Goto(IF ctl.op = "clear" THEN "reset" ELSE "detach")
  /\ UNCHANGED <<session, flight, patch, call, watched, phase>>

\* Mutant: the wait has no deadline.
DrainUnbounded ==
  /\ ctl.at = "drain"
  /\ flight[ctl.m].count # 0
  /\ UNCHANGED vars

\* Mutant: clear() goes on when its wait times out.
DrainTimeoutCleared ==
  /\ ctl.at = "drain"
  /\ flight[ctl.m].count # 0
  /\ IF ctl.op = "clear" /\ ctl.resume
     THEN Goto("reopen") /\ UNCHANGED session
     ELSE /\ session' = [session EXCEPT ![ctl.m].detach_pending = TRUE]
          /\ Finish
  /\ UNCHANGED <<flight, patch, call, watched, phase>>

\* The 50 ms wait ends with a counted call: the hook stays installed.
DrainTimeout ==
  /\ ctl.at = "drain"
  /\ flight[ctl.m].count # 0
  /\ session' = [session EXCEPT ![ctl.m].detach_pending = TRUE]
  /\ Finish
  /\ UNCHANGED <<flight, patch, call, watched, phase>>

\* detach_session: the site hooks, then the entry hook.  In stub mode a site
\* that stays keeps the detour too; in mid mode the entry hook goes anyway.
DropSite(m, ok) == session[m].site_hook /\ ok
DropMid(m, ok) == ~session[m].captures_return /\ session[m].mid_hook /\ ok
HasDetour(m) == session[m].captures_return /\ session[m].stub /\ m \notin Tiny

Less(n, drop) == IF drop /\ n > 0 THEN n - 1 ELSE n

DetachWith(m, sitesOk, entryOk) ==
  LET dropStub == HasDetour(m) /\ entryOk /\ (session[m].site_hook => sitesOk)
      detached == /\ session[m].site_hook => sitesOk
                  /\ HasDetour(m) \/ (~session[m].captures_return /\ session[m].mid_hook)
                     => entryOk IN
  /\ patch' = [patch EXCEPT ![m] =
       [mid |-> Less(patch[m].mid, DropMid(m, entryOk)),
        stub |-> Less(patch[m].stub, dropStub),
        site |-> Less(patch[m].site, DropSite(m, sitesOk))]]
  /\ session' = [session EXCEPT ![m] =
       [session[m] EXCEPT
          !.site_hook = session[m].site_hook /\ ~DropSite(m, sitesOk),
          !.mid_hook = session[m].mid_hook /\ ~DropMid(m, entryOk),
          !.detach_pending = session[m].detach_pending \/ ~detached]]
  /\ IF detached THEN Goto("release") ELSE Finish

Detach ==
  /\ ctl.at = "detach"
  /\ \E sitesOk, entryOk \in BOOLEAN : DetachWith(ctl.m, sitesOk, entryOk)
  /\ UNCHANGED <<flight, call, watched, phase>>

\* Mutant: the stub is kept after the detach.
ReleaseKeepsStub ==
  LET m == ctl.m IN
  /\ ctl.at = "release"
  /\ session' = [session EXCEPT ![m].detach_pending = FALSE]
  /\ IF ctl.op = "capture" THEN Goto("convert") ELSE Finish
  /\ UNCHANGED <<flight, patch, call, watched, phase>>

Release ==
  LET m == ctl.m IN
  /\ ctl.at = "release"
  /\ session' = [session EXCEPT ![m] = [session[m] EXCEPT !.detach_pending = FALSE, !.stub = FALSE]]
  /\ IF session[m].stub THEN Lose(InStub(m)) ELSE UNCHANGED call
  /\ IF ctl.op = "capture" THEN Goto("convert") ELSE Finish
  /\ UNCHANGED <<flight, patch, watched, phase>>

\* capture_returns() after the session is quiet: it needs the entry hook gone
\* and a new stub, which may not be allocated.
Convert ==
  LET m == ctl.m IN
  /\ ctl.at = "convert"
  /\ \/ /\ ~session[m].mid_hook
        /\ session' = [session EXCEPT ![m] = [session[m] EXCEPT !.stub = TRUE, !.captures_return = TRUE]]
        /\ Goto("reset")
     \/ /\ ctl' = Idle
        /\ UNCHANGED session
  /\ UNCHANGED <<flight, patch, call, watched, phase>>

\* close(): a session with memory or calls of its own is only hidden.
CloseSession(m) ==
  IF session[m].open /\ ~session[m].active /\ ~session[m].detach_pending
  THEN IF ~session[m].stub /\ ~session[m].mid_hook /\ flight[m].count = 0
       THEN session' = [session EXCEPT ![m] = Closed] /\ Lose(BeforeGate(m))
       ELSE session' = [session EXCEPT ![m].visible = FALSE] /\ UNCHANGED call
  ELSE UNCHANGED <<session, call>>

Close(m) ==
  /\ Ready
  /\ session[m].open /\ session[m].visible
  /\ CloseSession(m)
  /\ UNCHANGED <<flight, patch, ctl, watched, phase>>

CloseWatch ==
  /\ ctl.at = "close"
  /\ CloseSession(ctl.m)
  /\ ctl' = Idle
  /\ UNCHANGED <<flight, patch, watched, phase>>

\* Mutant: the retry does not look at the flight count.
PollBlindly(m) ==
  /\ ctl.at = "idle"
  /\ phase \in {"running", "retrying"}
  /\ session[m].open /\ session[m].detach_pending
  /\ Begin("poll", m, "detach", FALSE)
  /\ UNCHANGED <<session, flight, patch, call, watched, phase>>

\* retry_pending_detach for one session, from snapshots() and from shutdown().
Poll(m) ==
  /\ ctl.at = "idle"
  /\ phase \in {"running", "retrying"}
  /\ session[m].open /\ session[m].detach_pending
  /\ flight[m].count = 0
  /\ Begin("poll", m, "detach", FALSE)
  /\ UNCHANGED <<session, flight, patch, call, watched, phase>>

BeginShutdown ==
  /\ Ready
  /\ phase' = "stopping"
  /\ UNCHANGED <<session, flight, patch, call, ctl, watched>>

\* stop_all(): deactivate() of every active session.
StopAllNext(m) ==
  /\ phase = "stopping" /\ ctl.at = "idle"
  /\ session[m].open /\ session[m].active
  /\ session' = [session EXCEPT ![m].active = FALSE]
  /\ Begin("stop", m, "gate", FALSE)
  /\ UNCHANGED <<flight, patch, call, watched, phase>>

StopAllDone ==
  /\ phase = "stopping" /\ ctl.at = "idle"
  /\ \A m \in Methods : ~session[m].active
  /\ phase' = "retrying"
  /\ UNCHANGED <<session, flight, patch, call, ctl, watched>>

\* Nothing is pending any more: free the remaining stubs and the sessions.
FinishShutdown ==
  /\ phase = "retrying" /\ ctl.at = "idle"
  /\ \A m \in Methods : ~session[m].detach_pending
  /\ session' = [m \in Methods |-> Closed]
  /\ Lose(UNION {(IF session[m].stub THEN InStub(m) ELSE {})
                  \cup (IF session[m].open THEN BeforeGate(m) ELSE {}) : m \in Methods})
  /\ phase' = "down"
  /\ UNCHANGED <<flight, patch, ctl, watched>>

\* Mutant: the retry loop has no deadline.
GiveUpNever ==
  /\ phase = "retrying" /\ ctl.at = "idle"
  /\ \E m \in Methods : session[m].detach_pending
  /\ UNCHANGED vars

\* The two seconds are over and a call is still in flight: keep everything.
GiveUpShutdown ==
  /\ phase = "retrying" /\ ctl.at = "idle"
  /\ \E m \in Methods : session[m].detach_pending
  /\ phase' = "deferred"
  /\ UNCHANGED <<session, flight, patch, call, ctl, watched>>

-----------------------------------------------------------------------------
\* What the operation that holds control_mutex does next.
ControlStep ==
  \/ ResetRecords \/ Attach \/ Reopen \/ Activate
  \/ CloseGate \/ Drained \/ DrainTimeout \/ Detach \/ Release
  \/ Convert \/ CloseWatch

Shutdown ==
  \/ \E m \in Methods : StopAllNext(m)
  \/ StopAllDone \/ FinishShutdown \/ GiveUpShutdown

Request(m) ==
  \/ \E capture_return, watch \in BOOLEAN : StartNew(m, capture_return, watch)
  \/ Stop(m) \/ Unwatch(m) \/ Clear(m) \/ CaptureReturns(m) \/ Close(m) \/ Poll(m)

\* Callers restart a trace only after its pending detach is over.
PatientNext ==
  \/ \E c \in Calls : CallStep(c)
  \/ \E m \in Methods : Request(m)
  \/ \E m \in Methods : ~session[m].detach_pending /\ StartExisting(m)
  \/ ControlStep
  \/ BeginShutdown
  \/ Shutdown

\* Everything the code admits: start() does not look at detach_pending.
Next == PatientNext \/ \E m \in Methods : StartExisting(m)

PatientSpec == Init /\ [][PatientNext]_vars
Spec == Init /\ [][Next]_vars

-----------------------------------------------------------------------------
\* release_stub and shutdown(): a stub is never freed while a call that entered
\* through it is still counted, so the return address it holds stays valid.
StubOutlivesCall ==
  \A c \in Calls : call[c].via = "stub" /\ call[c].pc \in Counted => session[call[c].m].stub

\* enter_flight, leave_flight and the three places that store the word: the
\* gate counts exactly the calls inside it, across stop, clear and restart.
FlightCountExact ==
  \A m \in Methods : flight[m].count = Cardinality(InFlight(m))

\* reset_records runs only when no call can be writing a record.
ResetQuiescent == ctl.at = "reset" => InFlight(ctl.m) = {}

\* start(), clear() and capture_returns(): an active trace has a hook that
\* fires, an open gate, and no detach waiting to remove the hook.
ActiveIsArmed ==
  \A m \in Methods : session[m].active =>
    /\ flight[m].accepting
    /\ ~session[m].detach_pending
    /\ patch[m].mid > 0 \/ patch[m].stub > 0 \/ patch[m].site > 0

\* close(): a stopped session with no detach pending has given back its stub
\* and its entry hook, so closing it frees its place among max_sessions.
StoppedIsReclaimable ==
  \A m \in Methods :
    ctl.at = "idle" /\ session[m].open /\ ~session[m].active /\ ~session[m].detach_pending
    => /\ ~session[m].stub /\ ~session[m].mid_hook
       /\ flight[m].count = 0
       /\ patch[m].mid = 0 /\ patch[m].stub = 0

\* deactivate() and retry_pending_detach(): a hook is removed only when no
\* counted call is inside the method's detours.
HookRemoved(m) ==
  patch'[m].mid < patch[m].mid \/ patch'[m].stub < patch[m].stub \/ patch'[m].site < patch[m].site

HookOutlivesCall == [][\A m \in Methods : HookRemoved(m) => InFlight(m) = {}]_vars

\* The control thread runs, and the deadline of shutdown()'s retry loop passes
\* however often it polls.  The loader, the calls and the callers promise
\* nothing: a call may stay inside a traced method for ever.
ControlFairness ==
  /\ WF_vars(ControlStep)
  /\ WF_vars(Shutdown)
  /\ SF_vars(FinishShutdown \/ GiveUpShutdown)
FairSpec == PatientSpec /\ ControlFairness

\* The 50 ms waits: whatever calls do, control_mutex is released again.
ControlReturns == ctl.at # "idle" ~> ctl.at = "idle"

\* shutdown() ends, with everything freed or everything kept.
ShutdownEnds == phase = "stopping" ~> phase \in {"down", "deferred"}

-----------------------------------------------------------------------------
\* release_stub: once detach_session succeeded no call executes in the stub's
\* return path, so freeing the stub takes no code from a returning call.
ReturnPathKeepsStub ==
  [][\A c \in Calls : call[c].pc = "epilogue" => call'[c].pc # "lost"]_vars

\* InlineSiteHook: the loader holds a pointer to the site, which its session
\* owns, so a site branch exists only as long as the session has its handle.
SiteHookOwned ==
  \A m \in Methods : patch[m].site > 0 => session[m].open /\ session[m].site_hook
=============================================================================

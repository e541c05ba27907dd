------------------------- MODULE MethodTracerProofs -------------------------
(***************************************************************************)
(* Proofs about the hook sessions of MethodTracer, for any number of       *)
(* methods and sessions and any finite set of calls.                       *)
(***************************************************************************)
EXTENDS MethodTracer, FiniteSetTheorems, TLAPS

LEMMA AnyMethodType == AnyMethod \in Methods
  BY MethodsAssumption DEF AnyMethod

LEMMA LeaveFlightType ==
  ASSUME NEW g \in Gate
  PROVE  LeaveFlight(g) \in Gate
  BY BoundsAssumption DEF LeaveFlight, Gate

LEMMA OutsideType ==
  /\ Outside \in CallState
  /\ [Outside EXCEPT !.pc = "lost"] \in CallState
  BY AnyMethodType DEF Outside, CallState

LEMMA LeaveEntryType ==
  ASSUME TypeOK, NEW c \in Calls
  PROVE  LeaveEntry(c) \in CallState
  BY OutsideType DEF TypeOK, LeaveEntry, CallState, Uncounted

LEMMA LoseType ==
  ASSUME TypeOK, NEW C, Lose(C)
  PROVE  call' \in [Calls -> CallState]
  BY OutsideType DEF TypeOK, Lose

-----------------------------------------------------------------------------
(***************************************************************************)
(* Type correctness.                                                       *)
(***************************************************************************)
LEMMA CallTypes ==
  ASSUME TypeOK, NEW c \in Calls, CallStep(c)
  PROVE  TypeOK'
<1> DEFINE m == call[c].m
<1>0. m \in Methods /\ flight[m] \in Gate
  BY DEF TypeOK, CallState
<1> HIDE DEF m
<1>1. ASSUME NEW n \in Methods, NEW via \in {"mid", "stub", "site"}, ReachHook(c, n, via)
      PROVE  TypeOK'
  BY <1>1 DEF TypeOK, ReachHook, CallState, Uncounted
<1>2. CASE EnterFlight(c)
  <2>1. CASE flight[m].accepting /\ flight[m].count # CountMask
    <3>1. [flight[m] EXCEPT !.count = @ + 1] \in Gate
      BY <1>0, <2>1, BoundsAssumption DEF Gate
    <3>2. [call[c] EXCEPT !.pc = "entered"] \in CallState
      BY DEF TypeOK, CallState, Counted
    <3>3. QED
      BY <1>0, <1>2, <2>1, <3>1, <3>2 DEF TypeOK, EnterFlight, m
  <2>2. CASE ~(flight[m].accepting /\ flight[m].count # CountMask)
    BY <1>2, <2>2, LeaveEntryType DEF TypeOK, EnterFlight, m
  <2>3. QED
    BY <2>1, <2>2
<1>3. CASE SkipRecord(c)
  BY <1>0, <1>3, LeaveFlightType, LeaveEntryType DEF TypeOK, SkipRecord, m
<1>4. CASE ClaimRecord(c)
  BY <1>4 DEF TypeOK, ClaimRecord, CallState, Counted
<1>5. CASE RecordEntry(c)
  <2>1. [call[c] EXCEPT !.pc = "body"] \in CallState
    BY DEF TypeOK, CallState, Counted
  <2>2. QED
    BY <1>0, <1>5, <2>1, LeaveFlightType, LeaveEntryType DEF TypeOK, RecordEntry, m
<1>6. CASE RecordReturn(c)
  <2>1. [call[c] EXCEPT !.pc = "epilogue"] \in CallState
    BY DEF TypeOK, CallState, Uncounted
  <2>2. QED
    BY <1>0, <1>6, <2>1, LeaveFlightType DEF TypeOK, RecordReturn, m
<1>7. CASE LeaveStub(c)
  BY <1>7, OutsideType DEF TypeOK, LeaveStub
<1>8. QED
  BY <1>1, <1>2, <1>3, <1>4, <1>5, <1>6, <1>7 DEF CallStep

LEMMA CtlTypes ==
  ASSUME TypeOK
  PROVE  /\ Idle \in CtlState
         /\ \A at \in Steps : Goto(at) => ctl' \in CtlState
         /\ Finish => ctl' \in CtlState
         /\ \A op \in Ops, m \in Methods, at \in Steps, resume \in BOOLEAN :
              Begin(op, m, at, resume) => ctl' \in CtlState
<1>1. Idle \in CtlState
  BY AnyMethodType DEF Idle, CtlState, Ops, Steps
<1>2. ASSUME NEW at \in Steps, Goto(at)
      PROVE  ctl' \in CtlState
  BY <1>2 DEF TypeOK, Goto, CtlState
<1>3. ASSUME Finish
      PROVE  ctl' \in CtlState
  BY <1>1, <1>2, <1>3 DEF Finish, Steps
<1>4. ASSUME NEW op \in Ops, NEW m \in Methods, NEW at \in Steps,
             NEW resume \in BOOLEAN, Begin(op, m, at, resume)
      PROVE  ctl' \in CtlState
  BY <1>4 DEF Begin, CtlState
<1>5. QED
  BY <1>1, <1>2, <1>3, <1>4

\* Operations that start on a given method.
LEMMA RequestTypes ==
  ASSUME TypeOK, NEW m \in Methods, Request(m) \/ StartExisting(m) \/ StopAllNext(m)
  PROVE  TypeOK'
<1> USE CtlTypes, BoundsAssumption
<1>1. \A v \in BOOLEAN : [session[m] EXCEPT !.active = v] \in Session
  BY DEF TypeOK, Session
<1>2. Closed \in Session /\ [session[m] EXCEPT !.visible = FALSE] \in Session
  BY DEF TypeOK, Session, Closed
<1>3. ASSUME NEW capture_return \in BOOLEAN, NEW watch \in BOOLEAN,
             StartNew(m, capture_return, watch)
      PROVE  TypeOK'
  <2>1. OpenGate \in Gate
    BY DEF OpenGate, Gate
  <2>2. [Closed EXCEPT !.open = TRUE,
                       !.captures_return = capture_return /\ m \notin Tiny,
                       !.stub = capture_return,
                       !.instance_filter = watch,
                       !.visible = ~watch,
                       !.inline_hooks = ~watch /\ m \in Inlined] \in Session
    BY DEF Session, Closed
  <2>3. ctl' \in CtlState
    BY <1>3 DEF StartNew, Ops, Steps
  <2>4. QED
    BY <1>3, <2>1, <2>2, <2>3 DEF TypeOK, StartNew
<1>4. CASE StartExisting(m)
  BY <1>4 DEF TypeOK, StartExisting, Ops, Steps
<1>5. CASE Stop(m)
  BY <1>1, <1>5 DEF TypeOK, Stop, Ops, Steps
<1>6. CASE Unwatch(m)
  BY <1>1, <1>6 DEF TypeOK, Unwatch, Ops, Steps
<1>7. CASE Clear(m)
  <2>1. session[m].active \in BOOLEAN
    BY DEF TypeOK, Session
  <2>2. QED
    BY <1>1, <1>7, <2>1 DEF TypeOK, Clear, Ops, Steps
<1>8. CASE CaptureReturns(m)
  BY <1>1, <1>8 DEF TypeOK, CaptureReturns, Ops, Steps
<1>9. CASE Close(m)
  BY <1>2, <1>9, LoseType DEF TypeOK, Close, CloseSession
<1>10. CASE Poll(m)
  BY <1>10 DEF TypeOK, Poll, Ops, Steps
<1>11. CASE StopAllNext(m)
  BY <1>1, <1>11 DEF TypeOK, StopAllNext, Ops, Steps
<1>12. QED
  BY <1>3, <1>4, <1>5, <1>6, <1>7, <1>8, <1>9, <1>10, <1>11 DEF Request

\* Steps of the operation that holds control_mutex.
LEMMA ControlTypes ==
  ASSUME TypeOK, ControlStep
  PROVE  TypeOK'
<1> DEFINE m == ctl.m
           s == session[m]
           p == patch[m]
<1> USE CtlTypes, BoundsAssumption
<1>1. /\ m \in Methods /\ s \in Session /\ p \in Patch /\ flight[m] \in Gate
      /\ Closed \in Session
  BY DEF TypeOK, CtlState, Session, Closed
<1>2. CASE ResetRecords
  BY <1>2 DEF TypeOK, ResetRecords, Steps
<1>3. CASE Attach
  <2>1. PICK sitesOk \in BOOLEAN, entryOk \in BOOLEAN : AttachWith(m, sitesOk, entryOk)
    BY <1>3 DEF Attach
  <2>2. Patched(m, sitesOk, entryOk) \in Patch
    BY <1>1 DEF Patched, NewSite, NewMid, NewStub, Patch
  <2>3. Hooked(m, sitesOk, entryOk) \in Session
    <3>1. NewSite(m, sitesOk) \in BOOLEAN /\ NewMid(m, entryOk) \in BOOLEAN
      BY DEF NewSite, NewMid
    <3>2. (IF m \in Tiny \/ s.captures_return THEN s.mid_hook ELSE NewMid(m, entryOk)) \in BOOLEAN
      BY <1>1, <3>1 DEF Session
    <3>3. (s.site_hook \/ NewSite(m, sitesOk)) \in BOOLEAN
      OBVIOUS
    <3>4. QED
      BY <1>1, <3>2, <3>3 DEF Hooked, Session
  <2>4. CASE Attached(m, sitesOk, entryOk)
    BY <1>1, <1>3, <2>1, <2>2, <2>3, <2>4 DEF AttachWith, Attach, TypeOK, Steps
  <2>5. CASE ~Attached(m, sitesOk, entryOk)
    <3>1. [Hooked(m, sitesOk, entryOk) EXCEPT !.captures_return = FALSE, !.stub = FALSE] \in Session
      BY <2>3 DEF Session
    <3>2. call' \in [Calls -> CallState] /\ session' \in [Methods -> Session] /\ ctl' \in CtlState
      BY <1>1, <2>1, <2>3, <2>5, <3>1, LoseType DEF AttachWith, AttachRefused, TypeOK
    <3>3. QED
      BY <1>3, <2>1, <2>2, <2>5, <3>2 DEF AttachWith, Attach, TypeOK
  <2>6. QED
    BY <2>4, <2>5
<1>4. CASE Reopen
  <2>1. OpenGate \in Gate
    BY DEF OpenGate, Gate
  <2>2. QED
    BY <1>4, <2>1 DEF TypeOK, Reopen, Steps
<1>5. CASE Activate
  <2>1. [s EXCEPT !.active = TRUE, !.visible = s.visible \/ ~s.instance_filter] \in Session
    BY <1>1 DEF Session
  <2>2. QED
    BY <1>1, <1>5, <2>1 DEF TypeOK, Activate, Session
<1>6. CASE CloseGate
  <2>1. [flight[m] EXCEPT !.accepting = FALSE] \in Gate
    BY <1>1 DEF Gate
  <2>2. QED
    BY <1>6, <2>1 DEF TypeOK, CloseGate, Steps
<1>7. CASE Drained
  BY <1>7 DEF TypeOK, Drained, Steps
<1>8. CASE DrainTimeout
  <2>1. [s EXCEPT !.detach_pending = TRUE] \in Session
    BY <1>1 DEF Session
  <2>2. QED
    BY <1>8, <2>1 DEF TypeOK, DrainTimeout
<1>9. CASE Detach
  <2>1. PICK sitesOk \in BOOLEAN, entryOk \in BOOLEAN : DetachWith(m, sitesOk, entryOk)
    BY <1>9 DEF Detach
  <2>2. patch' \in [Methods -> Patch]
    BY <1>1, <2>1 DEF DetachWith, Less, Patch, TypeOK
  <2>3. session' \in [Methods -> Session]
    <3>1. ASSUME NEW a \in BOOLEAN, NEW b \in BOOLEAN, NEW d \in BOOLEAN
          PROVE  [s EXCEPT !.site_hook = a, !.mid_hook = b, !.detach_pending = d] \in Session
      BY <1>1 DEF Session
    <3>2. PICK d \in BOOLEAN : session' = [session EXCEPT ![m] =
            [s EXCEPT !.site_hook = s.site_hook /\ ~DropSite(m, sitesOk),
                      !.mid_hook = s.mid_hook /\ ~DropMid(m, entryOk),
                      !.detach_pending = s.detach_pending \/ d]]
      BY <2>1 DEF DetachWith
    <3>3. QED
      BY <3>1, <3>2 DEF TypeOK
  <2>4. ctl' \in CtlState
    BY <2>1 DEF DetachWith, Steps
  <2>5. QED
    BY <1>9, <2>2, <2>3, <2>4 DEF Detach, TypeOK
<1>10. CASE Release
  <2>1. [s EXCEPT !.detach_pending = FALSE, !.stub = FALSE] \in Session
    BY <1>1 DEF Session
  <2>2. QED
    BY <1>10, <2>1, LoseType DEF TypeOK, Release, Steps
<1>11. CASE Convert
  <2>1. [s EXCEPT !.stub = TRUE, !.captures_return = TRUE] \in Session
    BY <1>1 DEF Session
  <2>2. QED
    BY <1>11, <2>1 DEF TypeOK, Convert, Steps
<1>12. CASE CloseWatch
  <2>1. [s EXCEPT !.visible = FALSE] \in Session
    BY <1>1 DEF Session
  <2>2. QED
    BY <1>1, <1>12, <2>1, LoseType DEF TypeOK, CloseWatch, CloseSession
<1>13. QED
  BY <1>2, <1>3, <1>4, <1>5, <1>6, <1>7, <1>8, <1>9, <1>10, <1>11, <1>12 DEF ControlStep

LEMMA ShutdownTypes ==
  ASSUME TypeOK, BeginShutdown \/ StopAllDone \/ FinishShutdown \/ GiveUpShutdown
  PROVE  TypeOK'
<1>1. CASE BeginShutdown
  BY <1>1 DEF TypeOK, BeginShutdown
<1>2. CASE StopAllDone
  BY <1>2 DEF TypeOK, StopAllDone
<1>3. CASE FinishShutdown
  <2>1. Closed \in Session
    BY DEF Closed, Session
  <2>2. QED
    BY <1>3, <2>1, LoseType DEF TypeOK, FinishShutdown
<1>4. CASE GiveUpShutdown
  BY <1>4 DEF TypeOK, GiveUpShutdown
<1>5. QED
  BY <1>1, <1>2, <1>3, <1>4

LEMMA InitTypes == Init => TypeOK
  BY CtlTypes, OutsideType, AnyMethodType, BoundsAssumption
  DEF Init, TypeOK, Session, Closed, Gate, OpenGate, Patch, CtlState, Idle, Ops, Steps

LEMMA StepTypes == TypeOK /\ [Next]_vars => TypeOK'
<1> SUFFICES ASSUME TypeOK, [Next]_vars PROVE TypeOK'
  OBVIOUS
<1>1. CASE UNCHANGED vars
  BY <1>1 DEF vars, TypeOK
<1>2. CASE Next
  BY <1>2, CallTypes, RequestTypes, ControlTypes, ShutdownTypes
  DEF Next, PatientNext, Shutdown
<1>3. QED
  BY <1>1, <1>2

\* Every variable keeps its type whatever the callers do, restarts of pending
\* sessions included: the flight count stays within its bits (enter_flight
\* refuses at the mask, leave_flight wraps) and every handle is a handle.
THEOREM TypeCorrect == Spec => []TypeOK
  BY InitTypes, StepTypes, PTL DEF Spec

-----------------------------------------------------------------------------
(***************************************************************************)
(* The inductive invariant of the patient callers' specification.  A       *)
(* session is Quiet when no call can enter its gate or is inside it, and   *)
(* Bare when it owns neither a stub nor an entry hook.                     *)
(***************************************************************************)
Quiet(m) ==
  /\ ~session[m].active
  /\ ~session[m].detach_pending
  /\ ~flight[m].accepting
  /\ flight[m].count = 0

NoEntryHook(m) == ~session[m].mid_hook /\ patch[m].mid = 0 /\ patch[m].stub = 0

Bare(m) == ~session[m].stub /\ NoEntryHook(m)

Armed(m) == patch[m].mid > 0 \/ patch[m].stub > 0 \/ patch[m].site > 0

\* The operation in progress is past its first step and works on m.
Working(m) == ctl.m = m /\ ctl.at \notin {"idle", "close"}

\* A method without a session has no hook that fires and no call to wait for.
ClosedInv(m) ==
  ~session[m].open =>
    session[m] = Closed /\ flight[m].count = 0 /\ patch[m].mid = 0 /\ patch[m].stub = 0

\* The handles of a session match the branches the loader has written for it.
HookInv(m) ==
  /\ patch[m].mid = IF session[m].mid_hook THEN 1 ELSE 0
  /\ patch[m].stub \in {0, 1}
  /\ patch[m].stub = 1 => session[m].stub /\ session[m].captures_return /\ m \notin Tiny
  /\ session[m].mid_hook => ~session[m].captures_return /\ m \notin Tiny
  /\ session[m].site_hook => patch[m].site > 0

ActiveInv(m) ==
  session[m].active =>
    /\ session[m].open /\ ~session[m].detach_pending
    /\ flight[m].accepting
    /\ Armed(m)

PendingInv(m) ==
  session[m].detach_pending =>
    /\ session[m].open
    /\ ~flight[m].accepting
    /\ Working(m) => ctl.at \in {"detach", "release"}

RestInv(m) ==
  session[m].open /\ ~session[m].active /\ ~session[m].detach_pending /\ ~Working(m)
    => Quiet(m) /\ Bare(m)

\* A call before the gate or inside it has a session, and one in the detour
\* stub has the stub.
CallInv(c) ==
  /\ call[c].pc \in Counted \cup {"prologue"} => session[call[c].m].open
  /\ call[c].via = "stub" /\ call[c].pc \in Counted \cup Uncounted
       => session[call[c].m].stub

\* What each step of a control operation may rely on.
StopOps == {"stop", "unwatch", "clear", "capture"}

GateStep(m) ==
  ctl.at = "gate" =>
    /\ ctl.op \in StopOps
    /\ ctl.op = "clear" => ctl.resume /\ Armed(m)

DrainStep(m) ==
  ctl.at = "drain" =>
    /\ ctl.op \in StopOps /\ ~flight[m].accepting
    /\ ctl.op = "clear" => IF ctl.resume THEN Armed(m) ELSE Quiet(m) /\ Bare(m)

DetachStep(m) ==
  /\ ctl.at = "detach" =>
       /\ ctl.op \in {"stop", "unwatch", "capture", "poll"}
       /\ ~flight[m].accepting /\ flight[m].count = 0
  /\ ctl.at = "release" =>
       /\ ctl.op \in {"stop", "unwatch", "capture", "poll"}
       /\ ~flight[m].accepting /\ flight[m].count = 0 /\ NoEntryHook(m)

AttachStep(m) ==
  /\ ctl.at = "convert" => ctl.op = "capture" /\ Quiet(m) /\ Bare(m)
  /\ ctl.at = "reset" =>
       /\ Quiet(m)
       /\ ctl.op \in {"clear", "start", "capture"}
       /\ ctl.op = "clear" => IF ctl.resume THEN Armed(m) ELSE Bare(m)
       /\ ctl.op = "start" => Bare(m)
       /\ ctl.op = "capture" => NoEntryHook(m)
  /\ ctl.at = "attach" =>
       /\ NoEntryHook(m)
       /\ ctl.op \in {"new", "start", "capture"}
       /\ ctl.op = "start" => Quiet(m) /\ Bare(m)
       /\ ctl.op = "capture" => Quiet(m)
       /\ ctl.op = "new" =>
            /\ flight[m].accepting /\ flight[m].count = 0
            /\ ~session[m].site_hook
            /\ \A c \in Calls : call[c].m = m => call[c].pc # "prologue"
  /\ ctl.at = "reopen" => Quiet(m) /\ Armed(m)
  /\ ctl.at = "activate" => flight[m].accepting /\ Armed(m)

CtlInv ==
  /\ ctl.at \notin {"idle", "close"} => session[ctl.m].open /\ ~session[ctl.m].active
  /\ ctl.at = "close" => ctl.op = "unwatch"
  /\ GateStep(ctl.m)
  /\ DrainStep(ctl.m)
  /\ DetachStep(ctl.m)
  /\ AttachStep(ctl.m)

\* After stop_all() no session is active and only retries run.
PhaseInv ==
  phase \in {"retrying", "down", "deferred"} =>
    /\ \A m \in Methods : ~session[m].active
    /\ ctl.at = "idle" \/ (ctl.at \in {"detach", "release"} /\ ctl.op = "poll")

MethodInv(m) ==
  ClosedInv(m) /\ HookInv(m) /\ ActiveInv(m) /\ PendingInv(m) /\ RestInv(m)

IInv ==
  /\ TypeOK
  /\ FlightCountExact
  /\ \A m \in Methods : MethodInv(m)
  /\ \A c \in Calls : CallInv(c)
  /\ CtlInv
  /\ PhaseInv

-----------------------------------------------------------------------------
(***************************************************************************)
(* The flight count.                                                       *)
(***************************************************************************)
LEMMA InFlightFinite ==
  ASSUME NEW m
  PROVE  IsFiniteSet(InFlight(m)) /\ Cardinality(InFlight(m)) \in Nat
  BY CallsAssumption, FS_Subset, FS_CardinalityType DEF InFlight

LEMMA NoneInFlight ==
  ASSUME FlightCountExact, NEW m \in Methods, flight[m].count = 0
  PROVE  InFlight(m) = {}
<1>1. IsFiniteSet(InFlight(m))
  BY InFlightFinite
<1>2. Cardinality(InFlight(m)) = 0
  BY DEF FlightCountExact
<1>3. QED
  BY <1>1, <1>2, FS_EmptySet

\* A step that neither enters nor leaves a gate keeps the count exact.
LEMMA SameInFlight ==
  ASSUME FlightCountExact, \A m \in Methods : flight'[m].count = flight[m].count,
         \A c \in Calls : call'[c] # call[c] => ~(call[c].pc \in Counted \/ call'[c].pc \in Counted)
  PROVE  FlightCountExact'
<1>1. ASSUME NEW m \in Methods PROVE InFlight(m)' = InFlight(m)
  <2>1. \A c \in Calls : (call[c].m = m /\ call[c].pc \in Counted)'
                         <=> call[c].m = m /\ call[c].pc \in Counted
    OBVIOUS
  <2>2. QED
    BY <2>1 DEF InFlight
<1>2. ASSUME NEW m \in Methods PROVE flight'[m].count = Cardinality(InFlight(m)')
  BY <1>1, <1>2 DEF FlightCountExact
<1>3. QED
  BY <1>2 DEF FlightCountExact

LEMMA EnterCounts ==
  ASSUME TypeOK, FlightCountExact, NEW c \in Calls, EnterFlight(c),
         flight[call[c].m].accepting, flight[call[c].m].count # CountMask
  PROVE  FlightCountExact'
<1>1. PICK m \in Methods : m = call[c].m
  BY DEF TypeOK, CallState
<1>2. flight[m].count \in Nat /\ flight \in [Methods -> Gate] /\ flight[m] \in Gate
  BY BoundsAssumption DEF TypeOK, Gate
<1>3. call' = [call EXCEPT ![c].pc = "entered"] /\ call[c].pc = "prologue"
  BY DEF EnterFlight
<1>4. c \notin InFlight(m) /\ InFlight(m)' = InFlight(m) \cup {c}
  BY <1>1, <1>3 DEF InFlight, Counted, TypeOK, CallState
<1>5. Cardinality(InFlight(m)') = flight[m].count + 1
  <2>1. IsFiniteSet(InFlight(m)) /\ Cardinality(InFlight(m)) = flight[m].count
    BY InFlightFinite DEF FlightCountExact
  <2>2. QED
    BY <1>4, <2>1, FS_AddElement
<1>6. \A n \in Methods \ {m} : InFlight(n)' = InFlight(n)
  BY <1>1, <1>3 DEF InFlight, TypeOK, CallState
<1>7. flight'[m].count = flight[m].count + 1 /\ \A n \in Methods \ {m} : flight'[n] = flight[n]
  BY <1>1, <1>2 DEF EnterFlight, Gate
<1>8. ASSUME NEW n \in Methods PROVE flight'[n].count = Cardinality(InFlight(n)')
  BY <1>5, <1>6, <1>7 DEF FlightCountExact
<1>9. QED
  BY <1>8 DEF FlightCountExact

LEMMA LeaveCounts ==
  ASSUME TypeOK, FlightCountExact, NEW c \in Calls, call[c].pc \in Counted,
         flight' = [flight EXCEPT ![call[c].m] = LeaveFlight(flight[call[c].m])],
         NEW r, r.pc \notin Counted, call' = [call EXCEPT ![c] = r]
  PROVE  /\ FlightCountExact'
         /\ \A n \in Methods : flight'[n].accepting = flight[n].accepting
         /\ \A n \in Methods : flight[n].count = 0 => flight'[n] = flight[n]
<1>1. PICK m \in Methods : m = call[c].m
  BY DEF TypeOK, CallState
<1>2. flight[m] \in Gate /\ flight[m].count \in Nat /\ flight \in [Methods -> Gate]
  BY BoundsAssumption DEF TypeOK, Gate
<1>3. c \in InFlight(m) /\ InFlight(m)' = InFlight(m) \ {c}
  BY <1>1 DEF InFlight, TypeOK
<1>4. flight[m].count # 0
  BY <1>3, NoneInFlight
<1>5. LeaveFlight(flight[m]) = [flight[m] EXCEPT !.count = flight[m].count - 1]
  BY <1>2, <1>4 DEF LeaveFlight
<1>6. Cardinality(InFlight(m)') = flight[m].count - 1
  <2>1. IsFiniteSet(InFlight(m)) /\ Cardinality(InFlight(m)) = flight[m].count
    BY InFlightFinite DEF FlightCountExact
  <2>2. QED
    BY <1>3, <2>1, FS_RemoveElement
<1>7. \A n \in Methods \ {m} : InFlight(n)' = InFlight(n)
  BY <1>1 DEF InFlight, TypeOK
<1>8. /\ flight'[m].count = flight[m].count - 1
      /\ flight'[m].accepting = flight[m].accepting
      /\ \A n \in Methods \ {m} : flight'[n] = flight[n]
  BY <1>1, <1>2, <1>5 DEF Gate
<1>9. ASSUME NEW n \in Methods PROVE flight'[n].count = Cardinality(InFlight(n)')
  BY <1>6, <1>7, <1>8 DEF FlightCountExact
<1>10. QED
  BY <1>4, <1>8, <1>9 DEF FlightCountExact

\* What a step of a call does to the gates.
LEMMA CallGates ==
  ASSUME IInv, NEW c \in Calls, CallStep(c)
  PROVE  /\ FlightCountExact'
         /\ \A n \in Methods : flight'[n].accepting = flight[n].accepting
         /\ \A n \in Methods :
              /\ flight[n].count = 0
              /\ flight[n].accepting => \A d \in Calls : call[d].m = n => call[d].pc # "prologue"
              => flight'[n].count = 0
<1> DEFINE m == call[c].m
<1>0. /\ TypeOK /\ FlightCountExact /\ m \in Methods
      /\ flight \in [Methods -> Gate] /\ call \in [Calls -> CallState]
      /\ LeaveEntry(c).pc \notin Counted
  BY DEF IInv, TypeOK, CallState, LeaveEntry, Outside, Counted
<1>2. ASSUME NEW n \in Methods, NEW via \in {"mid", "stub", "site"}, ReachHook(c, n, via)
      PROVE  flight' = flight /\ FlightCountExact'
  <2>1. flight' = flight /\ \A d \in Calls \ {c} : call'[d] = call[d]
    BY <1>0, <1>2 DEF ReachHook
  <2>2. call[c].pc \notin Counted /\ call'[c].pc \notin Counted
    BY <1>0, <1>2 DEF ReachHook, Counted
  <2>3. \A d \in Calls : call'[d] # call[d] => ~(call[d].pc \in Counted \/ call'[d].pc \in Counted)
    BY <2>1, <2>2
  <2>4. QED
    BY <1>0, <2>1, <2>3, SameInFlight
<1>3. CASE EnterFlight(c)
  <2>1. CASE flight[m].accepting /\ flight[m].count # CountMask
    <3>1. FlightCountExact'
      BY <1>0, <1>3, <2>1, EnterCounts
    <3>2. /\ call[c].pc = "prologue"
          /\ flight'[m].accepting = flight[m].accepting
          /\ \A n \in Methods \ {m} : flight'[n] = flight[n]
      BY <1>0, <1>3, <2>1 DEF EnterFlight, Gate
    <3>3. QED
      BY <2>1, <3>1, <3>2
  <2>2. CASE ~(flight[m].accepting /\ flight[m].count # CountMask)
    <3>1. flight' = flight /\ \A d \in Calls \ {c} : call'[d] = call[d]
      BY <1>0, <1>3, <2>2 DEF EnterFlight
    <3>2. call[c].pc \notin Counted /\ call'[c].pc \notin Counted
      BY <1>0, <1>3, <2>2 DEF EnterFlight, Counted
    <3>3. FlightCountExact'
      <4>1. \A d \in Calls : call'[d] # call[d] => ~(call[d].pc \in Counted \/ call'[d].pc \in Counted)
        BY <3>1, <3>2
      <4>2. QED
        BY <1>0, <3>1, <4>1, SameInFlight
    <3>4. QED
      BY <3>1, <3>3
  <2>3. QED
    BY <2>1, <2>2
<1>4. CASE SkipRecord(c)
  BY <1>0, <1>4, LeaveCounts DEF SkipRecord, Counted
<1>5. CASE ClaimRecord(c)
  <2>1. \A n : InFlight(n)' = InFlight(n)
    BY <1>0, <1>5 DEF ClaimRecord, InFlight, Counted, CallState
  <2>2. QED
    BY <1>0, <1>5, <2>1 DEF ClaimRecord, FlightCountExact
<1>6. CASE RecordEntry(c)
  <2>1. CASE call' = [call EXCEPT ![c].pc = "body"] /\ flight' = flight
    <3>1. \A n : InFlight(n)' = InFlight(n)
      BY <1>0, <1>6, <2>1 DEF RecordEntry, InFlight, Counted, CallState
    <3>2. QED
      BY <1>0, <2>1, <3>1 DEF FlightCountExact
  <2>2. CASE call' = [call EXCEPT ![c] = LeaveEntry(c)]
             /\ flight' = [flight EXCEPT ![m] = LeaveFlight(flight[m])]
    BY <1>0, <1>6, <2>2, LeaveCounts DEF RecordEntry, Counted
  <2>3. QED
    BY <1>6, <2>1, <2>2 DEF RecordEntry
<1>7. CASE RecordReturn(c)
  <2>1. call' = [call EXCEPT ![c] = [call[c] EXCEPT !.pc = "epilogue"]]
    BY <1>7 DEF RecordReturn
  <2>2. [call[c] EXCEPT !.pc = "epilogue"].pc \notin Counted
    BY <1>0 DEF CallState, Counted
  <2>3. QED
    BY <1>0, <1>7, <2>1, <2>2, LeaveCounts DEF RecordReturn, Counted
<1>8. CASE LeaveStub(c)
  <2>1. flight' = flight /\ \A d \in Calls \ {c} : call'[d] = call[d]
    BY <1>0, <1>8 DEF LeaveStub
  <2>2. call[c].pc \notin Counted /\ call'[c].pc \notin Counted
    BY <1>0, <1>8 DEF LeaveStub, Outside, Counted
  <2>3. FlightCountExact'
    <3>1. \A d \in Calls : call'[d] # call[d] => ~(call[d].pc \in Counted \/ call'[d].pc \in Counted)
      BY <2>1, <2>2
    <3>2. QED
      BY <1>0, <2>1, <3>1, SameInFlight
  <2>4. QED
    BY <2>1, <2>3
<1>9. QED
  BY <1>2, <1>3, <1>4, <1>5, <1>6, <1>7, <1>8 DEF CallStep

LEMMA CallStepInv ==
  ASSUME IInv, NEW c \in Calls, CallStep(c)
  PROVE  IInv'
<1>1. TypeOK'
  BY CallTypes DEF IInv
<1>2. UNCHANGED <<session, patch, ctl, watched, phase>>
  BY DEF CallStep, ReachHook, EnterFlight, SkipRecord, ClaimRecord, RecordEntry,
         RecordReturn, LeaveStub
<1>3. /\ FlightCountExact'
      /\ \A n \in Methods : flight'[n].accepting = flight[n].accepting
      /\ \A n \in Methods :
           /\ flight[n].count = 0
           /\ flight[n].accepting => \A d \in Calls : call[d].m = n => call[d].pc # "prologue"
           => flight'[n].count = 0
  BY CallGates
<1>4. TypeOK /\ \A d \in Calls : CallInv(d)
  BY DEF IInv
<1>5. /\ \A d \in Calls \ {c} : call'[d] = call[d]
      /\ call'[c].pc = "prologue" =>
           LET m == call'[c].m IN
           /\ m \in Methods /\ session[m].open
           /\ patch[m].mid > 0 \/ patch[m].stub > 0 \/ session[m].site_hook
           /\ call'[c].via = "stub" => patch[m].stub > 0
      /\ call'[c].pc \in Counted \/ (call'[c].pc \in Uncounted /\ call'[c].pc # "prologue") =>
           /\ call'[c].m = call[c].m /\ call'[c].via = call[c].via
           /\ call[c].pc \in Counted \cup Uncounted
           /\ call'[c].pc \in Counted => call[c].pc \in Counted \cup {"prologue"}
  BY <1>4 DEF CallStep, ReachHook, EnterFlight, SkipRecord, ClaimRecord, RecordEntry,
         RecordReturn, LeaveStub, LeaveEntry, Outside, TypeOK, CallState, Counted, Uncounted
<1>6. ASSUME NEW d \in Calls PROVE CallInv(d)'
  <2>1. CASE d # c
    BY <1>2, <1>4, <1>5, <2>1 DEF CallInv
  <2>2. CASE d = c /\ call'[c].pc = "prologue"
    <3>1. call'[c].via = "stub" => session[call'[c].m].stub
      BY <1>4, <1>5, <2>2 DEF IInv, MethodInv, HookInv, TypeOK, Patch
    <3>2. QED
      BY <1>2, <1>5, <2>2, <3>1 DEF CallInv, Uncounted, Counted
  <2>3. CASE d = c /\ call'[c].pc # "prologue"
    BY <1>2, <1>4, <1>5, <2>3 DEF CallInv, Uncounted, Counted
  <2>4. QED
    BY <2>1, <2>2, <2>3
<1>7. ASSUME NEW m \in Methods PROVE MethodInv(m)'
  <2>1. MethodInv(m)
    BY DEF IInv
  <2>2. ~session[m].open /\ flight[m].count = 0 => flight'[m].count = 0
    BY <1>3, <1>4 DEF CallInv
  <2>3. Quiet(m) => Quiet(m)'
    BY <1>2, <1>3 DEF Quiet
  <2>4. QED
    BY <1>2, <1>3, <2>1, <2>2, <2>3
    DEF MethodInv, ClosedInv, HookInv, ActiveInv, PendingInv, RestInv, Armed, Bare, NoEntryHook, Working
<1>8. CtlInv'
  <2>1. PICK m \in Methods : m = ctl.m
    BY <1>4 DEF TypeOK, CtlState
  <2>2. ~flight[m].accepting /\ flight[m].count = 0 => flight'[m].count = 0
    BY <1>3
  <2>3. ASSUME NoEntryHook(m), ~session[m].site_hook,
               \A d \in Calls : call[d].m = m => call[d].pc # "prologue"
        PROVE  \A d \in Calls : call'[d].m = m => call'[d].pc # "prologue"
    BY <1>5, <2>3 DEF NoEntryHook
  <2>4. CtlInv
    BY DEF IInv
  <2>5. GateStep(m)' /\ DrainStep(m)' /\ DetachStep(m)'
    BY <1>2, <1>3, <2>1, <2>2, <2>4
    DEF CtlInv, GateStep, DrainStep, DetachStep, Quiet, Armed, Bare, NoEntryHook
  <2>6. AttachStep(m)'
    BY <1>2, <1>3, <2>1, <2>2, <2>3, <2>4 DEF CtlInv, AttachStep, Quiet, Armed, Bare, NoEntryHook
  <2>7. QED
    BY <1>2, <2>1, <2>4, <2>5, <2>6 DEF CtlInv
<1>9. PhaseInv'
  BY <1>2 DEF IInv, PhaseInv
<1>10. QED
  BY <1>1, <1>3, <1>6, <1>7, <1>8, <1>9 DEF IInv

-----------------------------------------------------------------------------
(***************************************************************************)
(* Steps of the control operations.  A step works on one method m: the     *)
(* others keep their session, gate and branches.                           *)
(***************************************************************************)
OthersKept(m) ==
  \A n \in Methods \ {m} :
    session'[n] = session[n] /\ flight'[n] = flight[n] /\ patch'[n] = patch[n]

\* Calls that disappear were executing detour code without being counted.
OnlyUncountedLost ==
  \A c \in Calls : call'[c] # call[c] => call[c].pc \in Uncounted /\ call'[c].pc = "lost"

LEMMA ControlFrame ==
  ASSUME IInv, TypeOK', NEW m \in Methods, OthersKept(m),
         flight'[m].count = flight[m].count,
         OnlyUncountedLost, \A c \in Calls : CallInv(c)',
         ctl.m = m \/ ctl.at = "idle", ctl'.m = m \/ ctl'.at = "idle",
         MethodInv(m)', CtlInv', PhaseInv'
  PROVE  IInv'
<1>1. FlightCountExact'
  <2>1. \A n \in Methods : flight'[n].count = flight[n].count
    BY DEF OthersKept
  <2>2. \A c \in Calls : call'[c] # call[c] => ~(call[c].pc \in Counted \/ call'[c].pc \in Counted)
    BY DEF OnlyUncountedLost, Uncounted, Counted
  <2>3. QED
    BY <2>1, <2>2, SameInFlight DEF IInv
<1>2. ASSUME NEW n \in Methods \ {m} PROVE MethodInv(n)'
  <2>1. MethodInv(n) /\ session'[n] = session[n] /\ flight'[n] = flight[n] /\ patch'[n] = patch[n]
    BY DEF IInv, OthersKept
  <2>2. ~Working(n) /\ ~Working(n)'
    BY DEF Working
  <2>3. QED
    BY <2>1, <2>2
    DEF MethodInv, ClosedInv, HookInv, ActiveInv, PendingInv, RestInv, Armed, Quiet, Bare, NoEntryHook
<1>3. QED
  BY <1>1, <1>2 DEF IInv

\* A step that frees nothing.
LEMMA CallsKept ==
  ASSUME IInv, NEW m \in Methods, OthersKept(m), call' = call,
         session[m].open => session'[m].open,
         session[m].stub => session'[m].stub
  PROVE  OnlyUncountedLost /\ \A c \in Calls : CallInv(c)'
<1>1. OnlyUncountedLost
  BY DEF OnlyUncountedLost
<1>2. ASSUME NEW c \in Calls PROVE CallInv(c)'
  <2>1. call[c].m \in Methods /\ CallInv(c)
    BY DEF IInv, TypeOK, CallState
  <2>2. QED
    BY <2>1 DEF CallInv, OthersKept
<1>3. QED
  BY <1>1, <1>2

\* A step that frees the stub or the session of a method whose gate is empty.
LEMMA CallsLost ==
  ASSUME IInv, NEW m \in Methods, OthersKept(m), flight[m].count = 0,
         NEW C, Lose(C), C \subseteq InStub(m) \cup BeforeGate(m),
         session[m].open /\ ~session'[m].open => BeforeGate(m) \subseteq C,
         session[m].stub /\ ~session'[m].stub => InStub(m) \subseteq C
  PROVE  OnlyUncountedLost /\ \A c \in Calls : CallInv(c)'
<1>1. InFlight(m) = {}
  BY NoneInFlight DEF IInv
<1>2. ASSUME NEW c \in Calls
      PROVE  call'[c] = IF c \in C THEN [Outside EXCEPT !.pc = "lost"] ELSE call[c]
  BY DEF Lose
<1>3. [Outside EXCEPT !.pc = "lost"].pc = "lost"
  BY DEF Outside
<1>4. OnlyUncountedLost
  BY <1>2, <1>3 DEF OnlyUncountedLost, InStub, BeforeGate, Uncounted
<1>5. ASSUME NEW c \in Calls PROVE CallInv(c)'
  <2>1. call[c].m \in Methods /\ CallInv(c)
    BY DEF IInv, TypeOK, CallState
  <2>2. CASE c \in C
    BY <1>2, <1>3, <2>2 DEF CallInv, Counted, Uncounted
  <2>3. CASE c \notin C /\ call[c].m # m
    BY <1>2, <2>1, <2>3 DEF CallInv, OthersKept
  <2>4. CASE c \notin C /\ call[c].m = m
    <3>1. call'[c] = call[c] /\ call[c].pc \notin Counted
      BY <1>1, <1>2, <2>4 DEF InFlight
    <3>2. QED
      BY <2>1, <2>4, <3>1 DEF CallInv, InStub, BeforeGate
  <2>5. QED
    BY <2>2, <2>3, <2>4
<1>6. QED
  BY <1>4, <1>5

\* What holds of the method an operation works on.
LEMMA CtlFacts ==
  ASSUME IInv
  PROVE  /\ TypeOK /\ ctl.m \in Methods /\ MethodInv(ctl.m)
         /\ flight[ctl.m] \in Gate /\ session[ctl.m] \in Session /\ patch[ctl.m] \in Patch
         /\ ctl.at \notin {"idle", "close"} =>
              /\ session[ctl.m].open /\ ~session[ctl.m].active
              /\ ctl.at \notin {"detach", "release"} => ~session[ctl.m].detach_pending
         /\ CtlInv /\ PhaseInv
  BY DEF IInv, TypeOK, CtlState, CtlInv, MethodInv, PendingInv, Working

LEMMA CtlRests ==
  ASSUME ctl'.at = "idle"
  PROVE  CtlInv'
  BY DEF CtlInv, GateStep, DrainStep, DetachStep, AttachStep

LEMMA IdleRests == Idle.at = "idle" /\ Idle.op = "none"
  BY DEF Idle

LEMMA GotoFacts ==
  ASSUME TypeOK, NEW at, Goto(at)
  PROVE  ctl'.at = at /\ ctl'.m = ctl.m /\ ctl'.op = ctl.op /\ ctl'.resume = ctl.resume
  BY DEF Goto, TypeOK, CtlState

LEMMA FinishFacts ==
  ASSUME TypeOK, Finish
  PROVE  \/ ctl'.at = "idle"
         \/ ctl'.at = "close" /\ ctl'.m = ctl.m /\ ctl'.op = "unwatch" /\ ctl.op = "unwatch"
  BY GotoFacts, IdleRests DEF Finish

LEMMA ResetRecordsInv ==
  ASSUME IInv, ResetRecords
  PROVE  IInv'
<1>1. PICK m \in Methods : m = ctl.m
  BY CtlFacts
<1>2. /\ TypeOK /\ MethodInv(m) /\ session[m].open /\ ~session[m].active
      /\ AttachStep(m) /\ ctl.at = "reset"
      /\ phase \notin {"retrying", "down", "deferred"}
  BY <1>1, CtlFacts DEF ResetRecords, CtlInv, PhaseInv
<1>3. UNCHANGED <<session, flight, patch, call, watched, phase>> /\ TypeOK'
  BY ControlTypes DEF ResetRecords, IInv, ControlStep
<1>4. \/ ctl'.at = "idle" /\ Bare(m) /\ Quiet(m)
      \/ /\ ctl'.at \in {"reopen", "attach"} /\ ctl'.m = m /\ ctl'.op = ctl.op
         /\ IF ctl'.at = "reopen" THEN ctl.op = "clear" /\ ctl.resume ELSE ctl.op \in {"start", "capture"}
  BY <1>1, <1>2, IdleRests, GotoFacts, FinishFacts DEF ResetRecords, AttachStep
<1>5. ctl'.m = m \/ ctl'.at = "idle"
  BY <1>4
<1>6. OthersKept(m) /\ flight'[m].count = flight[m].count
  BY <1>3 DEF OthersKept
<1>7. OnlyUncountedLost /\ \A c \in Calls : CallInv(c)'
  BY <1>3, <1>6, CallsKept
<1>8. MethodInv(m)'
  BY <1>2, <1>3, <1>4
  DEF MethodInv, ClosedInv, HookInv, ActiveInv, PendingInv, RestInv, Armed, Quiet, Bare,
      NoEntryHook, Working, AttachStep
<1>9. CtlInv'
  BY <1>1, <1>2, <1>3, <1>4
  DEF CtlInv, GateStep, DrainStep, DetachStep, AttachStep, Armed, Quiet, Bare, NoEntryHook,
      TypeOK, CtlState
<1>10. PhaseInv'
  BY <1>2, <1>3 DEF PhaseInv
<1>11. QED
  BY <1>1, <1>3, <1>5, <1>6, <1>7, <1>8, <1>9, <1>10, ControlFrame

\* A step of one method that frees nothing.
LEMMA KeepFrame ==
  ASSUME IInv, TypeOK', NEW m \in Methods, OthersKept(m), UNCHANGED call,
         flight'[m].count = flight[m].count,
         session[m].open => session'[m].open, session[m].stub => session'[m].stub,
         ctl.m = m \/ ctl.at = "idle", ctl'.m = m \/ ctl'.at = "idle",
         MethodInv(m)', CtlInv', PhaseInv'
  PROVE  IInv'
  BY CallsKept, ControlFrame

LEMMA ReopenInv ==
  ASSUME IInv, Reopen
  PROVE  IInv'
<1>1. PICK m \in Methods : m = ctl.m
  BY CtlFacts
<1>2. /\ TypeOK /\ MethodInv(m) /\ session[m].open /\ ~session[m].active
      /\ Quiet(m) /\ Armed(m) /\ ctl.at = "reopen"
      /\ phase \notin {"retrying", "down", "deferred"}
  BY <1>1, CtlFacts DEF Reopen, CtlInv, AttachStep, PhaseInv
<1>3. UNCHANGED <<session, patch, call, phase>> /\ TypeOK'
  BY ControlTypes DEF Reopen, IInv, ControlStep
<1>4. ctl'.at = "activate" /\ ctl'.m = m
  BY <1>1, <1>2, GotoFacts DEF Reopen
<1>5. /\ flight'[m].accepting /\ flight'[m].count = 0
      /\ \A n \in Methods \ {m} : flight'[n] = flight[n]
  BY <1>1, <1>2 DEF Reopen, OpenGate, TypeOK
<1>6. OthersKept(m) /\ flight'[m].count = flight[m].count
  BY <1>2, <1>3, <1>5 DEF OthersKept, Quiet
<1>7. MethodInv(m)'
  BY <1>2, <1>3, <1>4, <1>5
  DEF MethodInv, ClosedInv, HookInv, ActiveInv, PendingInv, RestInv, Armed, Quiet, Working
<1>8. CtlInv'
  BY <1>2, <1>3, <1>4, <1>5 DEF CtlInv, GateStep, DrainStep, DetachStep, AttachStep, Armed
<1>9. PhaseInv'
  BY <1>2, <1>3 DEF PhaseInv
<1>10. QED
  BY <1>1, <1>3, <1>4, <1>6, <1>7, <1>8, <1>9, KeepFrame

LEMMA ActivateInv ==
  ASSUME IInv, Activate
  PROVE  IInv'
<1>1. PICK m \in Methods : m = ctl.m
  BY CtlFacts
<1>2. /\ TypeOK /\ MethodInv(m) /\ session[m].open /\ session[m] \in Session
      /\ ~session[m].detach_pending /\ flight[m].accepting /\ Armed(m) /\ ctl.at = "activate"
      /\ phase \notin {"retrying", "down", "deferred"}
  BY <1>1, CtlFacts DEF Activate, CtlInv, AttachStep, PhaseInv
<1>3. UNCHANGED <<flight, patch, call, phase>> /\ TypeOK'
  BY ControlTypes DEF Activate, IInv, ControlStep
<1>4. ctl'.at = "idle"
  BY IdleRests DEF Activate
<1>5. /\ session'[m].open /\ session'[m].active /\ session'[m].stub = session[m].stub
      /\ session'[m].detach_pending = session[m].detach_pending
      /\ session'[m].mid_hook = session[m].mid_hook /\ session'[m].site_hook = session[m].site_hook
      /\ session'[m].captures_return = session[m].captures_return
      /\ \A n \in Methods \ {m} : session'[n] = session[n]
  BY <1>1, <1>2 DEF Activate, TypeOK, Session
<1>6. OthersKept(m)
  BY <1>3, <1>5 DEF OthersKept
<1>7. MethodInv(m)'
  BY <1>2, <1>3, <1>5
  DEF MethodInv, ClosedInv, HookInv, ActiveInv, PendingInv, RestInv, Armed
<1>8. CtlInv'
  BY <1>4, CtlRests
<1>9. PhaseInv'
  BY <1>2, <1>3 DEF PhaseInv
<1>10. QED
  BY <1>1, <1>2, <1>3, <1>4, <1>5, <1>6, <1>7, <1>8, <1>9, KeepFrame

LEMMA CloseGateInv ==
  ASSUME IInv, CloseGate
  PROVE  IInv'
<1>1. PICK m \in Methods : m = ctl.m
  BY CtlFacts
<1>2. /\ TypeOK /\ MethodInv(m) /\ session[m].open /\ ~session[m].active
      /\ ~session[m].detach_pending /\ GateStep(m) /\ ctl.at = "gate" /\ flight[m] \in Gate
      /\ phase \notin {"retrying", "down", "deferred"}
  BY <1>1, CtlFacts DEF CloseGate, CtlInv, PhaseInv
<1>3. UNCHANGED <<session, patch, call, phase>> /\ TypeOK'
  BY ControlTypes DEF CloseGate, IInv, ControlStep
<1>4. ctl'.at = "drain" /\ ctl'.m = m /\ ctl'.op = ctl.op /\ ctl'.resume = ctl.resume
  BY <1>1, <1>2, GotoFacts DEF CloseGate
<1>5. /\ ~flight'[m].accepting /\ flight'[m].count = flight[m].count
      /\ \A n \in Methods \ {m} : flight'[n] = flight[n]
  BY <1>1, <1>2 DEF CloseGate, Gate, TypeOK
<1>6. OthersKept(m)
  BY <1>3, <1>5 DEF OthersKept
<1>7. MethodInv(m)'
  BY <1>2, <1>3, <1>4, <1>5
  DEF MethodInv, ClosedInv, HookInv, ActiveInv, PendingInv, RestInv, Working
<1>8. CtlInv'
  BY <1>2, <1>3, <1>4, <1>5
  DEF CtlInv, GateStep, DrainStep, DetachStep, AttachStep, Armed
<1>9. PhaseInv'
  BY <1>2, <1>3 DEF PhaseInv
<1>10. QED
  BY <1>1, <1>3, <1>4, <1>5, <1>6, <1>7, <1>8, <1>9, KeepFrame

LEMMA DrainedInv ==
  ASSUME IInv, Drained
  PROVE  IInv'
<1>1. PICK m \in Methods : m = ctl.m
  BY CtlFacts
<1>2. /\ TypeOK /\ MethodInv(m) /\ session[m].open /\ ~session[m].active
      /\ ~session[m].detach_pending /\ DrainStep(m) /\ ctl.at = "drain" /\ flight[m].count = 0
      /\ phase \notin {"retrying", "down", "deferred"}
  BY <1>1, CtlFacts DEF Drained, CtlInv, PhaseInv
<1>3. UNCHANGED <<session, flight, patch, call, phase>> /\ TypeOK'
  BY ControlTypes DEF Drained, IInv, ControlStep
<1>4. /\ ctl'.at = IF ctl.op = "clear" THEN "reset" ELSE "detach"
      /\ ctl'.m = m /\ ctl'.op = ctl.op /\ ctl'.resume = ctl.resume
  BY <1>1, <1>2, GotoFacts DEF Drained
<1>5. Quiet(m)
  BY <1>2 DEF DrainStep, Quiet
<1>6. OthersKept(m)
  BY <1>3 DEF OthersKept
<1>7. MethodInv(m)'
  BY <1>2, <1>3, <1>4
  DEF MethodInv, ClosedInv, HookInv, ActiveInv, PendingInv, RestInv, Working
<1>8. CtlInv'
  BY <1>2, <1>3, <1>4, <1>5
  DEF CtlInv, GateStep, DrainStep, DetachStep, AttachStep, Armed, Quiet, Bare, NoEntryHook, StopOps
<1>9. PhaseInv'
  BY <1>2, <1>3 DEF PhaseInv
<1>10. QED
  BY <1>1, <1>3, <1>4, <1>6, <1>7, <1>8, <1>9, KeepFrame

LEMMA DrainTimeoutInv ==
  ASSUME IInv, DrainTimeout
  PROVE  IInv'
<1>1. PICK m \in Methods : m = ctl.m
  BY CtlFacts
<1>2. /\ TypeOK /\ MethodInv(m) /\ session[m].open /\ ~session[m].active
      /\ session[m] \in Session /\ DrainStep(m) /\ ctl.at = "drain" /\ flight[m].count # 0
      /\ phase \notin {"retrying", "down", "deferred"}
  BY <1>1, CtlFacts DEF DrainTimeout, CtlInv, PhaseInv
<1>3. UNCHANGED <<flight, patch, call, phase>> /\ TypeOK'
  BY ControlTypes DEF DrainTimeout, IInv, ControlStep
<1>4. \/ ctl'.at = "idle"
      \/ ctl'.at = "close" /\ ctl'.m = m /\ ctl'.op = "unwatch"
  BY <1>1, <1>2, FinishFacts DEF DrainTimeout
<1>5. /\ session'[m] = [session[m] EXCEPT !.detach_pending = TRUE]
      /\ \A n \in Methods \ {m} : session'[n] = session[n]
  BY <1>1, <1>2 DEF DrainTimeout, TypeOK
<1>6. /\ session'[m].detach_pending /\ session'[m].open /\ ~session'[m].active
      /\ session'[m].stub = session[m].stub /\ session'[m].mid_hook = session[m].mid_hook
      /\ session'[m].site_hook = session[m].site_hook
      /\ session'[m].captures_return = session[m].captures_return
  BY <1>2, <1>5 DEF Session
<1>7. OthersKept(m)
  BY <1>3, <1>5 DEF OthersKept
<1>8. MethodInv(m)'
  BY <1>2, <1>3, <1>4, <1>6
  DEF MethodInv, ClosedInv, HookInv, ActiveInv, PendingInv, RestInv, Working, DrainStep
<1>9. CtlInv'
  BY <1>4, CtlRests DEF CtlInv, GateStep, DrainStep, DetachStep, AttachStep
<1>10. PhaseInv'
  BY <1>2, <1>3 DEF PhaseInv
<1>11. QED
  BY <1>1, <1>3, <1>4, <1>6, <1>7, <1>8, <1>9, <1>10, KeepFrame

LEMMA DetachInv ==
  ASSUME IInv, Detach
  PROVE  IInv'
<1>1. PICK m \in Methods : m = ctl.m
  BY CtlFacts
<1>2. PICK sitesOk \in BOOLEAN, entryOk \in BOOLEAN : DetachWith(m, sitesOk, entryOk)
  BY <1>1 DEF Detach
<1> DEFINE dropStub == HasDetour(m) /\ entryOk /\ (session[m].site_hook => sitesOk)
           detached == /\ session[m].site_hook => sitesOk
                       /\ HasDetour(m) \/ (~session[m].captures_return /\ session[m].mid_hook)
                          => entryOk
<1>3. /\ TypeOK /\ MethodInv(m) /\ session[m].open /\ ~session[m].active
      /\ session[m] \in Session /\ patch[m] \in Patch /\ DetachStep(m) /\ ctl.at = "detach"
      /\ phase \in {"retrying", "down", "deferred"} => ctl.op = "poll"
      /\ PhaseInv
  BY <1>1, CtlFacts DEF Detach, CtlInv, PhaseInv
<1>4. UNCHANGED <<flight, call, phase>> /\ TypeOK'
  BY ControlTypes DEF Detach, IInv, ControlStep
<1>5. \/ detached /\ ctl'.at = "release" /\ ctl'.m = m /\ ctl'.op = ctl.op
      \/ ~detached /\ ctl'.at = "idle"
      \/ ~detached /\ ctl'.at = "close" /\ ctl'.m = m /\ ctl'.op = "unwatch" /\ ctl.op = "unwatch"
  BY <1>1, <1>2, <1>3, GotoFacts, FinishFacts DEF DetachWith
<1>6. /\ session'[m] = [session[m] EXCEPT
          !.site_hook = session[m].site_hook /\ ~DropSite(m, sitesOk),
          !.mid_hook = session[m].mid_hook /\ ~DropMid(m, entryOk),
          !.detach_pending = session[m].detach_pending \/ ~detached]
      /\ \A n \in Methods \ {m} : session'[n] = session[n]
  BY <1>2, <1>3 DEF DetachWith, TypeOK
<1>7. /\ session'[m].open /\ ~session'[m].active
      /\ session'[m].stub = session[m].stub
      /\ session'[m].captures_return = session[m].captures_return
      /\ session'[m].site_hook <=> session[m].site_hook /\ ~sitesOk
      /\ session'[m].mid_hook <=> session[m].mid_hook /\ (session[m].captures_return \/ ~entryOk)
      /\ session'[m].detach_pending <=> session[m].detach_pending \/ ~detached
  BY <1>3, <1>6 DEF Session, DropSite, DropMid
<1>8. /\ patch'[m].mid = Less(patch[m].mid, DropMid(m, entryOk))
      /\ patch'[m].stub = Less(patch[m].stub, dropStub)
      /\ patch'[m].site = Less(patch[m].site, DropSite(m, sitesOk))
      /\ \A n \in Methods \ {m} : patch'[n] = patch[n]
  BY <1>2, <1>3 DEF DetachWith, TypeOK
<1>9. HookInv(m) /\ patch[m].mid \in Nat /\ patch[m].stub \in Nat /\ patch[m].site \in Nat
  BY <1>3, BoundsAssumption DEF MethodInv, Patch
<1>10. HookInv(m)'
  BY <1>7, <1>8, <1>9 DEF HookInv, Less, DropMid, DropSite, HasDetour
<1>11. detached => NoEntryHook(m)'
  BY <1>7, <1>8, <1>9 DEF HookInv, Less, DropMid, HasDetour, NoEntryHook
<1>12. /\ flight'[m] = flight[m] /\ ~flight[m].accepting /\ flight[m].count = 0
       /\ ctl.op \in {"stop", "unwatch", "capture", "poll"}
  BY <1>3, <1>4 DEF DetachStep
<1> HIDE DEF dropStub, detached
<1>13. MethodInv(m)'
  BY <1>3, <1>5, <1>7, <1>10, <1>12
  DEF MethodInv, ClosedInv, ActiveInv, PendingInv, RestInv, Working
<1>14. CtlInv'
  BY <1>5, <1>7, <1>11, <1>12 DEF CtlInv, GateStep, DrainStep, DetachStep, AttachStep
<1>15. PhaseInv'
  <2>1. \A n \in Methods : ~session[n].active => ~session'[n].active
    BY <1>6, <1>7
  <2>2. QED
    BY <1>3, <1>4, <1>5, <2>1 DEF PhaseInv
<1>16. OthersKept(m)
  BY <1>4, <1>6, <1>8 DEF OthersKept
<1>17. QED
  BY <1>1, <1>4, <1>5, <1>7, <1>12, <1>13, <1>14, <1>15, <1>16, KeepFrame

LEMMA ReleaseInv ==
  ASSUME IInv, Release
  PROVE  IInv'
<1>1. PICK m \in Methods : m = ctl.m
  BY CtlFacts
<1>2. /\ TypeOK /\ MethodInv(m) /\ session[m].open /\ ~session[m].active
      /\ session[m] \in Session /\ ctl.at = "release"
      /\ ~flight[m].accepting /\ flight[m].count = 0 /\ NoEntryHook(m)
      /\ phase \in {"retrying", "down", "deferred"} => ctl.op = "poll"
      /\ PhaseInv
  BY <1>1, CtlFacts DEF Release, CtlInv, DetachStep, PhaseInv
<1>3. UNCHANGED <<flight, patch, phase>> /\ TypeOK'
  BY ControlTypes DEF Release, IInv, ControlStep
<1>4. \/ ctl'.at = "idle" /\ ctl.op # "capture"
      \/ ctl'.at = "close" /\ ctl'.m = m /\ ctl'.op = "unwatch" /\ ctl.op = "unwatch"
      \/ ctl'.at = "convert" /\ ctl'.m = m /\ ctl'.op = "capture" /\ ctl.op = "capture"
  BY <1>1, <1>2, GotoFacts, FinishFacts DEF Release
<1>5. /\ session'[m] = [session[m] EXCEPT !.detach_pending = FALSE, !.stub = FALSE]
      /\ \A n \in Methods \ {m} : session'[n] = session[n]
  BY <1>1, <1>2 DEF Release, TypeOK
<1>6. /\ session'[m].open /\ ~session'[m].active /\ ~session'[m].detach_pending /\ ~session'[m].stub
      /\ session'[m].mid_hook = session[m].mid_hook /\ session'[m].site_hook = session[m].site_hook
      /\ session'[m].captures_return = session[m].captures_return
  BY <1>2, <1>5 DEF Session
<1>7. OthersKept(m)
  BY <1>3, <1>5 DEF OthersKept
<1>8. OnlyUncountedLost /\ \A c \in Calls : CallInv(c)'
  <2>1. CASE session[m].stub
    <3>1. Lose(InStub(m))
      BY <1>1, <2>1 DEF Release
    <3>2. QED
      BY <1>2, <1>6, <1>7, <3>1, CallsLost
  <2>2. CASE ~session[m].stub
    BY <1>1, <1>2, <1>6, <1>7, <2>2, CallsKept DEF Release
  <2>3. QED
    BY <2>1, <2>2
<1>9. Quiet(m)' /\ Bare(m)'
  BY <1>2, <1>3, <1>6 DEF Quiet, Bare, NoEntryHook
<1>10. MethodInv(m)'
  BY <1>2, <1>3, <1>6, <1>9
  DEF MethodInv, ClosedInv, HookInv, ActiveInv, PendingInv, RestInv, NoEntryHook
<1>11. CtlInv'
  BY <1>4, <1>6, <1>9 DEF CtlInv, GateStep, DrainStep, DetachStep, AttachStep
<1>12. PhaseInv'
  <2>1. \A n \in Methods : ~session[n].active => ~session'[n].active
    BY <1>5, <1>6
  <2>2. QED
    BY <1>2, <1>3, <1>4, <2>1 DEF PhaseInv
<1>13. flight'[m].count = flight[m].count /\ (ctl'.m = m \/ ctl'.at = "idle")
  BY <1>3, <1>4
<1>14. QED
  BY <1>1, <1>3, <1>7, <1>8, <1>10, <1>11, <1>12, <1>13, ControlFrame

LEMMA ConvertInv ==
  ASSUME IInv, Convert
  PROVE  IInv'
<1>1. PICK m \in Methods : m = ctl.m
  BY CtlFacts
<1>2. /\ TypeOK /\ MethodInv(m) /\ session[m].open /\ ~session[m].active
      /\ session[m] \in Session /\ ctl.at = "convert" /\ ctl.op = "capture"
      /\ Quiet(m) /\ Bare(m)
      /\ phase \notin {"retrying", "down", "deferred"}
  BY <1>1, CtlFacts DEF Convert, CtlInv, AttachStep, PhaseInv
<1>3. UNCHANGED <<flight, patch, call, phase>> /\ TypeOK'
  BY ControlTypes DEF Convert, IInv, ControlStep
<1>4. \/ ctl'.at = "idle" /\ session' = session
      \/ /\ ctl'.at = "reset" /\ ctl'.m = m /\ ctl'.op = "capture"
         /\ session' = [session EXCEPT ![m] = [session[m] EXCEPT !.stub = TRUE, !.captures_return = TRUE]]
  BY <1>1, <1>2, GotoFacts, IdleRests DEF Convert
<1>5. /\ session'[m].open /\ ~session'[m].active /\ ~session'[m].detach_pending
      /\ ~session'[m].mid_hook /\ session'[m].site_hook = session[m].site_hook
      /\ session'[m].stub => ctl'.at = "reset"
      /\ \A n \in Methods \ {m} : session'[n] = session[n]
  <2>1. CASE session' = session
    BY <1>2, <2>1 DEF Quiet, Bare, NoEntryHook
  <2>2. CASE /\ ctl'.at = "reset"
             /\ session' = [session EXCEPT ![m] =
                  [session[m] EXCEPT !.stub = TRUE, !.captures_return = TRUE]]
    <3>1. session'[m] = [session[m] EXCEPT !.stub = TRUE, !.captures_return = TRUE]
      BY <1>2, <2>2 DEF TypeOK
    <3>2. QED
      BY <1>2, <2>2, <3>1 DEF Session, TypeOK, Quiet, Bare, NoEntryHook
  <2>3. QED
    BY <1>4, <2>1, <2>2
<1>6. OthersKept(m)
  BY <1>3, <1>5 DEF OthersKept
<1>7. Quiet(m)' /\ NoEntryHook(m)'
  BY <1>2, <1>3, <1>5 DEF Quiet, Bare, NoEntryHook
<1>8. MethodInv(m)'
  BY <1>2, <1>3, <1>4, <1>5, <1>7
  DEF MethodInv, ClosedInv, HookInv, ActiveInv, PendingInv, RestInv, Working, Bare, NoEntryHook
<1>9. CtlInv'
  BY <1>4, <1>5, <1>7 DEF CtlInv, GateStep, DrainStep, DetachStep, AttachStep
<1>10. PhaseInv'
  BY <1>2, <1>3 DEF PhaseInv
<1>11. QED
  BY <1>1, <1>2, <1>3, <1>4, <1>5, <1>6, <1>8, <1>9, <1>10, KeepFrame DEF Bare

\* attach_session: what a successful and a refused attach leave behind.
LEMMA AttachShape ==
  ASSUME TypeOK, NEW m \in Methods, NEW sitesOk \in BOOLEAN, NEW entryOk \in BOOLEAN,
         HookInv(m), NoEntryHook(m),
         NEW hooked, hooked = Hooked(m, sitesOk, entryOk),
         NEW branches, branches = Patched(m, sitesOk, entryOk)
  PROVE  /\ hooked.open = session[m].open /\ hooked.active = session[m].active
         /\ hooked.detach_pending = session[m].detach_pending /\ hooked.stub = session[m].stub
         /\ hooked.captures_return = session[m].captures_return
         /\ hooked \in Session
         /\ branches.mid = IF hooked.mid_hook THEN 1 ELSE 0
         /\ branches.stub \in {0, 1}
         /\ branches.stub = 1 => session[m].stub /\ session[m].captures_return /\ m \notin Tiny
         /\ hooked.mid_hook => ~session[m].captures_return /\ m \notin Tiny
         /\ hooked.site_hook => branches.site > 0
         /\ Attached(m, sitesOk, entryOk) => branches.mid > 0 \/ branches.stub > 0 \/ branches.site > 0
         /\ ~Attached(m, sitesOk, entryOk) => ~hooked.mid_hook /\ branches.mid = 0 /\ branches.stub = 0
<1>1. /\ session[m] \in Session
      /\ patch[m].mid = 0 /\ patch[m].stub = 0 /\ patch[m].site \in Nat /\ ~session[m].mid_hook
      /\ session[m].site_hook => patch[m].site > 0
  BY BoundsAssumption DEF TypeOK, Patch, HookInv, NoEntryHook
<1>2. /\ NewSite(m, sitesOk) \in BOOLEAN /\ NewMid(m, entryOk) \in BOOLEAN /\ NewStub(m, entryOk) \in BOOLEAN
      /\ NewMid(m, entryOk) => m \notin Tiny /\ ~session[m].captures_return
      /\ NewStub(m, entryOk) => m \notin Tiny /\ session[m].captures_return /\ session[m].stub
      /\ Attached(m, sitesOk, entryOk) =>
           NewMid(m, entryOk) \/ NewStub(m, entryOk) \/ session[m].site_hook \/ NewSite(m, sitesOk)
      /\ ~Attached(m, sitesOk, entryOk) => ~NewMid(m, entryOk) /\ ~NewStub(m, entryOk)
  BY DEF NewSite, NewMid, NewStub, Attached
<1> DEFINE site == session[m].site_hook \/ NewSite(m, sitesOk)
           mid == IF m \in Tiny \/ session[m].captures_return
                  THEN session[m].mid_hook ELSE NewMid(m, entryOk)
<1>3. site \in BOOLEAN /\ mid \in BOOLEAN
  BY <1>1, <1>2 DEF Session
<1>4. hooked = [session[m] EXCEPT !.site_hook = site, !.mid_hook = mid]
  BY DEF Hooked
<1>5. mid <=> NewMid(m, entryOk)
  BY <1>1, <1>2
<1> HIDE DEF site, mid
<1>6. /\ hooked.open = session[m].open /\ hooked.active = session[m].active
      /\ hooked.detach_pending = session[m].detach_pending /\ hooked.stub = session[m].stub
      /\ hooked.captures_return = session[m].captures_return
      /\ hooked.site_hook = site /\ hooked.mid_hook = mid
      /\ hooked \in Session
  BY <1>1, <1>3, <1>4 DEF Session
<1>7. /\ branches.mid = IF NewMid(m, entryOk) THEN 1 ELSE 0
      /\ branches.stub = IF NewStub(m, entryOk) THEN 1 ELSE 0
      /\ branches.site = IF NewSite(m, sitesOk) THEN patch[m].site + 1 ELSE patch[m].site
  BY <1>1 DEF Patched
<1>8. site => branches.site > 0
  BY <1>1, <1>7 DEF site
<1>9. QED
  BY <1>1, <1>2, <1>5, <1>6, <1>7, <1>8 DEF site

LEMMA AttachInv ==
  ASSUME IInv, Attach
  PROVE  IInv'
<1>1. PICK m \in Methods : m = ctl.m
  BY CtlFacts
<1>2. PICK sitesOk \in BOOLEAN, entryOk \in BOOLEAN : AttachWith(m, sitesOk, entryOk)
  BY <1>1 DEF Attach
<1> DEFINE hooked == Hooked(m, sitesOk, entryOk)
           branches == Patched(m, sitesOk, entryOk)
<1>3. /\ TypeOK /\ MethodInv(m) /\ HookInv(m) /\ session[m].open /\ ~session[m].active
      /\ ~session[m].detach_pending /\ ctl.at = "attach" /\ AttachStep(m) /\ NoEntryHook(m)
      /\ ctl.op \in {"new", "start", "capture"} /\ flight[m].count = 0
      /\ phase \notin {"retrying", "down", "deferred"}
  BY <1>1, CtlFacts DEF Attach, CtlInv, AttachStep, PhaseInv, MethodInv, Quiet
<1>4. UNCHANGED <<flight, phase>> /\ TypeOK'
  BY ControlTypes DEF Attach, IInv, ControlStep
<1>5. patch'[m] = branches /\ \A n \in Methods \ {m} : patch'[n] = patch[n]
  BY <1>2, <1>3 DEF AttachWith, TypeOK
<1>6. /\ hooked.open /\ ~hooked.active /\ ~hooked.detach_pending
      /\ hooked.stub = session[m].stub /\ hooked.captures_return = session[m].captures_return
      /\ hooked \in Session
      /\ branches.mid = IF hooked.mid_hook THEN 1 ELSE 0
      /\ branches.stub \in {0, 1}
      /\ branches.stub = 1 => session[m].stub /\ session[m].captures_return /\ m \notin Tiny
      /\ hooked.mid_hook => ~session[m].captures_return /\ m \notin Tiny
      /\ hooked.site_hook => branches.site > 0
      /\ Attached(m, sitesOk, entryOk) => branches.mid > 0 \/ branches.stub > 0 \/ branches.site > 0
      /\ ~Attached(m, sitesOk, entryOk) => ~hooked.mid_hook /\ branches.mid = 0 /\ branches.stub = 0
  BY <1>3, AttachShape
<1> HIDE DEF hooked, branches
<1>7. PhaseInv'
  BY <1>3, <1>4 DEF PhaseInv
<1>8. CASE Attached(m, sitesOk, entryOk)
  <2>1. /\ session'[m] = hooked /\ \A n \in Methods \ {m} : session'[n] = session[n]
        /\ call' = call
    BY <1>2, <1>3, <1>8 DEF AttachWith, TypeOK, hooked
  <2>2. /\ ctl'.at = IF ctl.op = "new" THEN "activate" ELSE "reopen"
        /\ ctl'.m = m
    BY <1>1, <1>2, <1>3, <1>8, GotoFacts DEF AttachWith
  <2>3. OthersKept(m)
    BY <1>4, <1>5, <2>1 DEF OthersKept
  <2>4. MethodInv(m)'
    BY <1>4, <1>5, <1>6, <2>1, <2>2
    DEF MethodInv, ClosedInv, HookInv, ActiveInv, PendingInv, RestInv, Working
  <2>5. Armed(m)' /\ (ctl'.at = "reopen" => Quiet(m)') /\ (ctl'.at = "activate" => flight'[m].accepting)
    BY <1>3, <1>4, <1>5, <1>6, <1>8, <2>1, <2>2 DEF Armed, Quiet, AttachStep
  <2>6. CtlInv'
    BY <1>6, <2>1, <2>2, <2>5 DEF CtlInv, GateStep, DrainStep, DetachStep, AttachStep
  <2>7. QED
    BY <1>1, <1>3, <1>4, <1>6, <1>7, <2>1, <2>2, <2>3, <2>4, <2>6, KeepFrame
<1>9. CASE ~Attached(m, sitesOk, entryOk)
  <2>1. ctl'.at = "idle" /\ AttachRefused(m, hooked)
    BY <1>2, <1>9, IdleRests DEF AttachWith, AttachRefused, hooked
  <2>2. CtlInv'
    BY <2>1, CtlRests
  <2>3. CASE ctl.op = "new"
    <3>1. /\ session'[m] = Closed /\ Lose(InStub(m) \cup BeforeGate(m))
          /\ \A n \in Methods \ {m} : session'[n] = session[n]
      BY <1>3, <2>1, <2>3 DEF AttachRefused, TypeOK
    <3>2. OthersKept(m)
      BY <1>4, <1>5, <3>1 DEF OthersKept
    <3>3. OnlyUncountedLost /\ \A c \in Calls : CallInv(c)'
      BY <1>3, <3>1, <3>2, CallsLost
    <3>4. MethodInv(m)'
      BY <1>3, <1>4, <1>5, <1>6, <1>9, <3>1
      DEF MethodInv, ClosedInv, HookInv, ActiveInv, PendingInv, RestInv, Closed
    <3>5. QED
      BY <1>1, <1>4, <1>7, <2>1, <2>2, <3>2, <3>3, <3>4, ControlFrame
  <2>4. CASE ctl.op = "capture"
    <3>1. /\ session'[m] = [hooked EXCEPT !.captures_return = FALSE, !.stub = FALSE]
          /\ Lose(InStub(m))
          /\ \A n \in Methods \ {m} : session'[n] = session[n]
      BY <1>3, <2>1, <2>4 DEF AttachRefused, TypeOK
    <3>2. OthersKept(m)
      BY <1>4, <1>5, <3>1 DEF OthersKept
    <3>3. /\ session'[m].open /\ ~session'[m].active /\ ~session'[m].detach_pending
          /\ ~session'[m].stub /\ ~session'[m].mid_hook
          /\ session'[m].site_hook = hooked.site_hook
      BY <1>6, <1>9, <3>1 DEF Session
    <3>4. OnlyUncountedLost /\ \A c \in Calls : CallInv(c)'
      BY <1>3, <3>1, <3>2, <3>3, CallsLost
    <3>5. Quiet(m)' /\ Bare(m)'
      BY <1>3, <1>4, <1>5, <1>6, <1>9, <2>4, <3>3 DEF Quiet, Bare, NoEntryHook, AttachStep
    <3>6. MethodInv(m)'
      BY <1>4, <1>5, <1>6, <1>9, <3>3, <3>5
      DEF MethodInv, ClosedInv, HookInv, ActiveInv, PendingInv, RestInv
    <3>7. QED
      BY <1>1, <1>4, <1>7, <2>1, <2>2, <3>2, <3>4, <3>6, ControlFrame
  <2>5. CASE ctl.op = "start"
    <3>1. /\ session'[m] = hooked /\ call' = call
          /\ \A n \in Methods \ {m} : session'[n] = session[n]
      BY <1>3, <2>1, <2>5 DEF AttachRefused, TypeOK
    <3>2. OthersKept(m)
      BY <1>4, <1>5, <3>1 DEF OthersKept
    <3>3. Quiet(m)' /\ Bare(m)'
      BY <1>3, <1>4, <1>5, <1>6, <1>9, <2>5, <3>1 DEF Quiet, Bare, NoEntryHook, AttachStep
    <3>4. MethodInv(m)'
      BY <1>4, <1>5, <1>6, <1>9, <3>1, <3>3
      DEF MethodInv, ClosedInv, HookInv, ActiveInv, PendingInv, RestInv
    <3>5. QED
      BY <1>1, <1>3, <1>4, <1>6, <1>7, <2>1, <2>2, <3>1, <3>2, <3>4, KeepFrame
  <2>6. QED
    BY <1>3, <2>3, <2>4, <2>5
<1>10. QED
  BY <1>8, <1>9

\* close() and the close that ends a watch: at rest the session is bare.
LEMMA CloseSessionInv ==
  ASSUME IInv, NEW m \in Methods, CloseSession(m), TypeOK',
         UNCHANGED <<flight, patch, phase>>,
         ~Working(m), ctl.m = m \/ ctl.at = "idle", ctl'.at = "idle", PhaseInv'
  PROVE  IInv'
<1>1. TypeOK /\ MethodInv(m) /\ session[m] \in Session
  BY DEF IInv, TypeOK
<1>2. CtlInv'
  BY CtlRests
<1>3. CASE session' = [session EXCEPT ![m] = Closed] /\ Lose(BeforeGate(m))
           /\ flight[m].count = 0 /\ session[m].open /\ ~session[m].stub
           /\ ~session[m].active /\ ~session[m].detach_pending
  <2>1. session'[m] = Closed /\ \A n \in Methods \ {m} : session'[n] = session[n]
    BY <1>1, <1>3 DEF TypeOK
  <2>2. OthersKept(m)
    BY <2>1 DEF OthersKept
  <2>3. OnlyUncountedLost /\ \A c \in Calls : CallInv(c)'
    BY <1>3, <2>1, <2>2, CallsLost
  <2>4. MethodInv(m)'
    BY <1>1, <1>3, <2>1
    DEF MethodInv, ClosedInv, HookInv, ActiveInv, PendingInv, RestInv, Closed, Bare, NoEntryHook
  <2>5. QED
    BY <1>2, <2>2, <2>3, <2>4, ControlFrame
<1>4. CASE session' = [session EXCEPT ![m].visible = FALSE] /\ UNCHANGED call
           /\ session[m].open
  <2>1. /\ session'[m] = [session[m] EXCEPT !.visible = FALSE]
        /\ \A n \in Methods \ {m} : session'[n] = session[n]
    BY <1>1, <1>4 DEF TypeOK
  <2>2. /\ session'[m].open /\ session'[m].active = session[m].active
        /\ session'[m].detach_pending = session[m].detach_pending
        /\ session'[m].stub = session[m].stub /\ session'[m].mid_hook = session[m].mid_hook
        /\ session'[m].site_hook = session[m].site_hook
        /\ session'[m].captures_return = session[m].captures_return
    BY <1>1, <1>4, <2>1 DEF Session
  <2>3. OthersKept(m)
    BY <2>1 DEF OthersKept
  <2>4. MethodInv(m)'
    <3>1. ClosedInv(m)' /\ HookInv(m)' /\ ActiveInv(m)' /\ PendingInv(m)'
      BY <1>1, <2>2 DEF MethodInv, ClosedInv, HookInv, ActiveInv, PendingInv, Armed, Working
    <3>2. RestInv(m)'
      BY <1>1, <1>4, <2>2 DEF MethodInv, RestInv, Quiet, Bare, NoEntryHook
    <3>3. QED
      BY <3>1, <3>2 DEF MethodInv
  <2>5. QED
    BY <1>2, <1>4, <2>2, <2>3, <2>4, KeepFrame
<1>5. CASE UNCHANGED <<session, call>>
  <2>1. OthersKept(m)
    BY <1>5 DEF OthersKept
  <2>2. MethodInv(m)'
    BY <1>1, <1>5
    DEF MethodInv, ClosedInv, HookInv, ActiveInv, PendingInv, RestInv, Armed, Quiet, Bare,
        NoEntryHook, Working
  <2>3. QED
    BY <1>2, <1>5, <2>1, <2>2, KeepFrame
<1>6. QED
  BY <1>3, <1>4, <1>5 DEF CloseSession

LEMMA CloseWatchInv ==
  ASSUME IInv, CloseWatch
  PROVE  IInv'
<1>1. PICK m \in Methods : m = ctl.m
  BY CtlFacts
<1>2. /\ CloseSession(m) /\ UNCHANGED <<flight, patch, phase>> /\ ctl'.at = "idle"
      /\ ctl.at = "close" /\ ~Working(m)
  BY <1>1, IdleRests DEF CloseWatch, Working
<1>3. TypeOK' /\ phase \notin {"retrying", "down", "deferred"}
  BY <1>2, CtlFacts, ControlTypes DEF CloseWatch, IInv, ControlStep, PhaseInv
<1>4. PhaseInv'
  BY <1>2, <1>3 DEF PhaseInv
<1>5. QED
  BY <1>1, <1>2, <1>3, <1>4, CloseSessionInv

LEMMA ControlStepInv ==
  ASSUME IInv, ControlStep
  PROVE  IInv'
  BY ResetRecordsInv, AttachInv, ReopenInv, ActivateInv, CloseGateInv, DrainedInv,
     DrainTimeoutInv, DetachInv, ReleaseInv, ConvertInv, CloseWatchInv
  DEF ControlStep

-----------------------------------------------------------------------------
(***************************************************************************)
(* Requests.                                                               *)
(***************************************************************************)
LEMMA BeginFacts ==
  ASSUME NEW op, NEW m, NEW at, NEW resume, Begin(op, m, at, resume)
  PROVE  ctl'.op = op /\ ctl'.m = m /\ ctl'.at = at /\ ctl'.resume = resume
  BY DEF Begin

\* deactivate() of an active session, whichever operation asks for it.
LEMMA DeactivateInv ==
  ASSUME IInv, TypeOK', NEW m \in Methods, session[m].active, ctl.at = "idle",
         session' = [session EXCEPT ![m].active = FALSE],
         UNCHANGED <<flight, patch, call, phase>>, phase \in {"running", "stopping"},
         ctl'.at = "gate", ctl'.m = m, ctl'.op \in StopOps, ctl'.op = "clear" => ctl'.resume
  PROVE  IInv'
<1>1. TypeOK /\ MethodInv(m) /\ session[m] \in Session
  BY DEF IInv, TypeOK
<1>2. session[m].open /\ ~session[m].detach_pending /\ flight[m].accepting /\ Armed(m)
  BY <1>1 DEF MethodInv, ActiveInv
<1>3. /\ session'[m] = [session[m] EXCEPT !.active = FALSE]
      /\ \A n \in Methods \ {m} : session'[n] = session[n]
  BY <1>1 DEF TypeOK
<1>4. /\ session'[m].open /\ ~session'[m].active /\ ~session'[m].detach_pending
      /\ session'[m].stub = session[m].stub /\ session'[m].mid_hook = session[m].mid_hook
      /\ session'[m].site_hook = session[m].site_hook
      /\ session'[m].captures_return = session[m].captures_return
  BY <1>1, <1>2, <1>3 DEF Session
<1>5. OthersKept(m)
  BY <1>3 DEF OthersKept
<1>6. MethodInv(m)'
  BY <1>1, <1>4 DEF MethodInv, ClosedInv, HookInv, ActiveInv, PendingInv, RestInv, Working
<1>7. CtlInv'
  BY <1>2, <1>4 DEF CtlInv, GateStep, DrainStep, DetachStep, AttachStep, Armed
<1>8. PhaseInv'
  BY DEF PhaseInv
<1>9. QED
  BY <1>1, <1>2, <1>4, <1>5, <1>6, <1>7, <1>8, KeepFrame

\* An operation on a session that is at rest.
LEMMA FromRestInv ==
  ASSUME IInv, TypeOK', NEW m \in Methods, session[m].open,
         ~session[m].active, ~session[m].detach_pending, ctl.at = "idle",
         UNCHANGED <<session, flight, patch, call, phase>>, phase = "running",
         ctl'.m = m,
         \/ ctl'.at = "drain" /\ ctl'.op = "clear" /\ ~ctl'.resume
         \/ ctl'.at = "convert" /\ ctl'.op = "capture"
         \/ ctl'.at = "reset" /\ ctl'.op = "start"
  PROVE  IInv'
<1>1. TypeOK /\ MethodInv(m)
  BY DEF IInv
<1>2. Quiet(m) /\ Bare(m)
  BY <1>1 DEF MethodInv, RestInv, Working
<1>3. OthersKept(m)
  BY DEF OthersKept
<1>4. Quiet(m)' /\ Bare(m)'
  BY <1>2 DEF Quiet, Bare, NoEntryHook
<1>5. MethodInv(m)'
  BY <1>1, <1>4 DEF MethodInv, ClosedInv, HookInv, ActiveInv, PendingInv, RestInv, Armed
<1>6. CtlInv'
  BY <1>4 DEF CtlInv, GateStep, DrainStep, DetachStep, AttachStep, Quiet, Bare, StopOps
<1>7. PhaseInv'
  BY DEF PhaseInv
<1>8. QED
  BY <1>3, <1>5, <1>6, <1>7, KeepFrame

LEMMA StartNewInv ==
  ASSUME IInv, NEW m \in Methods, NEW capture_return \in BOOLEAN, NEW watch \in BOOLEAN,
         StartNew(m, capture_return, watch)
  PROVE  IInv'
<1>1. TypeOK /\ MethodInv(m) /\ ~session[m].open /\ ctl.at = "idle" /\ phase = "running"
  BY DEF IInv, StartNew, Ready
<1>2. session[m] = Closed /\ flight[m].count = 0 /\ patch[m].mid = 0 /\ patch[m].stub = 0
  BY <1>1 DEF MethodInv, ClosedInv
<1>3. UNCHANGED <<patch, call, phase>> /\ TypeOK'
  BY RequestTypes DEF StartNew, IInv, Request
<1>4. ctl'.at = "attach" /\ ctl'.m = m /\ ctl'.op = "new"
  BY BeginFacts DEF StartNew
<1>5. /\ session'[m].open /\ ~session'[m].active /\ ~session'[m].detach_pending
      /\ ~session'[m].mid_hook /\ ~session'[m].site_hook
      /\ \A n \in Methods \ {m} : session'[n] = session[n]
  BY <1>1 DEF StartNew, TypeOK, Closed
<1>6. /\ flight'[m].accepting /\ flight'[m].count = 0
      /\ \A n \in Methods \ {m} : flight'[n] = flight[n]
  BY <1>1 DEF StartNew, TypeOK, OpenGate
<1>7. OthersKept(m)
  BY <1>3, <1>5, <1>6 DEF OthersKept
<1>8. MethodInv(m)'
  BY <1>2, <1>3, <1>4, <1>5, <1>6
  DEF MethodInv, ClosedInv, HookInv, ActiveInv, PendingInv, RestInv, Working
<1>9. \A c \in Calls : call[c].m = m => call[c].pc # "prologue"
  BY <1>1 DEF IInv, CallInv
<1>10. CtlInv'
  BY <1>2, <1>3, <1>4, <1>5, <1>6, <1>9
  DEF CtlInv, GateStep, DrainStep, DetachStep, AttachStep, NoEntryHook
<1>11. PhaseInv'
  BY <1>1, <1>3 DEF PhaseInv
<1>12. ~session[m].stub
  BY <1>2 DEF Closed
<1>13. QED
  BY <1>1, <1>2, <1>3, <1>4, <1>6, <1>7, <1>8, <1>10, <1>11, <1>12, KeepFrame

LEMMA StartExistingInv ==
  ASSUME IInv, NEW m \in Methods, ~session[m].detach_pending, StartExisting(m)
  PROVE  IInv'
<1>1. TypeOK'
  BY RequestTypes DEF IInv
<1>2. ctl'.at = "reset" /\ ctl'.m = m /\ ctl'.op = "start"
  BY BeginFacts DEF StartExisting
<1>3. QED
  BY <1>1, <1>2, FromRestInv DEF StartExisting, Ready

LEMMA InactiveKept ==
  ASSUME TypeOK, NEW m \in Methods, ~session[m].active
  PROVE  [session EXCEPT ![m].active = FALSE] = session
<1>1. session \in [Methods -> Session] /\ session[m] \in Session
  BY DEF TypeOK
<1>2. [session[m] EXCEPT !.active = FALSE] = session[m]
  BY <1>1 DEF Session
<1>3. QED
  BY <1>1, <1>2

LEMMA UnwatchInv ==
  ASSUME IInv, NEW m \in Methods, Unwatch(m)
  PROVE  IInv'
<1>1. TypeOK' /\ TypeOK /\ MethodInv(m) /\ ctl.at = "idle" /\ phase = "running"
  BY RequestTypes DEF IInv, Request, Unwatch, Ready
<1>2. /\ ctl'.at = IF session[m].active THEN "gate" ELSE "close"
      /\ ctl'.m = m /\ ctl'.op = "unwatch"
  BY BeginFacts DEF Unwatch
<1>3. CASE session[m].active
  BY <1>1, <1>2, <1>3, DeactivateInv DEF Unwatch, StopOps
<1>4. CASE ~session[m].active
  <2>1. UNCHANGED <<session, flight, patch, call, phase>>
    BY <1>1, <1>4, InactiveKept DEF Unwatch
  <2>2. MethodInv(m)'
    BY <1>1, <1>2, <1>4, <2>1
    DEF MethodInv, ClosedInv, HookInv, ActiveInv, PendingInv, RestInv, Armed, Quiet, Bare,
        NoEntryHook, Working
  <2>3. CtlInv'
    BY <1>2, <1>4 DEF CtlInv, GateStep, DrainStep, DetachStep, AttachStep
  <2>4. PhaseInv'
    BY <1>1, <2>1 DEF PhaseInv
  <2>5. OthersKept(m)
    BY <2>1 DEF OthersKept
  <2>6. QED
    BY <1>1, <1>2, <2>1, <2>2, <2>3, <2>4, <2>5, KeepFrame
<1>5. QED
  BY <1>3, <1>4

LEMMA ClearInv ==
  ASSUME IInv, NEW m \in Methods, Clear(m)
  PROVE  IInv'
<1>1. TypeOK' /\ TypeOK /\ ctl.at = "idle" /\ phase = "running"
  BY RequestTypes DEF IInv, Request, Clear, Ready
<1>2. /\ ctl'.at = IF session[m].active THEN "gate" ELSE "drain"
      /\ ctl'.m = m /\ ctl'.op = "clear" /\ ctl'.resume = session[m].active
  BY BeginFacts DEF Clear
<1>3. CASE session[m].active
  BY <1>1, <1>2, <1>3, DeactivateInv DEF Clear, StopOps
<1>4. CASE ~session[m].active
  <2>1. UNCHANGED session
    BY <1>1, <1>4, InactiveKept DEF Clear
  <2>2. QED
    BY <1>1, <1>2, <1>4, <2>1, FromRestInv DEF Clear
<1>5. QED
  BY <1>3, <1>4

LEMMA CaptureReturnsInv ==
  ASSUME IInv, NEW m \in Methods, CaptureReturns(m)
  PROVE  IInv'
<1>1. TypeOK' /\ TypeOK /\ ctl.at = "idle" /\ phase = "running"
  BY RequestTypes DEF IInv, Request, CaptureReturns, Ready
<1>2. /\ ctl'.at = IF session[m].active THEN "gate" ELSE "convert"
      /\ ctl'.m = m /\ ctl'.op = "capture"
  BY BeginFacts DEF CaptureReturns
<1>3. CASE session[m].active
  BY <1>1, <1>2, <1>3, DeactivateInv DEF CaptureReturns, StopOps
<1>4. CASE ~session[m].active
  <2>1. UNCHANGED session
    BY <1>1, <1>4, InactiveKept DEF CaptureReturns
  <2>2. QED
    BY <1>1, <1>2, <1>4, <2>1, FromRestInv DEF CaptureReturns
<1>5. QED
  BY <1>3, <1>4

LEMMA PollInv ==
  ASSUME IInv, NEW m \in Methods, Poll(m)
  PROVE  IInv'
<1>1. /\ TypeOK' /\ TypeOK /\ MethodInv(m) /\ PhaseInv /\ ctl.at = "idle"
      /\ session[m].detach_pending /\ session[m].open /\ flight[m].count = 0
      /\ UNCHANGED <<session, flight, patch, call, phase>>
  BY RequestTypes DEF IInv, Request, Poll
<1>2. ctl'.at = "detach" /\ ctl'.m = m /\ ctl'.op = "poll"
  BY BeginFacts DEF Poll
<1>3. ~session[m].active /\ ~flight[m].accepting
  BY <1>1 DEF MethodInv, ActiveInv, PendingInv
<1>4. MethodInv(m)'
  BY <1>1, <1>2, <1>3 DEF MethodInv, ClosedInv, HookInv, ActiveInv, PendingInv, RestInv, Working
<1>5. CtlInv'
  BY <1>1, <1>2, <1>3 DEF CtlInv, GateStep, DrainStep, DetachStep, AttachStep
<1>6. PhaseInv'
  BY <1>1, <1>2 DEF PhaseInv
<1>7. OthersKept(m)
  BY <1>1 DEF OthersKept
<1>8. QED
  BY <1>1, <1>2, <1>4, <1>5, <1>6, <1>7, KeepFrame

LEMMA RequestInv ==
  ASSUME IInv, NEW m \in Methods, Request(m)
  PROVE  IInv'
<1>1. TypeOK' /\ PhaseInv
  BY RequestTypes DEF IInv
<1>2. CASE Stop(m)
  <2>1. ctl'.at = "gate" /\ ctl'.m = m /\ ctl'.op = "stop"
    BY <1>2, BeginFacts DEF Stop
  <2>2. QED
    BY <1>1, <1>2, <2>1, DeactivateInv DEF Stop, Ready, StopOps
<1>3. CASE Close(m)
  <2>1. UNCHANGED <<flight, patch, phase, ctl>> /\ ctl.at = "idle" /\ phase = "running"
    BY <1>3 DEF Close, Ready
  <2>2. ~Working(m) /\ PhaseInv' /\ ctl'.at = "idle"
    BY <2>1 DEF Working, PhaseInv
  <2>3. QED
    BY <1>1, <1>3, <2>1, <2>2, CloseSessionInv DEF Close
<1>4. QED
  BY <1>2, <1>3, StartNewInv, UnwatchInv, ClearInv, CaptureReturnsInv, PollInv DEF Request

-----------------------------------------------------------------------------
(***************************************************************************)
(* shutdown().                                                             *)
(***************************************************************************)
LEMMA StopAllNextInv ==
  ASSUME IInv, NEW m \in Methods, StopAllNext(m)
  PROVE  IInv'
<1>1. TypeOK'
  BY RequestTypes DEF IInv
<1>2. ctl'.at = "gate" /\ ctl'.m = m /\ ctl'.op = "stop"
  BY BeginFacts DEF StopAllNext
<1>3. QED
  BY <1>1, <1>2, DeactivateInv DEF StopAllNext, StopOps

\* Steps of shutdown() that only move its phase.
LEMMA PhaseStepInv ==
  ASSUME IInv, BeginShutdown \/ StopAllDone \/ GiveUpShutdown
  PROVE  IInv'
<1>1. TypeOK' /\ UNCHANGED <<session, flight, patch, call, ctl, watched>>
  BY ShutdownTypes DEF IInv, BeginShutdown, StopAllDone, GiveUpShutdown
<1>2. FlightCountExact'
  BY <1>1, SameInFlight DEF IInv
<1>3. ASSUME NEW m \in Methods PROVE MethodInv(m)'
  BY <1>1
  DEF IInv, MethodInv, ClosedInv, HookInv, ActiveInv, PendingInv, RestInv, Armed, Quiet, Bare,
      NoEntryHook, Working
<1>4. ASSUME NEW c \in Calls PROVE CallInv(c)'
  BY <1>1 DEF IInv, CallInv
<1>5. CtlInv'
  <2>1. ctl.at = "idle"
    BY DEF BeginShutdown, StopAllDone, GiveUpShutdown, Ready
  <2>2. QED
    BY <1>1, <2>1, CtlRests
<1>6. PhaseInv'
  BY <1>1 DEF IInv, PhaseInv, BeginShutdown, StopAllDone, GiveUpShutdown, Ready
<1>7. QED
  BY <1>1, <1>2, <1>3, <1>4, <1>5, <1>6 DEF IInv

\* With nothing pending every session is bare and its gate empty.
LEMMA FinishShutdownInv ==
  ASSUME IInv, FinishShutdown
  PROVE  IInv'
<1>1. /\ TypeOK' /\ TypeOK /\ phase = "retrying" /\ ctl.at = "idle"
      /\ UNCHANGED <<flight, patch, ctl>> /\ phase' = "down"
  BY ShutdownTypes DEF IInv, FinishShutdown
<1>2. ASSUME NEW m \in Methods
      PROVE  /\ session'[m] = Closed /\ ~session[m].stub
             /\ flight[m].count = 0 /\ patch[m].mid = 0 /\ patch[m].stub = 0
  <2>1. session'[m] = Closed /\ ~session[m].detach_pending /\ ~session[m].active
    BY <1>1 DEF IInv, FinishShutdown, PhaseInv
  <2>2. ClosedInv(m) /\ RestInv(m)
    BY DEF IInv, MethodInv
  <2>3. CASE session[m].open
    BY <1>1, <2>1, <2>2, <2>3 DEF RestInv, Working, Quiet, Bare, NoEntryHook
  <2>4. CASE ~session[m].open
    BY <2>1, <2>2, <2>4 DEF ClosedInv, Closed
  <2>5. QED
    BY <2>3, <2>4
<1> DEFINE C == UNION {(IF session[m].stub THEN InStub(m) ELSE {})
                        \cup (IF session[m].open THEN BeforeGate(m) ELSE {}) : m \in Methods}
<1>3. ASSUME NEW c \in Calls
      PROVE  /\ call'[c] = IF c \in C THEN [Outside EXCEPT !.pc = "lost"] ELSE call[c]
             /\ c \in C => call[c].pc = "prologue"
             /\ session[call[c].m].open /\ call[c].pc = "prologue" => c \in C
  <2>1. Lose(C) /\ call[c].m \in Methods
    BY <1>1 DEF FinishShutdown, TypeOK, CallState
  <2>2. c \in C => call[c].pc = "prologue"
    BY <1>2 DEF BeforeGate
  <2>3. session[call[c].m].open /\ call[c].pc = "prologue" => c \in C
    BY <2>1 DEF BeforeGate
  <2>4. QED
    BY <2>1, <2>2, <2>3 DEF Lose
<1> HIDE DEF C
<1>4. FlightCountExact'
  <2>1. \A c \in Calls : call'[c] # call[c] => ~(call[c].pc \in Counted \/ call'[c].pc \in Counted)
    BY <1>3 DEF Outside, Counted
  <2>2. QED
    BY <1>1, <2>1, SameInFlight DEF IInv
<1>5. ASSUME NEW m \in Methods PROVE MethodInv(m)'
  BY <1>1, <1>2, <1>5
  DEF MethodInv, ClosedInv, HookInv, ActiveInv, PendingInv, RestInv, Closed
<1>6. ASSUME NEW c \in Calls PROVE CallInv(c)'
  <2>1. call[c].m \in Methods /\ CallInv(c)
    BY DEF IInv, TypeOK, CallState
  <2>2. call[c].pc \notin Counted
    <3>1. InFlight(call[c].m) = {}
      BY <1>2, <2>1, NoneInFlight DEF IInv
    <3>2. QED
      BY <3>1 DEF InFlight
  <2>3. CASE c \in C
    BY <1>3, <2>3 DEF CallInv, Outside, Counted, Uncounted
  <2>4. CASE c \notin C
    BY <1>2, <1>3, <2>1, <2>2, <2>4 DEF CallInv
  <2>5. QED
    BY <2>3, <2>4
<1>7. CtlInv'
  BY <1>1, CtlRests
<1>8. PhaseInv'
  BY <1>1, <1>2 DEF PhaseInv, Closed
<1>9. QED
  BY <1>1, <1>4, <1>5, <1>6, <1>7, <1>8 DEF IInv

-----------------------------------------------------------------------------
(***************************************************************************)
(* The invariant and what follows from it.                                 *)
(***************************************************************************)
LEMMA InitInv == Init => IInv
<1> SUFFICES ASSUME Init PROVE IInv
  OBVIOUS
<1>1. TypeOK
  BY InitTypes
<1>2. FlightCountExact
  <2>1. ASSUME NEW m \in Methods PROVE InFlight(m) = {}
    BY DEF Init, InFlight, Outside, Counted
  <2>2. QED
    BY <2>1, FS_EmptySet DEF Init, OpenGate, FlightCountExact
<1>3. \A m \in Methods : MethodInv(m)
  BY DEF Init, MethodInv, ClosedInv, HookInv, ActiveInv, PendingInv, RestInv, Closed, OpenGate
<1>4. \A c \in Calls : CallInv(c)
  BY DEF Init, CallInv, Outside, Counted, Uncounted
<1>5. CtlInv
  BY DEF Init, Idle, CtlInv, GateStep, DrainStep, DetachStep, AttachStep
<1>6. PhaseInv
  BY DEF Init, PhaseInv
<1>7. QED
  BY <1>1, <1>2, <1>3, <1>4, <1>5, <1>6 DEF IInv

LEMMA StutterInv == IInv /\ UNCHANGED vars => IInv'
<1> SUFFICES ASSUME IInv, UNCHANGED vars PROVE IInv'
  OBVIOUS
<1>1. /\ session' = session /\ flight' = flight /\ patch' = patch /\ call' = call
      /\ ctl' = ctl /\ watched' = watched /\ phase' = phase
  BY DEF vars
<1>2. TypeOK' /\ FlightCountExact'
  BY <1>1, SameInFlight DEF IInv, TypeOK
<1>3. \A m \in Methods : MethodInv(m)'
  BY <1>1
  DEF IInv, MethodInv, ClosedInv, HookInv, ActiveInv, PendingInv, RestInv, Armed, Quiet, Bare,
      NoEntryHook, Working
<1>4. \A c \in Calls : CallInv(c)'
  BY <1>1 DEF IInv, CallInv
<1>5. CtlInv' /\ PhaseInv'
  BY <1>1
  DEF IInv, CtlInv, GateStep, DrainStep, DetachStep, AttachStep, PhaseInv, Quiet, Bare, Armed,
      NoEntryHook
<1>6. QED
  BY <1>2, <1>3, <1>4, <1>5 DEF IInv

LEMMA StepInv == IInv /\ [PatientNext]_vars => IInv'
<1> SUFFICES ASSUME IInv, [PatientNext]_vars PROVE IInv'
  OBVIOUS
<1>1. CASE UNCHANGED vars
  BY <1>1, StutterInv
<1>2. CASE PatientNext
  BY <1>2, CallStepInv, RequestInv, StartExistingInv, ControlStepInv, StopAllNextInv,
     PhaseStepInv, FinishShutdownInv
  DEF PatientNext, Shutdown
<1>3. QED
  BY <1>1, <1>2

LEMMA Invariant == PatientSpec => []IInv
  BY InitInv, StepInv, PTL DEF PatientSpec

\* The flight count equals the number of counted calls, whatever calls, timed
\* out drains, clears, retries and restarts interleave with it.
THEOREM CountsExactly == PatientSpec => []FlightCountExact
<1>1. IInv => FlightCountExact
  BY DEF IInv
<1>2. QED
  BY <1>1, Invariant, PTL

\* No stub is freed under a call that still has to return through it.
THEOREM StubsOutliveCalls == PatientSpec => []StubOutlivesCall
<1>1. IInv => StubOutlivesCall
  BY DEF IInv, CallInv, StubOutlivesCall
<1>2. QED
  BY <1>1, Invariant, PTL

\* An active trace has a hook, an open gate and no detach waiting.
THEOREM ActiveTracesAreArmed == PatientSpec => []ActiveIsArmed
<1>1. IInv => ActiveIsArmed
  BY DEF IInv, MethodInv, ActiveInv, Armed, ActiveIsArmed
<1>2. QED
  BY <1>1, Invariant, PTL

\* reset_records never races with a call that writes a record.
THEOREM ResetsAreQuiescent == PatientSpec => []ResetQuiescent
<1>1. IInv => ResetQuiescent
  BY CtlFacts, NoneInFlight DEF IInv, CtlInv, AttachStep, Quiet, ResetQuiescent
<1>2. QED
  BY <1>1, Invariant, PTL

\* A stopped session without a pending detach can be closed.
THEOREM StoppedTracesAreReclaimable == PatientSpec => []StoppedIsReclaimable
<1>1. IInv => StoppedIsReclaimable
  BY DEF IInv, MethodInv, RestInv, Working, Quiet, Bare, NoEntryHook, StoppedIsReclaimable
<1>2. QED
  BY <1>1, Invariant, PTL

\* A hook is removed only from a method without counted calls.
THEOREM HooksOutliveCalls == PatientSpec => HookOutlivesCall
<1> DEFINE Kept == \A m \in Methods : HookRemoved(m) => InFlight(m) = {}
<1>1. ASSUME IInv, [PatientNext]_vars PROVE Kept
  <2>1. TypeOK /\ \A m \in Methods : patch[m] \in Patch
    BY <1>1 DEF IInv, TypeOK
  <2>2. CASE UNCHANGED patch
    <3>1. \A m \in Methods : ~HookRemoved(m)
      BY <2>1, <2>2, BoundsAssumption DEF HookRemoved, Patch
    <3>2. QED
      BY <3>1
  <2>3. CASE Attach
    <3>1. PICK s \in BOOLEAN, e \in BOOLEAN : patch' = [patch EXCEPT ![ctl.m] = Patched(ctl.m, s, e)]
      BY <2>3 DEF Attach, AttachWith
    <3>2. \A m \in Methods : ~HookRemoved(m)
      BY <2>1, <3>1, BoundsAssumption DEF HookRemoved, Patched, Patch, TypeOK
    <3>3. QED
      BY <3>2
  <2>4. CASE Detach
    <3>1. PICK p : patch' = [patch EXCEPT ![ctl.m] = p]
      BY <2>4 DEF Detach, DetachWith
    <3>2. \A m \in Methods \ {ctl.m} : ~HookRemoved(m)
      BY <2>1, <3>1, BoundsAssumption DEF HookRemoved, Patch, TypeOK
    <3>3. InFlight(ctl.m) = {}
      BY <1>1, <2>4, CtlFacts, NoneInFlight DEF IInv, CtlInv, DetachStep, Detach
    <3>4. QED
      BY <3>2, <3>3
  <2>5. PatientNext => UNCHANGED patch \/ Attach \/ Detach
    BY DEF PatientNext, CallStep, ReachHook, EnterFlight, SkipRecord, ClaimRecord, RecordEntry,
           RecordReturn, LeaveStub, Request, StartNew, Stop, Unwatch, Clear, CaptureReturns, Close,
           Poll, StartExisting, ControlStep, ResetRecords, Reopen, Activate, CloseGate, Drained,
           DrainTimeout, Release, Convert, CloseWatch, BeginShutdown, Shutdown, StopAllNext,
           StopAllDone, FinishShutdown, GiveUpShutdown
  <2>6. QED
    BY <1>1, <2>2, <2>3, <2>4, <2>5 DEF vars
<1>2. IInv /\ [PatientNext]_vars => [Kept]_vars
  BY <1>1
<1>3. []IInv /\ [][PatientNext]_vars => [][Kept]_vars
  BY <1>2, PTL
<1>4. QED
  BY <1>3, Invariant, PTL DEF PatientSpec, HookOutlivesCall
=============================================================================

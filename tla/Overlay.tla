-------------------------------- MODULE Overlay --------------------------------
(***************************************************************************)
(* The overlay as a whole (src/mod/hooks/render_imgui_hook.cpp): the       *)
(* frames that RenderHook lets through run the render thread's half of     *)
(* InputRouting, ImGui's start installs wndproc() and its end removes it.  *)
(* The main thread is also the window's: it handles messages when it is    *)
(* not inside install() or uninstall().                                    *)
(***************************************************************************)
EXTENDS InputRouting, RenderHook

vars == <<inputVars, hookVars>>

Init == InputInit /\ HookInit

TypeOK == InputTypeOK /\ HookTypeOK

InLoop == main \in {"loop", "retained", "gone"}

-----------------------------------------------------------------------------
(* The main thread *)

Installing == Install /\ hold = <<>> /\ UNCHANGED inputVars

\* uninstall() forgets the toggles that were not applied.
StartUninstall ==
  /\ BeginUninstall /\ hold = <<>> /\ toggle' = FALSE
  /\ UNCHANGED <<system, msgs, posted, delivery, hooked, owners, routing, hold, visible, wants,
                 requests, showMenu, events, drawn>>

Detaching == (DetachNext \/ EndDetach \/ WaitFrames \/ TimeOutFrames) /\ UNCHANGED inputVars

Reset(s) == [s EXCEPT !.requested = "none", !.applied = "none"]

\* shutdown_imgui() on the window's own thread: the requests are sent, not posted, so
\* wndproc() has closed the routing and the cursor before it is removed.
TearDown(granted, done) ==
  /\ Teardown
  /\ IF hooked
     THEN /\ routing' = FALSE /\ visible' = FALSE /\ menuOwned' = {}
          /\ wants' = IF routing THEN NoCapture ELSE wants
          /\ owned' = (owned /\ ~done)
     ELSE UNCHANGED <<routing, visible, menuOwned, wants, owned>>
  /\ lease' = (lease /\ ~granted)
  /\ hooked' = FALSE /\ events' = <<>> /\ imguiDown' = {}
  /\ input' = Reset(input) /\ cursor' = Reset(cursor)
  /\ UNCHANGED <<system, msgs, posted, delivery, gameOwned, menuReleased, hold, menu, poll>>

Messages == InLoop /\ Window(~shutting) /\ UNCHANGED hookVars

MainStep ==
  \/ Installing \/ StartUninstall \/ Detaching
  \/ \E granted, done \in BOOLEAN : TearDown(granted, done)
  \/ Messages

-----------------------------------------------------------------------------
(* The frames *)

Calls == {"input", "cursor"}

Silently(t) ==
  /\ \/ (\E h \in Hooks \ {"execute"} : CallDetour(t, h)) \/ Guard(t) \/ Count(t) \/ Recheck(t) \/ Lock(t)
     \/ Ready(t) \/ SkipFrame(t) \/ Unlock(t) \/ Uncount(t) \/ Leave(t)
     \/ LockResize(t) \/ UnlockResize(t)
  /\ UNCHANGED inputVars

\* init_*_imgui() installs the window's handler and asks for the menu's state.
StartImGui(t, granted, sent) ==
  /\ Initialize(t) /\ hooked' = TRUE
  /\ SyncMenu(showMenu, granted, sent)
  /\ UNCHANGED <<system, msgs, delivery, owners, routing, hold, visible, wants, menu, events, drawn>>

Toggling(t, granted, sent) == Works(t, "toggle", "poll") /\ poll = Idle /\ ToggleAndSync(granted, sent)

Polling(t) ==
  \/ Works(t, "poll", "drain") /\ StartPoll
  \/ pc[t] = "drain" /\ (SampleButton \/ WriteSample) /\ UNCHANGED hookVars

Draining(t) == Works(t, "drain", "publish") /\ poll.todo = {} /\ DrainEvents

Publishing(t) == Works(t, "publish", "unlock") /\ PublishCapture

\* shutdown_imgui() in a frame: the requests are posted to the window's thread,
AskToClose(t, granted, sent) ==
  /\ Works(t, "lost", "losing") /\ hooked
  /\ Post((IF "input" \in sent THEN <<<<"input", FALSE>>>> ELSE <<>>)
          \o (IF "cursor" \in sent THEN <<<<"cursor", FALSE>>>> ELSE <<>>))
  /\ lease' = (lease /\ ~granted)
  /\ UNCHANGED <<system, msgs, delivery, hooked, owners, routing, hold, visible, wants, input,
                 cursor, owned, menu, events, drawn>>

\* and the handler removed without waiting for it.
CloseImGui(t) ==
  /\ LoseContext(t)
  /\ hooked' = FALSE /\ events' = <<>> /\ imguiDown' = {}
  /\ input' = Reset(input) /\ cursor' = Reset(cursor)
  /\ UNCHANGED <<system, msgs, posted, delivery, owners, routing, hold, visible, wants, owned,
                 lease, menu, poll>>

FrameStep(t) ==
  \/ Silently(t) \/ Polling(t) \/ Draining(t) \/ Publishing(t) \/ CloseImGui(t)
  \/ \E granted \in BOOLEAN, sent \in SUBSET Calls :
       StartImGui(t, granted, sent) \/ Toggling(t, granted, sent) \/ AskToClose(t, granted, sent)

-----------------------------------------------------------------------------
World == (Environment \/ Age) /\ UNCHANGED hookVars
Device == (LoseDevice \/ FindDevice) /\ UNCHANGED inputVars

Next == MainStep \/ (\E t \in Presenters : FrameStep(t)) \/ World \/ Device

Spec == Init /\ [][Next]_vars

\* The threads run, time passes, and a mutex that is free again and again is had in the end; the
\* game goes on presenting through the API the menu is drawn with; what is refused
\* again and again, a request or something to draw to, is granted in the end.
Fairness ==
  /\ WF_vars(Installing)
  /\ WF_vars(Detaching)
  /\ SF_vars(\E granted, done \in BOOLEAN : TearDown(granted, done))
  /\ WF_vars(Messages)
  /\ WF_vars(Age /\ UNCHANGED hookVars)
  /\ SF_vars(InLoop /\ HandleCursorState(TRUE) /\ UNCHANGED hookVars)
  /\ \A t \in Presenters :
       /\ WF_vars(FrameStep(t))
       /\ SF_vars(UNCHANGED inputVars /\ \E h \in Presenting : Family(h) = backend /\ CallDetour(t, h))
       /\ SF_vars(Ready(t) /\ UNCHANGED inputVars)
       /\ SF_vars(Toggling(t, TRUE, Calls))

FairSpec == Spec /\ Fairness

\* While the menu is drawn, the input routing and the cursor come to agree with it, in
\* spite of requests refused, answered late or overtaken by the next one, and of a
\* device lost in between.
RoutingSettles == <>[](ready /\ main = "loop") => <>[]Settled
=============================================================================

------------------------------- MODULE RenderHook -------------------------------
(***************************************************************************)
(* The hooks that draw the overlay in the game's frames                    *)
(* (src/mod/hooks/render_imgui_hook.cpp): how they are installed, what a   *)
(* frame passes before it may touch ImGui, and how they are taken out.     *)
(*                                                                         *)
(* The main thread installs and uninstalls; the threads of Presenters call *)
(* the graphics API, through a detour while one is attached.  The loader   *)
(* may refuse to attach or to detach any hook.  A detour of a presentation *)
(* runs a frame, counted in g_active_frames and under g_imgui_mutex; the   *)
(* detour of ResizeBuffers takes the mutex without being counted.  What a  *)
(* frame does to the input, and shutdown_imgui(), are added by Overlay.    *)
(*                                                                         *)
(* Left out: the graphics objects themselves, other swap chains than the   *)
(* game's, and uninstall() called by the thread that presents.             *)
(***************************************************************************)
EXTENDS Naturals, Sequences, FiniteSets

CONSTANTS
  Presenters,   \* threads that present
  MaxAttempts,  \* kMaxGraphicsProbeAttempts
  MaxLosses     \* bound: times the graphics device is removed

None == "none"

ASSUME HookAssumption ==
  /\ IsFiniteSet(Presenters) /\ None \notin Presenters
  /\ MaxAttempts \in Nat \ {0} /\ MaxLosses \in Nat

Pair == {"present", "present1"}
Presenting == Pair \union {"wgl"}
Hooks == Presenting \union {"resize", "execute"}

VARIABLES
  api,       \* external: Unity's graphics device, "any" if it cannot tell
  offered,   \* external: the hook targets the probes find
  attached,  \* external: the detours in place
  kept,      \* history: those of them that the loader did not give up in an unwinding
  flags,     \* g_*_hooked
  original,  \* the hooks whose g_present, g_present1, ... is not null
  shutting,  \* g_shutting_down
  complete,  \* g_install_complete
  failed,    \* g_install_failed
  attempts,  \* g_graphics_probe_attempts
  main,      \* where the main thread is
  detaching, \* of uninstall(): how many hooks it has been through
  whole,     \* of uninstall(): all_hooks_detached
  active,    \* g_active_frames
  mutex,     \* the owner of g_imgui_mutex
  pc,        \* where each presenting thread is
  via,       \* the detour it came through
  ready,     \* g_imgui_ready
  backend,   \* the family of g_backend: "none", "dxgi", "gl"
  lost,      \* external: the graphics device is removed
  losses     \* bound: how often it was

loader == <<attached, kept, flags, original>>
progress == <<complete, failed, attempts>>
leaving == <<detaching, whole>>
frames == <<active, mutex, pc, via>>
context == <<ready, backend>>
device == <<lost, losses>>
hookVars == <<api, offered, loader, shutting, progress, main, leaving, frames, context, device>>

WantDxgi == api # "gl"
WantDx12 == api \in {"dx12", "any"}
WantGl == api \in {"gl", "any"}

\* The presentation hooks install() is after.
WantedPair ==
  IF WantDxgi /\ "resize" \in offered THEN offered \intersect Pair ELSE {}

HookInit ==
  /\ api \in {"dx11", "dx12", "gl", "any"}
  /\ offered \in SUBSET ((IF WantDxgi THEN Pair \union {"resize"} ELSE {})
                         \union (IF WantDx12 THEN {"execute"} ELSE {})
                         \union (IF WantGl THEN {"wgl"} ELSE {}))
  /\ attached = {} /\ kept = {} /\ flags = {} /\ original = {}
  /\ shutting = FALSE /\ complete = FALSE /\ failed = FALSE /\ attempts = 0
  /\ main = "loop" /\ detaching = 0 /\ whole = TRUE
  /\ active = 0 /\ mutex = None
  /\ pc = [t \in Presenters |-> "game"] /\ via = [t \in Presenters |-> None]
  /\ ready = FALSE /\ backend = None /\ lost = FALSE /\ losses = 0

Frame == {"lock", "begin", "toggle", "poll", "drain", "publish", "lost", "losing", "unlock", "uncount"}

HookTypeOK ==
  /\ api \in {"dx11", "dx12", "gl", "any"}
  /\ {attached, kept, flags, original, offered} \subseteq SUBSET Hooks
  /\ {shutting, complete, failed, whole, ready, lost} \subseteq BOOLEAN
  /\ attempts \in Nat /\ losses \in 0..MaxLosses /\ detaching \in 0..5
  /\ backend \in {None, "dxgi", "gl"}
  /\ active \in 0..Cardinality(Presenters)
  /\ mutex \in Presenters \union {None}
  /\ pc \in [Presenters -> Frame \union {"game", "guard", "count", "recheck", "leave",
                                "resize", "resizing"}]
  /\ via \in [Presenters -> Hooks \union {None}]
  /\ main \in {"loop", "present", "present1", "pair", "resize", "execute", "wgl", "installed",
               "detach", "wait", "teardown", "retained", "gone"}

-----------------------------------------------------------------------------
(* install() *)

\* install_on_main_thread() calls it until it succeeded, failed or is not wanted.
BeginInstall ==
  /\ main = "loop" /\ ~shutting /\ ~complete /\ ~failed
  /\ main' = IF flags \intersect Presenting # {} THEN "installed" ELSE "present"
  /\ UNCHANGED <<api, offered, loader, shutting, progress, leaving, frames, context, device>>

\* attach_ex() of h and the flag that records it; a refusal resets the pointer.
AttachHook(h, granted) ==
  /\ attached' = IF granted THEN attached \union {h} ELSE attached
  /\ kept' = IF granted THEN kept \ {h} ELSE kept
  /\ flags' = IF granted THEN flags \union {h} ELSE flags
  /\ original' = IF granted THEN original \union {h} ELSE original \ {h}

\* Mutant: Present1 is marked as detached and not detached.
UnwindHalf(H, stuck) ==
  /\ attached' = attached \ ((H \intersect flags) \ (stuck \union {"present1"}))
  /\ kept' = kept \union stuck
  /\ flags' = flags \ H

\* The detaches of an unwinding are not checked, and the flags cleared in any case:
\* stuck is what the loader kept.
Unwind(H, stuck) ==
  /\ attached' = attached \ ((H \intersect flags) \ stuck)
  /\ kept' = kept \union stuck
  /\ flags' = flags \ H

AttachPair(h) ==
  /\ main = h
  /\ main' = IF h = "present" THEN "present1" ELSE "pair"
  /\ IF h \in WantedPair THEN \E granted \in BOOLEAN : AttachHook(h, granted) ELSE UNCHANGED loader
  /\ UNCHANGED <<api, offered, shutting, progress, leaving, frames, context, device>>

\* Half a pair draws on some frames only: drop it.
CheckPair ==
  /\ main = "pair" /\ main' = "resize"
  /\ IF WantedPair \subseteq flags
     THEN UNCHANGED loader
     ELSE /\ \E stuck \in SUBSET (flags \intersect Pair) : Unwind(Pair, stuck)
          /\ original' = original \ Pair
  /\ UNCHANGED <<api, offered, shutting, progress, leaving, frames, context, device>>

\* Without ResizeBuffers no presentation hook may stay; its own pointer does.
AttachResize ==
  /\ main = "resize" /\ main' = "execute"
  /\ IF flags \intersect Pair = {}
     THEN UNCHANGED loader
     ELSE \/ AttachHook("resize", TRUE)
          \/ /\ \E stuck \in SUBSET (flags \intersect Pair) : Unwind(Pair, stuck)
             /\ original' = (original \ Pair) \union {"resize"}
  /\ UNCHANGED <<api, offered, shutting, progress, leaving, frames, context, device>>

\* DX12 needs the command queue; without it everything goes, unless DX11 is possible.
AttachExecute ==
  /\ main = "execute" /\ main' = "wgl"
  /\ LET dxgi == Pair \union {"resize"}
     IN  IF ~WantDx12 \/ flags \intersect Pair = {}
         THEN UNCHANGED loader
         ELSE \/ "execute" \in offered /\ AttachHook("execute", TRUE)
              \/ /\ api # "any"
                 /\ \E stuck \in SUBSET (flags \intersect dxgi) : Unwind(dxgi, stuck)
                 /\ original' = original \ dxgi
              \/ api = "any" /\ UNCHANGED loader
  /\ UNCHANGED <<api, offered, shutting, progress, leaving, frames, context, device>>

AttachWgl ==
  /\ main = "wgl" /\ main' = "installed"
  /\ IF WantGl /\ "wgl" \in offered
     THEN \E granted \in BOOLEAN : AttachHook("wgl", granted)
     ELSE UNCHANGED loader
  /\ UNCHANGED <<api, offered, shutting, progress, leaving, frames, context, device>>

\* The callback stays registered for another attempt unless they are used up.
EndInstall ==
  /\ main = "installed" /\ main' = "loop"
  /\ IF flags \intersect Presenting # {}
     THEN complete' = TRUE /\ UNCHANGED <<failed, attempts>>
     ELSE /\ attempts' = attempts + 1
          /\ failed' = (attempts' >= MaxAttempts)
          /\ UNCHANGED complete
  /\ UNCHANGED <<api, offered, loader, shutting, leaving, frames, context, device>>

Install ==
  \/ BeginInstall \/ \E h \in Pair : AttachPair(h)
  \/ CheckPair \/ AttachResize \/ AttachExecute \/ AttachWgl \/ EndInstall

-----------------------------------------------------------------------------
(* uninstall() *)

DetachOrder == <<"wgl", "execute", "resize", "present", "present1">>

BeginUninstall ==
  /\ main = "loop" /\ main' = "detach"
  /\ shutting' = TRUE /\ detaching' = 0 /\ whole' = TRUE
  /\ UNCHANGED <<api, offered, loader, progress, frames, context, device>>

DetachNext ==
  /\ main = "detach" /\ detaching < Len(DetachOrder)
  /\ detaching' = detaching + 1
  /\ LET h == DetachOrder[detaching + 1]
     IN  IF h \notin flags THEN UNCHANGED <<loader, whole>>
         ELSE \/ /\ attached' = attached \ {h} /\ flags' = flags \ {h}
                 /\ UNCHANGED <<kept, original, whole>>
              \/ whole' = FALSE /\ UNCHANGED loader
  /\ UNCHANGED <<api, offered, shutting, progress, main, frames, context, device>>

\* Mutant: it goes on only without any hook.
EndDetachClean ==
  /\ main = "detach" /\ detaching = Len(DetachOrder) /\ whole
  /\ main' = "wait"
  /\ UNCHANGED <<api, offered, loader, shutting, progress, leaving, frames, context, device>>

\* A hook that stayed ends it: the loader keeps the module.
EndDetach ==
  /\ main = "detach" /\ detaching = Len(DetachOrder)
  /\ main' = IF whole THEN "wait" ELSE "retained"
  /\ UNCHANGED <<api, offered, loader, shutting, progress, leaving, frames, context, device>>

WaitFrames ==
  /\ main = "wait" /\ active = 0 /\ main' = "teardown"
  /\ UNCHANGED <<api, offered, loader, shutting, progress, leaving, frames, context, device>>

\* 200 ms have passed with a frame inside.
TimeOutFrames ==
  /\ main = "wait" /\ active # 0 /\ main' = "retained"
  /\ original' = original \ (Pair \union {"resize"})
  /\ UNCHANGED <<api, offered, attached, kept, flags, shutting, progress, leaving, frames, context,
                 device>>

\* Under the mutex; Overlay adds shutdown_imgui().
Teardown ==
  /\ main = "teardown" /\ mutex = None /\ main' = "gone"
  /\ ready' = FALSE /\ original' = {}
  /\ complete' = FALSE /\ failed' = FALSE /\ attempts' = 0
  /\ UNCHANGED <<api, offered, attached, kept, flags, shutting, leaving, frames, backend, device>>

-----------------------------------------------------------------------------
(* A frame of thread t *)

Goes(t, from, to) == pc[t] = from /\ pc' = [pc EXCEPT ![t] = to]

Family(h) == IF h = "wgl" THEN "gl" ELSE "dxgi"

\* The game presents, or resizes its buffers, through a detour.
CallDetour(t, h) ==
  /\ h \in attached /\ via' = [via EXCEPT ![t] = h]
  /\ Goes(t, "game", IF h = "resize" THEN "resize" ELSE "guard")
  /\ UNCHANGED <<api, offered, loader, shutting, progress, main, leaving, active, mutex, context, device>>

\* A DXGI call while OpenGL draws the menu is none of a frame's; otherwise
\* RenderFrameGuard looks, counts and looks again.
Guard(t) ==
  /\ Goes(t, "guard", IF shutting \/ (ready /\ backend = "gl" /\ Family(via[t]) = "dxgi")
                      THEN "leave" ELSE "count")
  /\ UNCHANGED <<api, offered, loader, shutting, progress, main, leaving, active, mutex, via, context, device>>

Count(t) ==
  /\ Goes(t, "count", "recheck") /\ active' = active + 1
  /\ UNCHANGED <<api, offered, loader, shutting, progress, main, leaving, mutex, via, context, device>>

\* Mutant: the guard does not look again once it has counted.
RecheckNot(t) ==
  /\ Goes(t, "recheck", "lock")
  /\ UNCHANGED <<api, offered, loader, shutting, progress, main, leaving, active, mutex, via, context, device>>

Recheck(t) ==
  /\ Goes(t, "recheck", IF shutting THEN "leave" ELSE "lock")
  /\ active' = IF shutting THEN active - 1 ELSE active
  /\ UNCHANGED <<api, offered, loader, shutting, progress, main, leaving, mutex, via, context, device>>

Lock(t) ==
  /\ mutex = None /\ mutex' = t
  /\ Goes(t, "lock", IF shutting \/ (via[t] = "wgl" /\ backend = "dxgi") THEN "unlock" ELSE "begin")
  /\ UNCHANGED <<api, offered, loader, shutting, progress, main, leaving, active, via, context, device>>

\* init_imgui() and the check for a removed device, which ends in shutdown_imgui().
Ready(t) ==
  /\ ready /\ Goes(t, "begin", IF lost /\ backend = "dxgi" THEN "lost" ELSE "toggle")
  /\ UNCHANGED <<api, offered, loader, shutting, progress, main, leaving, active, mutex, via, context, device>>

Initialize(t) ==
  /\ ~ready /\ ~lost /\ ready' = TRUE /\ backend' = Family(via[t])
  /\ Goes(t, "begin", "toggle")
  /\ UNCHANGED <<api, offered, loader, shutting, progress, main, leaving, active, mutex, via, device>>

\* ImGui cannot be started, or there is nothing to draw to.
SkipFrame(t) ==
  /\ Goes(t, "begin", "unlock")
  /\ UNCHANGED <<api, offered, loader, shutting, progress, main, leaving, active, mutex, via, context, device>>

\* A step of the frame's own work.
Works(t, from, to) ==
  /\ Goes(t, from, to)
  /\ UNCHANGED <<api, offered, loader, shutting, progress, main, leaving, active, mutex, via, context, device>>

\* The end of shutdown_imgui() in a frame.
LoseContext(t) ==
  /\ Goes(t, "losing", "unlock") /\ ready' = FALSE
  /\ UNCHANGED <<api, offered, loader, shutting, progress, main, leaving, active, mutex, via, backend, device>>

\* The mutex goes before the count.
Unlock(t) ==
  /\ Goes(t, "unlock", "uncount") /\ mutex' = None
  /\ UNCHANGED <<api, offered, loader, shutting, progress, main, leaving, active, via, context, device>>

\* Then the original is called, if its pointer is still there.
Uncount(t) ==
  /\ Goes(t, "uncount", "game") /\ active' = active - 1 /\ via' = [via EXCEPT ![t] = None]
  /\ UNCHANGED <<api, offered, loader, shutting, progress, main, leaving, mutex, context, device>>

\* No frame: only the original.
Leave(t) ==
  /\ Goes(t, "leave", "game") /\ via' = [via EXCEPT ![t] = None]
  /\ UNCHANGED <<api, offered, loader, shutting, progress, main, leaving, active, mutex, context, device>>

\* detour_resize_buffers(): the original runs under the mutex.
LockResize(t) ==
  /\ mutex = None /\ mutex' = t /\ Goes(t, "resize", "resizing")
  /\ UNCHANGED <<api, offered, loader, shutting, progress, main, leaving, active, via, context, device>>

UnlockResize(t) ==
  /\ Goes(t, "resizing", "game") /\ mutex' = None /\ via' = [via EXCEPT ![t] = None]
  /\ UNCHANGED <<api, offered, loader, shutting, progress, main, leaving, active, context, device>>

\* External: the device is removed and comes back.
LoseDevice ==
  /\ ~lost /\ losses < MaxLosses /\ lost' = TRUE /\ losses' = losses + 1
  /\ UNCHANGED <<api, offered, loader, shutting, progress, main, leaving, frames, context>>

FindDevice ==
  /\ lost /\ lost' = FALSE
  /\ UNCHANGED <<api, offered, loader, shutting, progress, main, leaving, frames, context, losses>>

-----------------------------------------------------------------------------
(* The hooks by themselves, whatever a frame does in its steps. *)

WorkSteps ==
  {<<"toggle", "poll">>, <<"poll", "drain">>, <<"drain", "publish">>, <<"publish", "unlock">>,
   <<"lost", "losing">>}

FrameNext(t) ==
  \/ \E h \in Hooks : CallDetour(t, h)
  \/ Guard(t) \/ Count(t) \/ Recheck(t) \/ Lock(t) \/ Ready(t) \/ Initialize(t) \/ SkipFrame(t)
  \/ \E w \in WorkSteps : Works(t, w[1], w[2])
  \/ LoseContext(t) \/ Unlock(t) \/ Uncount(t) \/ Leave(t) \/ LockResize(t) \/ UnlockResize(t)

UninstallNext ==
  BeginUninstall \/ DetachNext \/ EndDetach \/ WaitFrames \/ TimeOutFrames \/ Teardown

HookNext ==
  \/ Install \/ UninstallNext \/ \E t \in Presenters : FrameNext(t)
  \/ LoseDevice \/ FindDevice

HookSpec == HookInit /\ [][HookNext]_hookVars

-----------------------------------------------------------------------------
(* Properties *)

\* Whatever hooks the loader refuses to attach, once install() has returned the detours
\* in place are a set that works: a presentation pair is complete, is never there
\* without ResizeBuffers, nor ResizeBuffers without it, and on DX12 not without the
\* command queue.  What the loader refused to detach again stays beside that set, which
\* the code does not notice: see PresentForwarded and GoneUnhooked.
InstallWhole ==
  main = "loop" =>
    LET installed == attached \ kept
    IN  /\ installed \intersect Pair # {} => WantedPair \union {"resize"} \subseteq installed
        /\ api = "dx12" /\ installed # {} => "execute" \in installed
        /\ installed \intersect Pair = {} => "resize" \notin installed
        /\ complete <=> installed \intersect Presenting # {}

\* When uninstall() goes to tear ImGui down, no frame holds the mutex or will: the
\* thread that pumps the window's messages does not block behind one.
TeardownUnblocked ==
  main = "teardown" => \A t \in Presenters : mutex = t => via[t] = "resize"

\* uninstall() returns, whatever hooks the loader keeps and whatever frame is inside.
UninstallEnds == main = "detach" ~> main \in {"retained", "gone"}

\* A detour in place has an original to call; see the README for the unwindings that
\* break it.
PresentForwarded == attached \subseteq original

\* "Skipping ImGui teardown while the loader retains the module" (2818): uninstall()
\* succeeds only without a detour left.  It asks the flags, which an unwinding cleared.
GoneUnhooked == main = "gone" => attached = {}
=============================================================================

--------------------------- MODULE RenderHookProofs ---------------------------
(***************************************************************************)
(* Proofs about the overlay's hooks, for any finite set of presenting      *)
(* threads and any number of attempts.                                     *)
(***************************************************************************)
EXTENDS RenderHook, FiniteSetTheorems, TLAPS

-----------------------------------------------------------------------------
(***************************************************************************)
(* install().  At each of its steps the hooks are part of what its end     *)
(* will leave: Stages says what part.  The flags are exactly the detours   *)
(* in place that no unwinding tried to take out (FlagsTrue).               *)
(***************************************************************************)
PairWhole ==
  /\ flags \intersect Pair # {} => WantedPair \union {"resize"} \subseteq flags
  /\ flags \intersect Pair = {} => "resize" \notin flags

QueueHeld == api = "dx12" /\ flags # {} => "execute" \in flags

FlagsTrue == attached = flags \union kept /\ flags \intersect kept = {}
FlagsWhole == PairWhole /\ QueueHeld /\ (complete <=> flags \intersect Presenting # {})

Stages ==
  /\ main \in {"present", "present1", "pair", "resize", "execute", "wgl", "installed"} => ~complete
  /\ main = "present" => flags \subseteq {"execute"}
  /\ main = "present1" => flags \subseteq {"execute"} \union (WantedPair \intersect {"present"})
  /\ main = "pair" => flags \subseteq {"execute"} \union WantedPair
  /\ main = "resize" => /\ flags \subseteq {"execute"} \union WantedPair
                        /\ flags \intersect Pair # {} => WantedPair \subseteq flags
  /\ main = "execute" => PairWhole /\ "wgl" \notin flags
  /\ main = "wgl" => PairWhole /\ QueueHeld
  /\ main = "installed" => PairWhole /\ QueueHeld
  /\ main = "loop" => FlagsWhole

Mains == {"loop", "present", "present1", "pair", "resize", "execute", "wgl", "installed",
          "detach", "wait", "teardown", "retained", "gone"}

StageInv ==
  /\ flags \subseteq Hooks /\ main \in Mains
  /\ Stages

InstallInv == StageInv /\ FlagsTrue

USE DEF None

LEMMA StagesKept ==
  ASSUME StageInv, UNCHANGED <<api, offered, flags, main, complete>>
  PROVE  StageInv'
  BY DEF StageInv, Stages, FlagsWhole, PairWhole, QueueHeld, WantedPair, WantDxgi

LEMMA FrameKeepsFlags ==
  ASSUME NEW t \in Presenters, FrameNext(t)
  PROVE  UNCHANGED <<api, offered, loader, shutting, progress, main, leaving>>
  BY DEF FrameNext, CallDetour, Guard, Count, Recheck, Lock, Ready, Initialize, SkipFrame, Works,
         LoseContext, Unlock, Uncount, Leave, LockResize, UnlockResize, hookVars, device

LEMMA UninstallKeeps ==
  ASSUME StageInv, UninstallNext
  PROVE  StageInv'
<1> USE DEF StageInv, Stages, FlagsWhole, Mains
<1>1. main' \notin {"loop", "present", "present1", "pair", "resize", "execute", "wgl", "installed"}
  BY DEF UninstallNext, BeginUninstall, DetachNext, EndDetach, WaitFrames, TimeOutFrames, Teardown
<1>2. flags' \subseteq flags /\ main' \in Mains
  BY DEF UninstallNext, BeginUninstall, DetachNext, EndDetach, WaitFrames, TimeOutFrames, Teardown,
         loader
<1>3. QED
  BY <1>1, <1>2

LEMMA InstallKeeps ==
  ASSUME StageInv, Install
  PROVE  StageInv'
<1> USE DEF StageInv, Mains, Hooks, Presenting, Pair
<1>0. WantedPair' = WantedPair /\ WantedPair \subseteq Pair
  BY DEF Install, BeginInstall, AttachPair, CheckPair, AttachResize, AttachExecute, AttachWgl,
         EndInstall, WantedPair, WantDxgi
<1> DEFINE W == WantedPair
<1>1. CASE BeginInstall
  BY <1>1, <1>0 DEF BeginInstall, Stages, FlagsWhole, PairWhole, QueueHeld, loader, progress
<1>2. ASSUME NEW h \in Pair, AttachPair(h)
      PROVE  StageInv'
  BY <1>2, <1>0 DEF AttachPair, AttachHook, Stages, FlagsWhole, PairWhole, QueueHeld, loader,
                    progress
<1>3. CASE CheckPair
  BY <1>3, <1>0 DEF CheckPair, Unwind, Stages, FlagsWhole, PairWhole, QueueHeld, loader, progress
<1>4. CASE AttachResize
  <2>1. main = "resize" /\ main' = "execute" /\ UNCHANGED <<api, offered, complete>>
    BY <1>4 DEF AttachResize, progress
  <2>2. ~complete /\ flags \subseteq {"execute"} \union W
    BY <2>1 DEF Stages
  <2>3. \/ flags \intersect Pair = {} /\ flags' = flags
        \/ flags \intersect Pair # {} /\ W \subseteq flags /\ flags' = flags \union {"resize"}
        \/ flags' = flags \ Pair
    BY <1>4, <2>1 DEF AttachResize, AttachHook, Unwind, loader, Stages
  <2>4. PairWhole' /\ "wgl" \notin flags' /\ flags' \subseteq Hooks
    BY <1>0, <2>2, <2>3 DEF PairWhole
  <2>5. QED
    BY <2>1, <2>2, <2>4 DEF Stages, FlagsWhole
<1>5. CASE AttachExecute
  <2>1. main = "execute" /\ main' = "wgl" /\ UNCHANGED <<api, offered, complete>>
    BY <1>5 DEF AttachExecute, progress
  <2>2. ~complete /\ PairWhole /\ "wgl" \notin flags
    BY <2>1 DEF Stages
  <2>3. \/ flags' = flags /\ (api = "dx12" => flags \intersect Pair = {})
        \/ flags' = flags \union {"execute"}
        \/ flags' = flags \ (Pair \union {"resize"})
    BY <1>5 DEF AttachExecute, AttachHook, Unwind, loader, WantDx12
  <2>4. PairWhole' /\ QueueHeld' /\ flags' \subseteq Hooks
    BY <1>0, <2>1, <2>2, <2>3 DEF PairWhole, QueueHeld
  <2>5. QED
    BY <2>1, <2>2, <2>4 DEF Stages, FlagsWhole
<1>6. CASE AttachWgl
  <2>1. main = "wgl" /\ main' = "installed" /\ UNCHANGED <<api, offered, complete>>
    BY <1>6 DEF AttachWgl, progress
  <2>2. ~complete /\ PairWhole /\ QueueHeld
    BY <2>1 DEF Stages
  <2>3. flags' = flags \/ (api # "dx12" /\ flags' = flags \union {"wgl"})
    BY <1>6 DEF AttachWgl, AttachHook, loader, WantGl
  <2>4. PairWhole' /\ QueueHeld' /\ flags' \subseteq Hooks
    BY <1>0, <2>1, <2>2, <2>3 DEF PairWhole, QueueHeld
  <2>5. QED
    BY <2>1, <2>2, <2>4 DEF Stages, FlagsWhole
<1>7. CASE EndInstall
  BY <1>7, <1>0 DEF EndInstall, Stages, FlagsWhole, PairWhole, QueueHeld, loader
<1>8. QED
  BY <1>1, <1>2, <1>3, <1>4, <1>5, <1>6, <1>7 DEF Install

LEMMA FlagsKept ==
  ASSUME FlagsTrue, Install \/ UninstallNext
  PROVE  FlagsTrue'
<1> USE DEF FlagsTrue
<1>1. CASE \E h \in Pair : AttachPair(h)
  BY <1>1 DEF AttachPair, AttachHook, loader
<1>2. CASE CheckPair
  BY <1>2 DEF CheckPair, Unwind, loader
<1>3. CASE AttachResize
  BY <1>3 DEF AttachResize, AttachHook, Unwind, loader
<1>4. CASE AttachExecute
  BY <1>4 DEF AttachExecute, AttachHook, Unwind, loader
<1>5. CASE AttachWgl
  BY <1>5 DEF AttachWgl, AttachHook, loader
<1>6. CASE DetachNext
  <2>1. \/ UNCHANGED loader
        \/ \E h \in flags : attached' = attached \ {h} /\ flags' = flags \ {h} /\ kept' = kept
    BY <1>6 DEF DetachNext
  <2>2. QED
    BY <2>1 DEF loader
<1>7. CASE BeginInstall \/ EndInstall \/ BeginUninstall \/ EndDetach \/ WaitFrames
           \/ TimeOutFrames \/ Teardown
  BY <1>7 DEF BeginInstall, EndInstall, BeginUninstall, EndDetach, WaitFrames, TimeOutFrames,
              Teardown, loader
<1>8. QED
  BY <1>1, <1>2, <1>3, <1>4, <1>5, <1>6, <1>7 DEF Install, UninstallNext

\* install(): whatever the loader refuses to attach, the detours in place when it
\* returns are a set that works, but for those the loader refused to detach again.
THEOREM InstallsWhole == HookSpec => []InstallWhole
<1>1. HookInit => InstallInv
  BY DEF HookInit, InstallInv, StageInv, FlagsTrue, Stages, FlagsWhole, PairWhole, QueueHeld,
         Mains, Pair, Presenting
<1>2. InstallInv /\ [HookNext]_hookVars => InstallInv'
  <2> SUFFICES ASSUME InstallInv, [HookNext]_hookVars PROVE InstallInv'
    OBVIOUS
  <2> USE DEF InstallInv
  <2>1. CASE Install
    BY <2>1, InstallKeeps, FlagsKept
  <2>2. CASE UninstallNext
    BY <2>2, UninstallKeeps, FlagsKept
  <2>3. CASE \E t \in Presenters : FrameNext(t)
    <3>1. UNCHANGED <<api, offered, loader, shutting, progress, main, leaving>>
      BY <2>3, FrameKeepsFlags
    <3>2. QED
      BY <3>1, StagesKept DEF loader, progress, FlagsTrue
  <2>4. CASE LoseDevice \/ FindDevice \/ UNCHANGED hookVars
    <3>1. UNCHANGED <<api, offered, loader, main, complete>>
      BY <2>4 DEF LoseDevice, FindDevice, hookVars, progress
    <3>2. QED
      BY <3>1, StagesKept DEF loader, FlagsTrue
  <2>5. QED
    BY <2>1, <2>2, <2>3, <2>4 DEF HookNext
<1>3. InstallInv => InstallWhole
  <2> SUFFICES ASSUME InstallInv, main = "loop" PROVE InstallWhole
    BY DEF InstallWhole
  <2>1. attached \ kept = flags
    BY DEF InstallInv, FlagsTrue
  <2>2. FlagsWhole
    BY DEF InstallInv, StageInv, Stages
  <2>3. QED
    BY <2>1, <2>2 DEF InstallWhole, FlagsWhole, PairWhole, QueueHeld
<1>4. QED
  BY <1>1, <1>2, <1>3, PTL DEF HookSpec

-----------------------------------------------------------------------------
(***************************************************************************)
(* The frames.  g_active_frames is the number of threads between the two   *)
(* looks of RenderFrameGuard and its destructor; the mutex has an owner    *)
(* exactly while that thread is in its part of the code.                   *)
(***************************************************************************)
Points == Frame \union {"game", "guard", "count", "recheck", "leave", "resize", "resizing"}
Counted == Frame \union {"recheck"}
Holding == (Frame \ {"lock", "uncount"}) \union {"resizing"}
Inside == {t \in Presenters : pc[t] \in Counted}

FrameInv ==
  /\ pc \in [Presenters -> Points] /\ via \in [Presenters -> Hooks \union {None}]
  /\ active = Cardinality(Inside)
  /\ \A t \in Presenters : mutex = t <=> pc[t] \in Holding
  /\ mutex \in Presenters \union {None}
  /\ \A t \in Presenters : pc[t] \in {"resize", "resizing"} => via[t] = "resize"
  /\ main \in {"detach", "wait", "teardown", "retained", "gone"} => shutting
  /\ main = "teardown" => \A t \in Presenters : pc[t] \notin Frame
  /\ main \in Mains

\* What a step of thread t may do to the count, the mutex and its place.
CountMoves(t, p) ==
  \/ (pc[t] \in Counted <=> p \in Counted) /\ active' = active
  \/ pc[t] \notin Counted /\ p \in Counted /\ active' = active + 1
  \/ pc[t] \in Counted /\ p \notin Counted /\ active' = active - 1

MutexMoves(t, p) ==
  \/ (pc[t] \in Holding <=> p \in Holding) /\ mutex' = mutex
  \/ pc[t] \notin Holding /\ p \in Holding /\ mutex = None /\ mutex' = t
  \/ pc[t] \in Holding /\ p \notin Holding /\ mutex' = None

Moves(t, p) ==
  /\ pc' = [pc EXCEPT ![t] = p]
  /\ CountMoves(t, p) /\ MutexMoves(t, p)
  /\ via' \in [Presenters -> Hooks \union {None}] /\ \A u \in Presenters \ {t} : via'[u] = via[u]
  /\ p \in {"resize", "resizing"} => via'[t] = "resize"
  /\ shutting /\ p \in Frame => pc[t] \in Frame

LEMMA FrameMoves ==
  ASSUME FrameInv, NEW t \in Presenters, FrameNext(t)
  PROVE  \E p \in Points : Moves(t, p)
<1> USE DEF FrameInv, Points, Counted, Holding, Frame, Moves, CountMoves, MutexMoves, Goes
<1>1. ASSUME NEW h \in Hooks, CallDetour(t, h)
      PROVE  \E p \in Points : Moves(t, p)
  <2> DEFINE p == IF h = "resize" THEN "resize" ELSE "guard"
  <2>1. pc[t] = "game" /\ pc' = [pc EXCEPT ![t] = p] /\ via' = [via EXCEPT ![t] = h]
        /\ UNCHANGED <<active, mutex>>
    BY <1>1 DEF CallDetour
  <2>2. Moves(t, p) /\ p \in Points
    BY <2>1
  <2>3. QED
    BY <2>2
<1>2. CASE Guard(t)
  <2> DEFINE p == IF shutting \/ (ready /\ backend = "gl" /\ Family(via[t]) = "dxgi")
                  THEN "leave" ELSE "count"
  <2>1. pc[t] = "guard" /\ pc' = [pc EXCEPT ![t] = p] /\ UNCHANGED <<active, mutex, via>>
    BY <1>2 DEF Guard
  <2>2. p \in {"leave", "count"}
    OBVIOUS
  <2> HIDE DEF p
  <2>3. Moves(t, p) /\ p \in Points
    BY <2>1, <2>2
  <2>4. QED
    BY <2>3
<1>3. CASE Count(t)
  <2>1. Moves(t, "recheck")
    BY <1>3 DEF Count
  <2>2. QED
    BY <2>1
<1>4. CASE Recheck(t)
  <2>1. CASE shutting
    <3>1. Moves(t, "leave")
      BY <1>4, <2>1 DEF Recheck
    <3>2. QED
      BY <3>1
  <2>2. CASE ~shutting
    <3>1. Moves(t, "lock")
      BY <1>4, <2>2 DEF Recheck
    <3>2. QED
      BY <3>1
  <2>3. QED
    BY <2>1, <2>2
<1>5. CASE Lock(t)
  <2> DEFINE p == IF shutting \/ (via[t] = "wgl" /\ backend = "dxgi") THEN "unlock" ELSE "begin"
  <2>1. pc[t] = "lock" /\ pc' = [pc EXCEPT ![t] = p] /\ mutex = None /\ mutex' = t
        /\ UNCHANGED <<active, via>>
    BY <1>5 DEF Lock
  <2>2. p \in {"unlock", "begin"}
    OBVIOUS
  <2> HIDE DEF p
  <2>3. Moves(t, p) /\ p \in Points
    BY <2>1, <2>2
  <2>4. QED
    BY <2>3
<1>6. CASE Ready(t)
  <2> DEFINE p == IF lost /\ backend = "dxgi" THEN "lost" ELSE "toggle"
  <2>1. pc[t] = "begin" /\ pc' = [pc EXCEPT ![t] = p] /\ UNCHANGED <<active, mutex, via>>
    BY <1>6 DEF Ready
  <2>2. p \in {"lost", "toggle"}
    OBVIOUS
  <2> HIDE DEF p
  <2>3. Moves(t, p) /\ p \in Points
    BY <2>1, <2>2
  <2>4. QED
    BY <2>3
<1>7. CASE Initialize(t)
  <2>1. Moves(t, "toggle")
    BY <1>7 DEF Initialize
  <2>2. QED
    BY <2>1
<1>8. CASE SkipFrame(t) \/ LoseContext(t)
  <2>1. Moves(t, "unlock")
    BY <1>8 DEF SkipFrame, LoseContext, context
  <2>2. QED
    BY <2>1
<1>9. ASSUME NEW w \in WorkSteps, Works(t, w[1], w[2])
      PROVE  \E p \in Points : Moves(t, p)
  <2>1. /\ w[1] \in {"toggle", "poll", "drain", "publish", "lost"}
        /\ w[2] \in {"poll", "drain", "publish", "unlock", "losing"}
    BY <1>9 DEF WorkSteps
  <2>2. pc[t] = w[1] /\ pc' = [pc EXCEPT ![t] = w[2]] /\ UNCHANGED <<active, mutex, via>>
    BY <1>9 DEF Works
  <2>3. Moves(t, w[2])
    BY <2>1, <2>2
  <2>4. QED
    BY <2>1, <2>3
<1>10. CASE Unlock(t)
  <2>1. Moves(t, "uncount")
    BY <1>10 DEF Unlock
  <2>2. QED
    BY <2>1
<1>11. CASE Uncount(t) \/ Leave(t) \/ UnlockResize(t)
  <2>1. Moves(t, "game")
    BY <1>11 DEF Uncount, Leave, UnlockResize
  <2>2. QED
    BY <2>1
<1>12. CASE LockResize(t)
  <2>1. Moves(t, "resizing")
    BY <1>12 DEF LockResize
  <2>2. QED
    BY <2>1
<1>13. QED
  BY <1>1, <1>2, <1>3, <1>4, <1>5, <1>6, <1>7, <1>8, <1>9, <1>10, <1>11, <1>12 DEF FrameNext

LEMMA InsideCounted ==
  ASSUME FrameInv
  PROVE  IsFiniteSet(Inside) /\ active \in 0..Cardinality(Presenters)
<1>1. IsFiniteSet(Presenters) /\ Inside \in SUBSET Presenters
  BY HookAssumption DEF Inside
<1>2. Cardinality(Inside) <= Cardinality(Presenters) /\ IsFiniteSet(Inside)
  BY <1>1, FS_Subset
<1>3. Cardinality(Inside) \in Nat /\ Cardinality(Presenters) \in Nat
  BY <1>1, <1>2, FS_CardinalityType
<1>4. QED
  BY <1>2, <1>3 DEF FrameInv

LEMMA CountKept ==
  ASSUME FrameInv, NEW t \in Presenters, NEW p \in Points, Moves(t, p)
  PROVE  active' = Cardinality(Inside')
<1>1. \A u \in Presenters : pc'[u] = IF u = t THEN p ELSE pc[u]
  BY DEF FrameInv, Moves
<1>2. IsFiniteSet(Inside) /\ active = Cardinality(Inside)
  BY InsideCounted DEF FrameInv
<1>3. CASE (pc[t] \in Counted <=> p \in Counted) /\ active' = active
  <2>1. Inside' = Inside
    BY <1>1, <1>3 DEF Inside
  <2>2. QED
    BY <1>2, <1>3, <2>1
<1>4. CASE pc[t] \notin Counted /\ p \in Counted /\ active' = active + 1
  <2>1. t \notin Inside /\ Inside' = Inside \union {t}
    BY <1>1, <1>4 DEF Inside
  <2>2. QED
    BY <1>2, <1>4, <2>1, FS_AddElement
<1>5. CASE pc[t] \in Counted /\ p \notin Counted /\ active' = active - 1
  <2>1. t \in Inside /\ Inside' = Inside \ {t}
    BY <1>1, <1>5 DEF Inside
  <2>2. QED
    BY <1>2, <1>5, <2>1, FS_RemoveElement
<1>6. QED
  BY <1>3, <1>4, <1>5 DEF Moves, CountMoves

LEMMA FrameKeeps ==
  ASSUME FrameInv, NEW t \in Presenters, FrameNext(t)
  PROVE  FrameInv'
<1>1. PICK p \in Points : Moves(t, p)
  BY FrameMoves
<1>2. UNCHANGED <<main, shutting>>
  BY FrameKeepsFlags
<1>3. \A u \in Presenters : pc'[u] = IF u = t THEN p ELSE pc[u]
  BY <1>1 DEF FrameInv, Moves
<1>4. pc' \in [Presenters -> Points] /\ via' \in [Presenters -> Hooks \union {None}]
  BY <1>1 DEF FrameInv, Moves
<1>5. active' = Cardinality(Inside')
  BY <1>1, CountKept
<1>6. /\ \A u \in Presenters : mutex' = u <=> pc'[u] \in Holding
      /\ mutex' \in Presenters \union {None}
  BY <1>1, <1>3, HookAssumption DEF FrameInv, Moves, MutexMoves
<1>7. \A u \in Presenters : pc'[u] \in {"resize", "resizing"} => via'[u] = "resize"
  BY <1>1, <1>3 DEF FrameInv, Moves
<1>8. main' = "teardown" => \A u \in Presenters : pc'[u] \notin Frame
  BY <1>1, <1>2, <1>3 DEF FrameInv, Moves
<1>9. QED
  BY <1>2, <1>4, <1>5, <1>6, <1>7, <1>8 DEF FrameInv

LEMMA MainKeepsFrames ==
  ASSUME FrameInv, UNCHANGED frames,
         main' \in Mains,
         main' \in {"detach", "wait", "teardown", "retained", "gone"} => shutting',
         main' = "teardown" => main = "teardown" \/ active = 0
  PROVE  FrameInv'
<1>1. UNCHANGED <<active, mutex, pc, via>>
  BY DEF frames
<1>2. Inside' = Inside
  BY <1>1 DEF Inside
<1>3. active = 0 => \A t \in Presenters : pc[t] \notin Frame
  <2>1. active = 0 => Inside = {}
    BY InsideCounted, FS_EmptySet DEF FrameInv
  <2>2. QED
    BY <2>1 DEF Inside, Counted
<1>4. QED
  BY <1>1, <1>2, <1>3 DEF FrameInv

LEMMA FrameInvKept ==
  ASSUME FrameInv, [HookNext]_hookVars
  PROVE  FrameInv'
<1>1. CASE Install
  <2>1. /\ UNCHANGED frames
        /\ main' \in {"loop", "present", "present1", "pair", "resize", "execute", "wgl", "installed"}
    BY <1>1 DEF Install, BeginInstall, AttachPair, CheckPair, AttachResize, AttachExecute,
                AttachWgl, EndInstall, Pair, Mains
  <2>2. QED
    BY <2>1, MainKeepsFrames DEF Mains
<1>2. CASE UninstallNext
  <2>1. /\ UNCHANGED frames /\ main' \in Mains
        /\ main' \in {"detach", "wait", "teardown", "retained", "gone"} => shutting'
        /\ main' = "teardown" => active = 0
    BY <1>2 DEF UninstallNext, BeginUninstall, DetachNext, EndDetach, WaitFrames, TimeOutFrames,
                Teardown, Mains, FrameInv
  <2>2. QED
    BY <2>1, MainKeepsFrames
<1>3. CASE \E t \in Presenters : FrameNext(t)
  BY <1>3, FrameKeeps
<1>4. CASE LoseDevice \/ FindDevice \/ UNCHANGED hookVars
  <2>1. UNCHANGED <<frames, main, shutting>>
    BY <1>4 DEF LoseDevice, FindDevice, hookVars
  <2>2. QED
    BY <2>1, MainKeepsFrames DEF FrameInv
<1>5. QED
  BY <1>1, <1>2, <1>3, <1>4 DEF HookNext

LEMMA FrameInvInit == HookInit => FrameInv
<1> SUFFICES ASSUME HookInit PROVE FrameInv
  OBVIOUS
<1>1. Inside = {}
  BY DEF HookInit, Inside, Counted, Frame
<1>2. QED
  BY <1>1, FS_EmptySet, HookAssumption
  DEF HookInit, FrameInv, Points, Holding, Frame, Mains

\* The number of frames is exact: uninstall() never takes it for zero with one inside.
FramesExact == active = Cardinality(Inside)

THEOREM FramesCounted == HookSpec => []FramesExact
<1>1. FrameInv => FramesExact
  BY DEF FrameInv, FramesExact
<1>2. QED
  BY <1>1, FrameInvInit, FrameInvKept, PTL DEF HookSpec

\* uninstall() tears ImGui down with no frame inside and none to come, so that it waits
\* for the mutex behind a ResizeBuffers at most.
THEOREM TearsDownUnblocked == HookSpec => []TeardownUnblocked
<1>1. FrameInv => TeardownUnblocked
  BY DEF FrameInv, TeardownUnblocked, Holding
<1>2. QED
  BY <1>1, FrameInvInit, FrameInvKept, PTL DEF HookSpec

-----------------------------------------------------------------------------
(***************************************************************************)
(* Type correctness: the rest of the state keeps its types by itself.      *)
(***************************************************************************)
RestTyped ==
  /\ api \in {"dx11", "dx12", "gl", "any"}
  /\ attached \subseteq Hooks /\ kept \subseteq Hooks /\ flags \subseteq Hooks
  /\ original \subseteq Hooks /\ offered \subseteq Hooks
  /\ shutting \in BOOLEAN /\ complete \in BOOLEAN /\ failed \in BOOLEAN
  /\ whole \in BOOLEAN /\ ready \in BOOLEAN /\ lost \in BOOLEAN
  /\ attempts \in Nat /\ losses \in 0..MaxLosses /\ detaching \in 0..5
  /\ backend \in {None, "dxgi", "gl"}

LEMMA InstallTyped ==
  ASSUME RestTyped, Install
  PROVE  RestTyped'
<1> USE DEF RestTyped, Hooks, Presenting, Pair
<1>1. UNCHANGED <<api, offered, shutting, whole, ready, lost, losses, detaching, backend>>
  BY DEF Install, BeginInstall, AttachPair, CheckPair, AttachResize, AttachExecute, AttachWgl,
         EndInstall, leaving, context, device
<1>2. /\ attached' \subseteq Hooks /\ kept' \subseteq Hooks
      /\ flags' \subseteq Hooks /\ original' \subseteq Hooks
  BY DEF Install, BeginInstall, AttachPair, CheckPair, AttachResize, AttachExecute, AttachWgl,
         EndInstall, AttachHook, Unwind, loader
<1>3. complete' \in BOOLEAN /\ failed' \in BOOLEAN /\ attempts' \in Nat
  <2>1. CASE EndInstall
    <3>1. CASE complete' = TRUE /\ UNCHANGED <<failed, attempts>>
      BY <3>1
    <3>2. CASE attempts' = attempts + 1 /\ failed' = (attempts' >= MaxAttempts) /\ UNCHANGED complete
      <4>1. attempts' \in Nat
        BY <3>2
      <4>2. (attempts' >= MaxAttempts) \in BOOLEAN
        BY <3>2, HookAssumption
      <4>3. failed' \in BOOLEAN
        BY <3>2, <4>2, Zenon
      <4>4. QED
        BY <3>2, <4>1, <4>3
    <3>3. QED
      BY <2>1, <3>1, <3>2 DEF EndInstall
  <2>2. CASE UNCHANGED progress
    BY <2>2 DEF progress
  <2>3. QED
    BY <2>1, <2>2 DEF Install, BeginInstall, AttachPair, CheckPair, AttachResize, AttachExecute,
                      AttachWgl
<1>4. QED
  BY <1>1, <1>2, <1>3

LEMMA UninstallTyped ==
  ASSUME RestTyped, UninstallNext
  PROVE  RestTyped'
<1> USE DEF RestTyped, Hooks, Presenting, Pair
<1>1. UNCHANGED <<api, offered, backend, lost, losses>>
  BY DEF UninstallNext, BeginUninstall, DetachNext, EndDetach, WaitFrames, TimeOutFrames, Teardown,
         context, device
<1>2. /\ attached' \subseteq Hooks /\ kept' \subseteq Hooks
      /\ flags' \subseteq Hooks /\ original' \subseteq Hooks
  BY DEF UninstallNext, BeginUninstall, DetachNext, EndDetach, WaitFrames, TimeOutFrames, Teardown,
         loader
<1>3. /\ shutting' \in BOOLEAN /\ complete' \in BOOLEAN /\ failed' \in BOOLEAN
      /\ whole' \in BOOLEAN /\ ready' \in BOOLEAN /\ attempts' \in Nat
  <2>1. CASE BeginUninstall
    BY <2>1 DEF BeginUninstall, progress, context
  <2>2. CASE DetachNext
    BY <2>2 DEF DetachNext, progress, context
  <2>3. CASE EndDetach \/ WaitFrames \/ TimeOutFrames
    BY <2>3 DEF EndDetach, WaitFrames, TimeOutFrames, progress, context, leaving
  <2>4. CASE Teardown
    BY <2>4 DEF Teardown, leaving
  <2>5. QED
    BY <2>1, <2>2, <2>3, <2>4 DEF UninstallNext
<1>4. detaching' \in 0..5
  BY DEF UninstallNext, BeginUninstall, DetachNext, EndDetach, WaitFrames, TimeOutFrames, Teardown,
         leaving, DetachOrder
<1>5. QED
  BY <1>1, <1>2, <1>3, <1>4

LEMMA FrameTyped ==
  ASSUME RestTyped, NEW t \in Presenters, FrameNext(t)
  PROVE  RestTyped'
<1>1. UNCHANGED <<api, offered, loader, shutting, progress, main, leaving>>
  BY FrameKeepsFlags
<1>2. UNCHANGED device
  BY DEF FrameNext, CallDetour, Guard, Count, Recheck, Lock, Ready, Initialize, SkipFrame, Works,
         LoseContext, Unlock, Uncount, Leave, LockResize, UnlockResize, device
<1>3. ready' \in BOOLEAN /\ backend' \in {None, "dxgi", "gl"}
  BY DEF RestTyped, FrameNext, CallDetour, Guard, Count, Recheck, Lock, Ready, Initialize, SkipFrame,
         Works, LoseContext, Unlock, Uncount, Leave, LockResize, UnlockResize, context, Family
<1>4. QED
  BY <1>1, <1>2, <1>3 DEF RestTyped, loader, progress, leaving, device

\* Every behaviour of the hooks keeps the types: no count or place leaves its range.
THEOREM HookTypes == HookSpec => []HookTypeOK
<1>1. HookInit => RestTyped
  <2>1. HookInit => offered \subseteq Hooks
    BY DEF HookInit, Hooks, Presenting, Pair
  <2>2. HookInit => attempts \in Nat /\ losses \in 0..MaxLosses /\ detaching \in 0..5
    BY HookAssumption DEF HookInit
  <2>3. HookInit => /\ shutting \in BOOLEAN /\ complete \in BOOLEAN /\ failed \in BOOLEAN
                    /\ whole \in BOOLEAN /\ ready \in BOOLEAN /\ lost \in BOOLEAN
    BY Zenon DEF HookInit
  <2>4. QED
    BY <2>1, <2>2, <2>3 DEF HookInit, RestTyped
<1>2. RestTyped /\ [HookNext]_hookVars => RestTyped'
  <2> SUFFICES ASSUME RestTyped, [HookNext]_hookVars PROVE RestTyped'
    OBVIOUS
  <2>1. CASE LoseDevice \/ FindDevice \/ UNCHANGED hookVars
    <3>1. UNCHANGED <<api, offered, loader, shutting, progress, leaving, context>>
      BY <2>1 DEF LoseDevice, FindDevice, hookVars
    <3>2. lost' \in BOOLEAN
      BY <2>1 DEF RestTyped, LoseDevice, FindDevice, hookVars, device
    <3>3. losses' \in 0..MaxLosses
      BY <2>1, HookAssumption DEF RestTyped, LoseDevice, FindDevice, hookVars, device
    <3>4. QED
      BY <3>1, <3>2, <3>3 DEF RestTyped, loader, progress, leaving, context
  <2>2. QED
    BY <2>1, InstallTyped, UninstallTyped, FrameTyped DEF HookNext
<1>3. RestTyped /\ FrameInv => HookTypeOK
  BY InsideCounted DEF RestTyped, FrameInv, HookTypeOK, Points, Mains
<1>4. QED
  BY <1>1, <1>2, <1>3, FrameInvInit, FrameInvKept, PTL DEF HookSpec
=============================================================================

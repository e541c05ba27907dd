----------------------------- MODULE OverlayProofs -----------------------------
(***************************************************************************)
(* Proofs about the overlay, for any keys and buttons, any lengths of the  *)
(* queues and any finite set of presenting threads.                        *)
(***************************************************************************)
EXTENDS Overlay, RenderHookProofs

-----------------------------------------------------------------------------
(***************************************************************************)
(* The hooks.  The overlay steps them as RenderHook alone does, so what    *)
(* holds of HookSpec holds of the overlay.                                 *)
(***************************************************************************)
LEMMA MainStepHooks ==
  ASSUME MainStep
  PROVE  Install \/ UninstallNext \/ UNCHANGED hookVars
  BY DEF MainStep, Installing, StartUninstall, Detaching, TearDown, Messages, UninstallNext

LEMMA FrameStepHooks ==
  ASSUME NEW t \in Presenters, FrameStep(t)
  PROVE  FrameNext(t) \/ UNCHANGED hookVars
<1>1. CASE Silently(t)
  BY <1>1 DEF Silently, FrameNext
<1>2. CASE \E granted \in BOOLEAN, sent \in SUBSET Calls : StartImGui(t, granted, sent)
  BY <1>2 DEF StartImGui, FrameNext
<1>3. CASE \E w \in WorkSteps : Works(t, w[1], w[2])
  BY <1>3 DEF FrameNext
<1>4. CASE CloseImGui(t)
  BY <1>4 DEF CloseImGui, FrameNext
<1>5. /\ <<"toggle", "poll">> \in WorkSteps /\ <<"poll", "drain">> \in WorkSteps
      /\ <<"drain", "publish">> \in WorkSteps /\ <<"publish", "unlock">> \in WorkSteps
      /\ <<"lost", "losing">> \in WorkSteps
  BY DEF WorkSteps
<1>6. CASE Polling(t) \/ Draining(t) \/ Publishing(t)
  BY <1>3, <1>5, <1>6 DEF Polling, Draining, Publishing
<1>7. CASE \E granted \in BOOLEAN, sent \in SUBSET Calls :
             Toggling(t, granted, sent) \/ AskToClose(t, granted, sent)
  BY <1>3, <1>5, <1>7 DEF Toggling, AskToClose
<1>8. QED
  BY <1>1, <1>2, <1>4, <1>6, <1>7 DEF FrameStep

LEMMA StepHooks ==
  ASSUME [Next]_vars
  PROVE  [HookNext]_hookVars
<1>1. CASE MainStep
  BY <1>1, MainStepHooks DEF HookNext
<1>2. CASE \E t \in Presenters : FrameStep(t)
  BY <1>2, FrameStepHooks DEF HookNext
<1>3. CASE World \/ Device \/ UNCHANGED vars
  BY <1>3 DEF World, Device, HookNext, vars
<1>4. QED
  BY <1>1, <1>2, <1>3 DEF Next

\* Every behaviour of the overlay is, seen from its hooks, one of RenderHook: the input
\* that a frame handles decides nothing about installation, frames and removal.
THEOREM HooksAlone == Spec => HookSpec
<1>1. Init => HookInit
  BY DEF Init
<1>2. [Next]_vars => [HookNext]_hookVars
  BY StepHooks
<1>3. QED
  BY <1>1, <1>2, PTL DEF Spec, HookSpec

\* Whatever the loader refuses and whatever the frames do meanwhile, install() leaves
\* a set of hooks that works.
THEOREM OverlayInstallsWhole == Spec => []InstallWhole
  BY HooksAlone, InstallsWhole, PTL

\* uninstall() tears ImGui down with no frame inside and none to come.
THEOREM OverlayTearsDownUnblocked == Spec => []TeardownUnblocked
  BY HooksAlone, TearsDownUnblocked, PTL

-----------------------------------------------------------------------------
(***************************************************************************)
(* The input.  What the game believes held was given to it by wndproc(),   *)
(* which remembers it as the game's (g_game_keyboard, g_game_mouse), and   *)
(* is still held by the player or ended by a message on its way.           *)
(***************************************************************************)
WindowMessages ==
  {Key(k, d, r) : k \in Keys, d \in BOOLEAN, r \in BOOLEAN}
    \union {Button(b, d) : b \in Buttons, d \in BOOLEAN}
    \union {<<"killfocus", to>> : to \in {"panel", "away"}}
    \union {<<"setfocus">>, <<"cancel">>, <<"capture">>}

IsPress(m) == m[1] \in {"key", "button"} /\ m[3]

\* The player holds i in the game's window, or a message after the n-th ends it.
Covered(n, i) ==
  \/ focus = "game" /\ i \in hw
  \/ \E p \in 1..Len(msgs) : n < p /\ Ends(msgs[p], i)

HeldRelease(i) == hold # <<>> /\ hold[1].button = i /\ ~hold[1].down

OwnInv ==
  /\ msgs \in Seq(WindowMessages)
  /\ game \ bypassed \subseteq gameOwned
  /\ \A n \in 1..Len(msgs) : IsPress(msgs[n]) => Covered(n, msgs[n][2])
  /\ hold # <<>> /\ hold[1].down => Covered(0, hold[1].button)
  /\ hold # <<>> /\ ~hold[1].down /\ hold[1].capture => hold[1].button \notin gameOwned
  /\ \A i \in game \ bypassed : Covered(0, i) \/ HeldRelease(i)

ownVars == <<hw, focus, msgs, game, bypassed, gameOwned, hold>>

LEMMA OwnKept ==
  ASSUME OwnInv, UNCHANGED ownVars
  PROVE  OwnInv'
  BY DEF OwnInv, ownVars, Covered, HeldRelease, IsPress, Ends

-----------------------------------------------------------------------------
(* The messages come in *)

LEMMA Appended ==
  ASSUME OwnInv, NEW m \in WindowMessages, msgs' = Append(msgs, m)
  PROVE  /\ msgs' \in Seq(WindowMessages) /\ Len(msgs) \in Nat /\ Len(msgs') = Len(msgs) + 1
         /\ \A n \in 1..Len(msgs) : msgs'[n] = msgs[n]
         /\ msgs'[Len(msgs) + 1] = m
  BY DEF OwnInv

\* A message that comes in keeps OwnInv, if what was covered stays covered and a press
\* is held.
LEMMA ComesIn ==
  ASSUME OwnInv, NEW m \in WindowMessages, msgs' = Append(msgs, m),
         UNCHANGED <<game, bypassed, gameOwned, hold>>,
         IsPress(m) => focus' = "game" /\ m[2] \in hw',
         \A i : focus = "game" /\ i \in hw => (focus' = "game" /\ i \in hw') \/ Ends(m, i)
  PROVE  OwnInv'
<1> DEFINE After(n, i) == \/ focus' = "game" /\ i \in hw'
                          \/ \E p \in 1..Len(msgs') : n < p /\ Ends(msgs'[p], i)
<1>1. /\ msgs' \in Seq(WindowMessages) /\ Len(msgs) \in Nat /\ Len(msgs') = Len(msgs) + 1
      /\ \A n \in 1..Len(msgs) : msgs'[n] = msgs[n]
      /\ msgs'[Len(msgs) + 1] = m
  BY Appended
<1>2. ASSUME NEW n \in 0..Len(msgs), NEW i, Covered(n, i)
      PROVE  After(n, i)
  <2>1. CASE focus = "game" /\ i \in hw
    <3>1. (focus' = "game" /\ i \in hw') \/ Ends(m, i)
      BY <2>1
    <3>2. /\ Len(msgs) + 1 \in 1..Len(msgs') /\ n < Len(msgs) + 1
          /\ Ends(m, i) => Ends(msgs'[Len(msgs) + 1], i)
      BY <1>1
    <3>3. QED
      BY <3>1, <3>2
  <2>2. CASE \E p \in 1..Len(msgs) : n < p /\ Ends(msgs[p], i)
    <3>1. PICK p \in 1..Len(msgs) : n < p /\ Ends(msgs[p], i)
      BY <2>2
    <3>2. p \in 1..Len(msgs') /\ msgs'[p] = msgs[p]
      BY <1>1, <3>1
    <3>3. QED
      BY <3>1, <3>2
  <2>3. QED
    BY <1>2, <2>1, <2>2 DEF Covered
<1>3. ASSUME NEW n \in 1..Len(msgs'), IsPress(msgs'[n])
      PROVE  After(n, msgs'[n][2])
  <2>1. CASE n \in 1..Len(msgs)
    <3>1. msgs'[n] = msgs[n] /\ n \in 0..Len(msgs)
      BY <1>1, <2>1
    <3>2. Covered(n, msgs[n][2])
      BY <1>3, <2>1, <3>1 DEF OwnInv
    <3>3. After(n, msgs[n][2])
      BY <1>2, <3>1, <3>2
    <3>4. QED
      BY <3>1, <3>3
  <2>2. CASE n = Len(msgs) + 1
    BY <1>1, <1>3, <2>2
  <2>3. QED
    BY <1>1, <2>1, <2>2
<1>4. 0 \in 0..Len(msgs)
  BY <1>1
<1>5. hold # <<>> /\ hold[1].down => After(0, hold[1].button)
  BY <1>2, <1>4 DEF OwnInv
<1>6. \A i \in game \ bypassed : After(0, i) \/ HeldRelease(i)
  BY <1>2, <1>4 DEF OwnInv
<1>7. QED
  BY <1>1, <1>3, <1>5, <1>6 DEF OwnInv, IsPress, HeldRelease, Covered, Ends

\* Without a message: the player does what the game is not told of, or not yet.
LEMMA NothingComes ==
  ASSUME OwnInv, UNCHANGED <<msgs, game, bypassed, gameOwned, hold, focus>>,
         focus = "game" => hw \subseteq hw'
  PROVE  OwnInv'
<1>1. \A n, i : Covered(n, i) => \/ focus' = "game" /\ i \in hw'
                               \/ \E p \in 1..Len(msgs') : n < p /\ Ends(msgs'[p], i)
  BY DEF Covered
<1>2. QED
  BY <1>1 DEF OwnInv, IsPress, HeldRelease, Covered, Ends

LEMMA MessageTypes ==
  /\ \A i \in Inputs, down \in BOOLEAN : Message(i, down) \in WindowMessages
  /\ \A k \in Keys : Key(k, TRUE, TRUE) \in WindowMessages
  /\ \A to \in {"panel", "away"} : <<"killfocus", to>> \in WindowMessages
  /\ <<"setfocus">> \in WindowMessages /\ <<"cancel">> \in WindowMessages
  /\ <<"capture">> \in WindowMessages
<1>1. \A k \in Keys, d, r \in BOOLEAN : Key(k, d, r) \in WindowMessages
  BY DEF WindowMessages
<1>2. \A b \in Buttons, d \in BOOLEAN : Button(b, d) \in WindowMessages
  BY DEF WindowMessages
<1>3. /\ \A to \in {"panel", "away"} : <<"killfocus", to>> \in WindowMessages
      /\ <<"setfocus">> \in WindowMessages /\ <<"cancel">> \in WindowMessages
      /\ <<"capture">> \in WindowMessages
  BY DEF WindowMessages
<1>4. QED
  BY <1>1, <1>2, <1>3 DEF Message, Inputs

LEMMA MessageMeans ==
  ASSUME NEW i, NEW down \in BOOLEAN
  PROVE  /\ IsPress(Message(i, down)) => down
         /\ Message(i, down)[2] = i
         /\ ~down => Ends(Message(i, down), i)
  BY DEF Message, IsPress, Ends, Key, Button

LEMMA EnvironmentKeeps ==
  ASSUME OwnInv, Environment
  PROVE  OwnInv'
<1> USE DEF Happens, delivery, owners
<1>1. ASSUME NEW i \in Inputs, Press(i)
      PROVE  OwnInv'
  <2>1. CASE focus = "game"
    <3>1. /\ hw' = hw \union {i} /\ msgs' = Append(msgs, Message(i, TRUE))
          /\ UNCHANGED <<game, bypassed, gameOwned, hold, focus>>
      BY <1>1, <2>1 DEF Press, ToFront, Message, Key, Button
    <3>2. Message(i, TRUE) \in WindowMessages /\ Message(i, TRUE)[2] = i
      BY MessageTypes, MessageMeans
    <3>3. QED
      BY <2>1, <3>1, <3>2, ComesIn
  <2>2. CASE focus # "game"
    BY <1>1, <2>2, NothingComes DEF Press, ToFront
  <2>3. QED
    BY <2>1, <2>2
<1>2. ASSUME NEW i \in Inputs, Release(i)
      PROVE  OwnInv'
  <2>1. CASE focus = "game"
    <3>1. /\ hw' = hw \ {i} /\ msgs' = Append(msgs, Message(i, FALSE))
          /\ UNCHANGED <<game, bypassed, gameOwned, hold, focus>>
      BY <1>2, <2>1 DEF Release, ToFront, Message, Key, Button
    <3>2. /\ Message(i, FALSE) \in WindowMessages /\ ~IsPress(Message(i, FALSE))
          /\ Ends(Message(i, FALSE), i)
      BY MessageTypes, MessageMeans
    <3>3. \A j : j \in hw => j \in hw' \/ Ends(Message(i, FALSE), j)
      BY <3>1, <3>2
    <3>4. QED
      BY <2>1, <3>1, <3>2, <3>3, ComesIn
  <2>2. CASE focus # "game"
    BY <1>2, <2>2, NothingComes DEF Release, ToFront
  <2>3. QED
    BY <2>1, <2>2
<1>3. ASSUME NEW k \in Keys, Repeat(k)
      PROVE  OwnInv'
  <2>1. /\ k \in hw /\ focus = "game" /\ msgs' = Append(msgs, Key(k, TRUE, TRUE))
        /\ UNCHANGED <<game, bypassed, gameOwned, hold, focus, hw>>
    BY <1>3 DEF Repeat, Key
  <2>2. Key(k, TRUE, TRUE)[2] = k /\ Key(k, TRUE, TRUE) \in WindowMessages
    BY MessageTypes DEF Key
  <2>3. QED
    BY <2>1, <2>2, ComesIn
<1>4. ASSUME NEW to \in {"panel", "away"}, LoseFocus(to)
      PROVE  OwnInv'
  <2>1. /\ msgs' = Append(msgs, <<"killfocus", to>>) /\ <<"killfocus", to>> \in WindowMessages
        /\ UNCHANGED <<game, bypassed, gameOwned, hold>>
    BY <1>4, MessageTypes DEF LoseFocus
  <2>2. ~IsPress(<<"killfocus", to>>) /\ \A i : Ends(<<"killfocus", to>>, i)
    BY DEF IsPress, Ends
  <2>3. QED
    BY <2>1, <2>2, ComesIn
<1>5. CASE GainFocus
  <2>1. /\ msgs' = Append(msgs, <<"setfocus">>) /\ <<"setfocus">> \in WindowMessages
        /\ UNCHANGED <<game, bypassed, gameOwned, hold>> /\ focus # "game"
    BY <1>5, MessageTypes DEF GainFocus
  <2>2. ~IsPress(<<"setfocus">>)
    BY DEF IsPress
  <2>3. QED
    BY <2>1, <2>2, ComesIn
<1>6. ASSUME NEW kind \in {"cancel", "capture"}, LoseCapture(kind)
      PROVE  OwnInv'
  <2>1. /\ msgs' = Append(msgs, <<kind>>) /\ <<kind>> \in WindowMessages
        /\ UNCHANGED <<game, bypassed, gameOwned, hold, focus, hw>>
    BY <1>6, MessageTypes DEF LoseCapture
  <2>2. ~IsPress(<<kind>>)
    BY DEF IsPress
  <2>3. QED
    BY <2>1, <2>2, ComesIn
<1>7. QED
  BY <1>1, <1>2, <1>3, <1>4, <1>5, <1>6 DEF Environment

-----------------------------------------------------------------------------
(* The messages are handled *)

LEMMA Popped ==
  ASSUME OwnInv, msgs # <<>>, msgs' = Tail(msgs)
  PROVE  /\ msgs' \in Seq(WindowMessages) /\ Len(msgs) \in Nat \ {0} /\ Len(msgs') = Len(msgs) - 1
         /\ \A n \in 1..Len(msgs') : msgs'[n] = msgs[n + 1]
         /\ Head(msgs) = msgs[1]
  BY DEF OwnInv

\* The first message is taken.  What it does not end stays covered, and what it
\* presses is covered by the rest; who is told what is left to the caller.
LEMMA Taken ==
  ASSUME OwnInv, msgs # <<>>, msgs' = Tail(msgs), UNCHANGED <<hw, focus>>, hold = <<>>,
         game' \ bypassed' \subseteq gameOwned',
         \A i \in game' \ bypassed' :
           \/ i \in game \ bypassed /\ ~Ends(Head(msgs), i)
           \/ IsPress(Head(msgs)) /\ i = Head(msgs)[2]
           \/ hold' # <<>> /\ hold'[1].button = i /\ ~hold'[1].down,
         hold' # <<>> =>
           /\ hold'[1].button = Head(msgs)[2] /\ UNCHANGED <<game, bypassed, gameOwned>>
           /\ hold'[1].down => IsPress(Head(msgs))
           /\ ~hold'[1].down /\ hold'[1].capture => hold'[1].button \notin gameOwned'
  PROVE  OwnInv'
<1> DEFINE After(n, i) == \/ focus' = "game" /\ i \in hw'
                          \/ \E p \in 1..Len(msgs') : n < p /\ Ends(msgs'[p], i)
<1>1. /\ msgs' \in Seq(WindowMessages) /\ Len(msgs) \in Nat \ {0} /\ Len(msgs') = Len(msgs) - 1
      /\ \A n \in 1..Len(msgs') : msgs'[n] = msgs[n + 1]
      /\ Head(msgs) = msgs[1]
  BY Popped
<1>2. ASSUME NEW n \in Nat, NEW i, Covered(n + 1, i)
      PROVE  After(n, i)
  <2>1. CASE \E p \in 1..Len(msgs) : n + 1 < p /\ Ends(msgs[p], i)
    <3>1. PICK p \in 1..Len(msgs) : n + 1 < p /\ Ends(msgs[p], i)
      BY <2>1
    <3>2. p - 1 \in 1..Len(msgs') /\ n < p - 1 /\ msgs'[p - 1] = msgs[p]
      BY <1>1, <3>1
    <3>3. QED
      BY <3>1, <3>2
  <2>2. QED
    BY <1>2, <2>1 DEF Covered
<1>3. ASSUME NEW n \in 1..Len(msgs'), IsPress(msgs'[n])
      PROVE  After(n, msgs'[n][2])
  <2>1. msgs'[n] = msgs[n + 1] /\ n + 1 \in 1..Len(msgs) /\ n \in Nat
    BY <1>1
  <2>2. Covered(n + 1, msgs[n + 1][2])
    BY <1>3, <2>1 DEF OwnInv
  <2>3. QED
    BY <1>2, <2>1, <2>2
<1>4. IsPress(Head(msgs)) => After(0, Head(msgs)[2])
  <2>1. IsPress(Head(msgs)) => Covered(0 + 1, Head(msgs)[2])
    BY <1>1 DEF OwnInv
  <2>2. QED
    BY <1>2, <2>1
<1>5. ASSUME NEW i \in game \ bypassed, ~Ends(Head(msgs), i)
      PROVE  After(0, i)
  <2>1. Covered(0, i)
    BY DEF OwnInv, HeldRelease
  <2>2. Covered(0 + 1, i)
    BY <1>1, <1>5, <2>1 DEF Covered
  <2>3. QED
    BY <1>2, <2>2
<1>6. hold' # <<>> => (hold'[1].down => After(0, hold'[1].button))
  BY <1>4
<1>7. \A i \in game' \ bypassed' :
        After(0, i) \/ (hold' # <<>> /\ hold'[1].button = i /\ ~hold'[1].down)
  BY <1>4, <1>5
<1>8. QED
  BY <1>1, <1>3, <1>6, <1>7 DEF OwnInv, IsPress, HeldRelease, Covered, Ends

LEMMA ToldPress ==
  ASSUME NEW i, NEW seen \in BOOLEAN, GameTold(i, TRUE, seen)
  PROVE  /\ game' \ bypassed' \subseteq (game \ bypassed) \union {i}
         /\ ~seen => game' \ bypassed' \subseteq game \ bypassed
  BY DEF GameTold

LEMMA ToldRelease ==
  ASSUME NEW i, NEW seen \in BOOLEAN, GameTold(i, FALSE, seen)
  PROVE  game' \ bypassed' \subseteq (game \ bypassed) \ {i}
  BY DEF GameTold

LEMMA HandleKeyKeeps ==
  ASSUME OwnInv, NEW live \in BOOLEAN, HandleKey(live)
  PROVE  OwnInv'
<1> DEFINE m == Head(msgs)
           k == m[2]
<1>1. /\ msgs # <<>> /\ msgs' = Tail(msgs) /\ UNCHANGED <<hw, focus, hold>> /\ hold = <<>>
      /\ m[1] = "key"
  BY DEF HandleKey, Took, system
<1>2. CASE m[3]
  <2>1. \/ UNCHANGED <<gameOwned, game, bypassed>>
        \/ gameOwned' = gameOwned \union {k} /\ GameTold(k, TRUE, TRUE)
    BY <1>2 DEF HandleKey, delivery, GameTold
  <2>2. IsPress(m) /\ \A i : ~Ends(m, i)
    BY <1>1, <1>2 DEF IsPress, Ends
  <2>3. /\ game' \ bypassed' \subseteq (game \ bypassed) \union {k}
        /\ game' \ bypassed' \subseteq gameOwned'
    BY <2>1, ToldPress DEF OwnInv
  <2>4. QED
    BY <1>1, <2>2, <2>3, Taken
<1>3. CASE ~m[3]
  <2>1. \/ UNCHANGED <<gameOwned, game, bypassed>> /\ k \notin gameOwned
        \/ gameOwned' = gameOwned \ {k} /\ GameTold(k, FALSE, TRUE)
    BY <1>3 DEF HandleKey, delivery, MenuTakes, GameTold
  <2>2. \A i : i # k => ~Ends(m, i)
    BY <1>1 DEF Ends
  <2>3. /\ game' \ bypassed' \subseteq (game \ bypassed) \ {k}
        /\ game' \ bypassed' \subseteq gameOwned'
    BY <2>1, ToldRelease DEF OwnInv
  <2>4. QED
    BY <1>1, <2>2, <2>3, Taken
<1>4. QED
  BY <1>2, <1>3

LEMMA ReadButtonKeeps ==
  ASSUME OwnInv, NEW live \in BOOLEAN, ReadButton(live)
  PROVE  OwnInv'
<1> DEFINE m == Head(msgs)
<1>1. /\ msgs # <<>> /\ msgs' = Tail(msgs) /\ hold = <<>> /\ m[1] = "button"
      /\ UNCHANGED <<hw, focus, game, bypassed, gameOwned>>
  BY DEF ReadButton, Took, system, delivery
<1> DEFINE r == [button |-> m[2], down |-> m[3], shown |-> Shown(live),
                 mine |-> m[2] \in menuOwned,
                 closed |-> ~m[3] /\ m[2] \in menuReleased,
                 capture |-> IF m[3] THEN Shown(live) /\ wants.mouse
                             ELSE m[2] \in menuOwned /\ m[2] \notin gameOwned]
<1>2. PICK h : /\ hold' = <<h>> /\ h.button = m[2] /\ h.down = m[3]
               /\ ~h.down /\ h.capture => h.button \notin gameOwned
  <2>1. hold' = <<r>>
    BY DEF ReadButton
  <2>2. r.button = m[2] /\ r.down = m[3]
    OBVIOUS
  <2>3. ~m[3] => (r.capture <=> m[2] \in menuOwned /\ m[2] \notin gameOwned)
    OBVIOUS
  <2> HIDE DEF r
  <2>4. QED
    BY <2>1, <2>2, <2>3
<1>3. \A i : Ends(m, i) => i = m[2] /\ ~m[3]
  BY <1>1 DEF Ends
<1>4. h.down => IsPress(m)
  BY <1>1, <1>2 DEF IsPress
<1>5. hold' # <<>> /\ hold'[1] = h
  BY <1>2
<1>6. game' \ bypassed' \subseteq gameOwned'
  BY <1>1 DEF OwnInv
<1>7. \A i \in game' \ bypassed' :
        \/ i \in game \ bypassed /\ ~Ends(m, i)
        \/ hold' # <<>> /\ hold'[1].button = i /\ ~hold'[1].down
  BY <1>1, <1>2, <1>3, <1>5
<1>8. QED
  BY <1>1, <1>2, <1>4, <1>5, <1>6, <1>7, Taken

LEMMA FinishButtonKeeps ==
  ASSUME OwnInv, FinishButton
  PROVE  OwnInv'
<1> DEFINE h == hold[1]
           b == h.button
<1>1. hold # <<>> /\ hold' = <<>> /\ UNCHANGED <<hw, focus, msgs>>
  BY DEF FinishButton, system
<1>2. /\ game' \ bypassed' \subseteq gameOwned'
      /\ \A i \in game' \ bypassed' : \/ i \in game \ bypassed /\ ~HeldRelease(i)
                                      \/ h.down /\ i = b
  <2>1. CASE h.capture
    <3>1. UNCHANGED <<gameOwned, game, bypassed>>
      BY <2>1 DEF FinishButton, delivery
    <3>2. ~h.down => b \notin gameOwned
      BY <1>1, <2>1 DEF OwnInv
    <3>3. QED
      BY <3>1, <3>2 DEF OwnInv, HeldRelease
  <2>2. CASE ~h.capture /\ h.down
    <3>1. gameOwned' = gameOwned \union {b} /\ GameTold(b, TRUE, TRUE)
      BY <2>2 DEF FinishButton, GameTold
    <3>2. game' \ bypassed' \subseteq (game \ bypassed) \union {b}
      BY <3>1, ToldPress
    <3>3. QED
      BY <2>2, <3>1, <3>2 DEF OwnInv, HeldRelease
  <2>3. CASE ~h.capture /\ ~h.down
    <3>1. gameOwned' = gameOwned \ {b} /\ GameTold(b, FALSE, TRUE)
      BY <2>3 DEF FinishButton, GameTold
    <3>2. game' \ bypassed' \subseteq (game \ bypassed) \ {b}
      BY <3>1, ToldRelease
    <3>3. QED
      BY <3>1, <3>2 DEF OwnInv, HeldRelease
  <2>4. QED
    BY <2>1, <2>2, <2>3
<1>3. \A i \in game' \ bypassed' : Covered(0, i)
  BY <1>1, <1>2 DEF OwnInv
<1>4. QED
  BY <1>1, <1>2, <1>3 DEF OwnInv, IsPress, HeldRelease, Covered, Ends

LEMMA HandleDirectKeeps ==
  ASSUME OwnInv, HandleDirect
  PROVE  OwnInv'
<1> DEFINE m == Head(msgs)
<1>1. /\ msgs # <<>> /\ msgs' = Tail(msgs) /\ hold = <<>>
      /\ UNCHANGED <<hw, focus, gameOwned, hold>>
  BY DEF HandleDirect, system, owners
<1>2. \A i \in game' \ bypassed' : i \in game \ bypassed /\ ~Ends(m, i)
  <2>1. CASE m[1] \in {"key", "button"} /\ m[3]
    <3>1. GameTold(m[2], TRUE, FALSE)
      BY <2>1 DEF HandleDirect, GameTold
    <3>2. QED
      BY <2>1, <3>1, ToldPress DEF Ends
  <2>2. CASE m[1] \in {"key", "button"} /\ ~m[3]
    <3>1. GameTold(m[2], FALSE, FALSE)
      BY <2>2 DEF HandleDirect, GameTold
    <3>2. QED
      BY <2>2, <3>1, ToldRelease DEF Ends
  <2>3. CASE m[1] = "killfocus"
    BY <2>3 DEF HandleDirect, GameLetsGo
  <2>4. CASE m[1] \notin {"key", "button", "killfocus"}
    BY <2>4 DEF HandleDirect, delivery, Ends
  <2>5. QED
    BY <2>1, <2>2, <2>3, <2>4
<1>3. game' \ bypassed' \subseteq gameOwned'
  BY <1>1, <1>2 DEF OwnInv
<1>4. QED
  BY <1>1, <1>2, <1>3, Taken

LEMMA FocusKeeps ==
  ASSUME OwnInv, HandleKillFocus \/ HandleCancel \/ HandleCapture \/ HandleSetFocus
  PROVE  OwnInv'
<1>1. /\ msgs # <<>> /\ msgs' = Tail(msgs) /\ hold = <<>> /\ UNCHANGED <<hw, focus, hold>>
  BY DEF HandleKillFocus, HandleCancel, HandleCapture, HandleSetFocus, Took, system
<1>2. CASE HandleKillFocus
  <2>1. game' = {}
    BY <1>2 DEF HandleKillFocus, GameLetsGo
  <2>2. QED
    BY <1>1, <2>1, Taken
<1>3. CASE HandleCancel \/ HandleCapture \/ HandleSetFocus
  <2>1. UNCHANGED <<game, bypassed, gameOwned>>
    BY <1>3 DEF HandleCancel, HandleCapture, HandleSetFocus, delivery, owners
  <2>2. \A i : ~Ends(Head(msgs), i)
    BY <1>3 DEF HandleCancel, HandleCapture, HandleSetFocus, Took, Ends
  <2>3. QED
    BY <1>1, <2>1, <2>2, Taken DEF OwnInv
<1>4. QED
  BY <1>2, <1>3

\* Opening the routing takes from the game exactly what it was given.
LEMMA HandleInputStateKeeps ==
  ASSUME OwnInv, HandleInputState
  PROVE  OwnInv'
<1>1. UNCHANGED <<hw, focus, msgs, hold>> /\ hold = <<>>
  BY DEF HandleInputState, TakePosted, system
<1>2. \/ UNCHANGED <<game, bypassed, gameOwned>>
      \/ game' = game \ gameOwned /\ bypassed' = bypassed \ gameOwned /\ gameOwned' = {}
  BY DEF HandleInputState, Transition, delivery, owners
<1>3. UNCHANGED <<game, bypassed, gameOwned>> \/ game' \ bypassed' = {}
  BY <1>2 DEF OwnInv
<1>4. QED
  BY <1>1, <1>3 DEF OwnInv, IsPress, HeldRelease, Covered, Ends

LEMMA WindowKeeps ==
  ASSUME OwnInv, NEW live \in BOOLEAN, Window(live)
  PROVE  OwnInv'
<1>1. CASE \/ \E done \in BOOLEAN : HandleCursorState(done)
           \/ DropPosted
  BY <1>1, OwnKept DEF HandleCursorState, DropPosted, ownVars, system, delivery, owners
<1>2. QED
  BY <1>1, HandleKeyKeeps, ReadButtonKeeps, FinishButtonKeeps, FocusKeeps, HandleDirectKeeps,
     HandleInputStateKeeps DEF Window

-----------------------------------------------------------------------------
(* Everything else leaves it alone *)

LEMMA FrameLeaves ==
  ASSUME NEW t \in Presenters, FrameStep(t)
  PROVE  UNCHANGED ownVars
<1> USE DEF ownVars, system, delivery, owners
<1>1. CASE Silently(t)
  BY <1>1 DEF Silently, inputVars
<1>2. CASE Polling(t)
  BY <1>2 DEF Polling, StartPoll, SampleButton, WriteSample
<1>3. CASE Draining(t) \/ Publishing(t) \/ CloseImGui(t)
  BY <1>3 DEF Draining, DrainEvents, Publishing, PublishCapture, CloseImGui
<1>4. ASSUME NEW granted, NEW sent,
             StartImGui(t, granted, sent) \/ Toggling(t, granted, sent) \/ AskToClose(t, granted, sent)
      PROVE  UNCHANGED ownVars
  BY <1>4 DEF StartImGui, Toggling, ToggleAndSync, AskToClose
<1>5. QED
  BY <1>1, <1>2, <1>3, <1>4 DEF FrameStep

LEMMA MainKeeps ==
  ASSUME OwnInv, MainStep
  PROVE  OwnInv'
<1>1. CASE Installing \/ StartUninstall \/ Detaching
  BY <1>1, OwnKept DEF Installing, StartUninstall, Detaching, inputVars, ownVars, system, delivery,
                       owners
<1>2. ASSUME NEW granted, NEW done, TearDown(granted, done)
      PROVE  OwnInv'
  BY <1>2, OwnKept DEF TearDown, ownVars, system, delivery
<1>3. CASE Messages
  BY <1>3, WindowKeeps DEF Messages
<1>4. QED
  BY <1>1, <1>2, <1>3 DEF MainStep

LEMMA OwnInvKept ==
  ASSUME OwnInv, [Next]_vars
  PROVE  OwnInv'
<1>1. CASE \E t \in Presenters : FrameStep(t)
  BY <1>1, FrameLeaves, OwnKept
<1>2. CASE World
  BY <1>2, EnvironmentKeeps, OwnKept DEF World, Age, ownVars, system, delivery, owners
<1>3. CASE Device \/ UNCHANGED vars
  BY <1>3, OwnKept DEF Device, vars, inputVars, ownVars, system, delivery, owners
<1>4. QED
  BY <1>1, <1>2, <1>3, MainKeeps DEF Next

\* However the menu opens, closes, wants the keyboard or the mouse and stops wanting
\* them, and however the handler comes and goes, what wndproc() gave the game and the
\* player let go of is ended by a message the game is going to get.
THEOREM ReleasesReachTheGame == Spec => []GameReleased
<1>1. Init => OwnInv
  BY DEF Init, InputInit, OwnInv
<1>2. OwnInv => GameReleased
  <2>1. \A i : HeldRelease(i) => ReleasePending(i)
    BY DEF HeldRelease, ReleasePending
  <2>2. ASSUME OwnInv PROVE \A i : Covered(0, i) => i \in hw \/ ReleasePending(i)
    BY <2>2 DEF OwnInv, Covered, ReleasePending
  <2>3. QED
    BY <2>1, <2>2 DEF OwnInv, GameReleased
<1>3. QED
  BY <1>1, <1>2, OwnInvKept, PTL DEF Spec
=============================================================================

------------------------------ MODULE InputRouting ------------------------------
(***************************************************************************)
(* Who gets the player's input while the overlay is drawn over the game    *)
(* (src/mod/hooks/render_imgui_hook.cpp).                                  *)
(*                                                                         *)
(* Two threads share it.  The window thread runs wndproc() on every        *)
(* message of the game's window: it hands a key or a button to the game or *)
(* keeps it for the menu, and remembers who got the press so that the      *)
(* release goes the same way.  The render thread draws the menu: in each   *)
(* frame it toggles the menu, asks the window thread by a posted message   *)
(* to open or close the input routing and the native cursor, polls the     *)
(* buttons, drains the queue of input events into ImGui and publishes what *)
(* ImGui wants to capture.  Only the event queue is behind a lock;         *)
(* g_wndproc_mouse_down is written by both threads without one, so the     *)
(* poll and the handling of a button are two steps each.                   *)
(*                                                                         *)
(* The system's side is external: the hardware, the focus, the two queues  *)
(* the window thread is fed from, and the game, which believes an input    *)
(* held from the press to the release it is given and lets go of all when  *)
(* its window loses the focus.  Positions, wheel, raw mouse input, window  *)
(* capture and the messages relayed between mods are left out; whatever    *)
(* else is queued for ImGui counts as "other" against the queue's limit.   *)
(***************************************************************************)
EXTENDS Naturals, Sequences, SequencesExt

CONSTANTS
  Keys, Buttons,
  ToggleKey,      \* ModConfig::menu_toggle_key
  QueueLimit,     \* the 512 of queue_input_event()
  CursorControl,  \* the loader offers the menu-cursor lease
  MaxInputs,      \* bound: presses, releases, repeats and focus changes in all
  MaxMessages,    \* bound: hardware messages waiting for the window thread
  MaxPosted       \* posted messages its queue takes; PostMessage() fails beyond (10,000)

Inputs == Keys \union Buttons

ASSUME InputAssumption ==
  /\ Keys \intersect Buttons = {}
  /\ ToggleKey \in Keys
  /\ QueueLimit \in Nat \ {0}
  /\ CursorControl \in BOOLEAN
  /\ {MaxInputs, MaxMessages, MaxPosted} \subseteq Nat

VARIABLES
  hw,           \* external: the inputs held down
  focus,        \* external: the window in front, "game", "panel" (detached ImGui) or "away"
  msgs,         \* external: window messages of the hardware
  posted,       \* external: the messages request_window_*_state() posted
  inputs,       \* bound: how many of MaxInputs happened
  game,         \* external: the inputs the game believes held
  bypassed,     \* of those, the ones pressed while no handler was installed
  hooked,       \* wndproc() is installed in g_hwnd
  gameOwned,    \* g_game_keyboard, g_game_mouse: .down
  menuReleased, \* g_menu_released_keyboard, g_menu_released_mouse
  menuOwned,    \* g_wndproc_mouse_down
  routing,      \* g_menu_input_open
  hold,         \* the button message wndproc() is handling, or <<>>
  visible,      \* g_menu_visible
  wants,        \* g_imgui_wants_mouse, g_imgui_wants_keyboard
  input,        \* g_menu_input_requested, _applied and the age of _request_tick
  cursor,       \* the same for g_native_cursor_*
  owned,        \* g_native_cursor_owned
  lease,        \* g_cursor_lease
  toggle,       \* g_menu_toggle_count is odd
  showMenu,     \* ModConfig::show_menu
  events,       \* g_input_events
  imguiDown,    \* the buttons ImGui believes held
  poll          \* poll_window_mouse_state(): buttons to do and the one sampled

system == <<hw, focus, inputs>>
owners == <<gameOwned, menuReleased, menuOwned>>
delivery == <<game, bypassed>>
requests == <<input, cursor, owned, lease>>
menu == <<toggle, showMenu>>
drawn == <<imguiDown, poll>>
inputVars == <<system, msgs, posted, delivery, hooked, owners, routing, hold, visible,
               wants, requests, menu, events, drawn>>

Capture == [mouse : BOOLEAN, keyboard : BOOLEAN]
NoCapture == [mouse |-> FALSE, keyboard |-> FALSE]
Idle == [todo |-> {}, sample |-> <<>>]
Unasked == [requested |-> "none", applied |-> "none", aged |-> TRUE]
Asking == [requested : {"none", "open", "closed"}, applied : {"none", "open", "closed"},
           aged : BOOLEAN]

InputInit ==
  /\ hw = {} /\ focus = "game" /\ msgs = <<>> /\ posted = <<>> /\ inputs = 0
  /\ game = {} /\ bypassed = {} /\ hooked = FALSE
  /\ gameOwned = {} /\ menuReleased = {} /\ menuOwned = {}
  /\ routing = FALSE /\ hold = <<>> /\ visible = FALSE /\ wants = NoCapture
  /\ input = Unasked /\ owned = FALSE /\ lease = FALSE
  /\ cursor = Unasked
  /\ toggle = FALSE /\ showMenu = FALSE
  /\ events = <<>> /\ imguiDown = {} /\ poll = Idle

InputTypeOK ==
  /\ {hw, game, gameOwned, menuReleased} \subseteq SUBSET Inputs
  /\ bypassed \subseteq game
  /\ focus \in {"game", "panel", "away"}
  /\ {menuOwned, imguiDown} \subseteq SUBSET Buttons
  /\ {hooked, routing, visible, owned, lease, toggle, showMenu} \subseteq BOOLEAN
  /\ wants \in Capture
  /\ {input, cursor} \subseteq Asking
  /\ Len(events) <= QueueLimit + 1
  /\ Len(msgs) <= MaxMessages /\ Len(posted) <= MaxPosted

-----------------------------------------------------------------------------
(* The hardware and the system *)

Key(k, down, repeat) == <<"key", k, down, repeat>>
Button(b, down) == <<"button", b, down>>
Message(i, down) == IF i \in Keys THEN Key(i, down, FALSE) ELSE Button(i, down)

Happens(m) ==
  /\ inputs < MaxInputs /\ inputs' = inputs + 1
  /\ m # <<>> => Len(msgs) < MaxMessages
  /\ msgs' = IF m = <<>> THEN msgs ELSE Append(msgs, m)
  /\ UNCHANGED <<posted, delivery, hooked, owners, routing, hold, visible, wants, requests,
                 menu, events, drawn>>

\* Only the window in front is told.
ToFront(m) == IF focus = "game" THEN m ELSE <<>>

Press(i) == i \notin hw /\ hw' = hw \union {i} /\ Happens(ToFront(Message(i, TRUE))) /\ UNCHANGED focus
Release(i) == i \in hw /\ hw' = hw \ {i} /\ Happens(ToFront(Message(i, FALSE))) /\ UNCHANGED focus
Repeat(k) == k \in hw /\ focus = "game" /\ Happens(Key(k, TRUE, TRUE)) /\ UNCHANGED <<hw, focus>>

LoseFocus(to) == focus = "game" /\ focus' = to /\ Happens(<<"killfocus", to>>) /\ UNCHANGED hw
GainFocus == focus # "game" /\ focus' = "game" /\ Happens(<<"setfocus">>) /\ UNCHANGED hw
\* WM_CANCELMODE and a WM_CAPTURECHANGED that gives the capture to another window.
LoseCapture(kind) == focus = "game" /\ Happens(<<kind>>) /\ UNCHANGED <<hw, focus>>

Environment ==
  \/ \E i \in Inputs : Press(i) \/ Release(i)
  \/ \E k \in Keys : Repeat(k)
  \/ \E to \in {"panel", "away"} : LoseFocus(to)
  \/ GainFocus
  \/ \E kind \in {"cancel", "capture"} : LoseCapture(kind)

\* What the game makes of input i going down or up; seen: through wndproc().
GameTold(i, down, seen) ==
  /\ game' = IF down THEN game \union {i} ELSE game \ {i}
  /\ bypassed' = IF down /\ ~seen THEN bypassed \union ({i} \ game) ELSE bypassed \ {i}

GameLetsGo == game' = {} /\ bypassed' = {}

-----------------------------------------------------------------------------
(* The window thread: wndproc() *)

\* queue_input_event().
Queued(q, e) == Append(IF Len(q) >= QueueLimit THEN <<<<"releaseAll">>>> ELSE q, e)
Other == <<"other">>

\* clear_window_mouse_buttons() on the queue; it also empties menuOwned.
MouseCleared(q) == Queued(q, <<"releaseMouse">>)

\* What wndproc() takes for visible; live: it is not shutting down.
Shown(live) == visible /\ live

Took(kind) == hold = <<>> /\ msgs # <<>> /\ Head(msgs)[1] = kind /\ msgs' = Tail(msgs)

\* Mutant: the menu keeps the release of a key whose press the game was given.
MenuTakesHeld(k, down, closed) == wants.keyboard /\ ~(closed /\ ~down)

\* A shown menu that wants the keyboard keeps what the game does not hold already.
MenuTakes(k, down, closed) == wants.keyboard /\ k \notin gameOwned /\ ~(closed /\ ~down)

\* A key is handled at once.
HandleKey(live) ==
  /\ hooked /\ Took("key")
  /\ LET k == Head(msgs)[2]
         down == Head(msgs)[3]
         repeat == Head(msgs)[4]
         toggled == k = ToggleKey /\ down /\ ~repeat
         closed == Shown(live) /\ k \in menuReleased
         suppressed == closed /\ down /\ repeat
         consumed == toggled \/ suppressed \/ (Shown(live) /\ MenuTakes(k, down, closed))
     IN  /\ toggle' = (toggle # toggled)
         /\ events' = IF Shown(live) THEN Queued(events, Other) ELSE events
         /\ menuReleased' = IF Shown(live) /\ ~suppressed THEN menuReleased \ {k} ELSE menuReleased
         /\ IF consumed
            THEN UNCHANGED <<gameOwned, delivery>>
            ELSE /\ gameOwned' = IF down THEN gameOwned \union {k} ELSE gameOwned \ {k}
                 /\ GameTold(k, down, TRUE)
  /\ UNCHANGED <<system, posted, hooked, menuOwned, routing, hold, visible, wants, requests,
                 showMenu, drawn>>

\* A button: first who owned it is read,
ReadButton(live) ==
  /\ hooked /\ Took("button")
  /\ LET b == Head(msgs)[2]
         down == Head(msgs)[3]
     IN  /\ hold' = <<[button |-> b, down |-> down, shown |-> Shown(live),
                       mine |-> b \in menuOwned,
                       closed |-> ~down /\ b \in menuReleased,
                       capture |-> IF down THEN Shown(live) /\ wants.mouse
                                   ELSE b \in menuOwned /\ b \notin gameOwned]>>
         /\ menuReleased' = menuReleased \ {b}
  /\ UNCHANGED <<system, posted, delivery, hooked, gameOwned, menuOwned, routing, visible,
                 wants, requests, menu, events, drawn>>

\* then the new owner is written and the message kept or passed on.
FinishButton ==
  /\ hold # <<>> /\ hold' = <<>>
  /\ LET h == hold[1]
         b == h.button
     IN  /\ menuOwned' = IF ~h.down THEN menuOwned \ {b}
                         ELSE IF h.capture THEN menuOwned \union {b} ELSE menuOwned
         /\ events' = IF h.shown /\ (h.capture \/ h.closed \/ (~h.down /\ h.mine))
                      THEN Queued(events, Button(b, h.down)) ELSE events
         /\ IF h.capture
            THEN UNCHANGED <<gameOwned, delivery>>
            ELSE /\ gameOwned' = IF h.down THEN gameOwned \union {b} ELSE gameOwned \ {b}
                 /\ GameTold(b, h.down, TRUE)
  /\ UNCHANGED <<system, msgs, posted, hooked, menuReleased, routing, visible, wants, requests,
                 menu, drawn>>

\* The focus goes: unless a detached panel of the menu takes it, all is forgotten.
HandleKillFocus ==
  /\ hooked /\ Took("killfocus")
  /\ IF Head(msgs)[2] = "panel"
     THEN UNCHANGED <<owners, events>>
     ELSE /\ menuOwned' = {} /\ gameOwned' = {} /\ menuReleased' = {}
          /\ events' = Queued(MouseCleared(events), Other)
  /\ GameLetsGo
  /\ UNCHANGED <<system, posted, hooked, routing, hold, visible, wants, requests, menu, drawn>>

\* WM_CANCELMODE looks at the window in front, WM_CAPTURECHANGED at its own buttons.
HandleCancel ==
  /\ hooked /\ Took("cancel")
  /\ IF focus = "panel"
     THEN UNCHANGED <<menuOwned, events>>
     ELSE menuOwned' = {} /\ events' = Queued(MouseCleared(events), Other)
  /\ UNCHANGED <<system, posted, delivery, hooked, gameOwned, menuReleased, routing, hold,
                 visible, wants, requests, menu, drawn>>

HandleCapture ==
  /\ hooked /\ Took("capture")
  /\ menuOwned' = {}
  /\ events' = IF menuOwned # {} THEN MouseCleared(events) ELSE events
  /\ UNCHANGED <<system, posted, delivery, hooked, gameOwned, menuReleased, routing, hold,
                 visible, wants, requests, menu, drawn>>

HandleSetFocus ==
  /\ hooked /\ Took("setfocus")
  /\ events' = Queued(events, Other)
  /\ UNCHANGED <<system, posted, delivery, hooked, owners, routing, hold, visible, wants,
                 requests, menu, drawn>>

\* Without the handler the game's own window procedure gets the message.
HandleDirect ==
  /\ ~hooked /\ hold = <<>> /\ msgs # <<>> /\ msgs' = Tail(msgs)
  /\ LET m == Head(msgs)
     IN  CASE m[1] \in {"key", "button"} -> GameTold(m[2], m[3], FALSE)
           [] m[1] = "killfocus" -> GameLetsGo
           [] OTHER -> UNCHANGED delivery
  /\ UNCHANGED <<system, posted, hooked, owners, routing, hold, visible, wants, requests, menu,
                 events, drawn>>

-----------------------------------------------------------------------------
(* Opening and closing the routing and the native cursor *)

Wanted(open) == IF open THEN "open" ELSE "closed"

\* apply_window_input_transition() with release_game_input_for_menu(): the game is
\* told that what it holds is released.
Transition(open) ==
  /\ routing' = open /\ visible' = open
  /\ input' = [input EXCEPT !.applied = Wanted(open)]
  /\ IF routing = open
     THEN UNCHANGED <<wants, delivery, owners, events>>
     ELSE /\ wants' = NoCapture
          /\ menuOwned' = {}
          /\ events' = Queued(MouseCleared(events), <<"releaseAll">>)
          /\ IF open
             THEN /\ game' = game \ gameOwned /\ bypassed' = bypassed \ gameOwned
                  /\ menuReleased' = menuReleased \union gameOwned
                  /\ gameOwned' = {}
             ELSE UNCHANGED <<delivery, gameOwned, menuReleased>>

TakePosted(kind) ==
  hooked /\ hold = <<>> /\ posted # <<>> /\ Head(posted)[1] = kind /\ posted' = Tail(posted)

HandleInputState ==
  /\ TakePosted("input")
  /\ Transition(Head(posted)[2])
  /\ UNCHANGED <<system, msgs, hooked, hold, cursor, owned, lease, menu, drawn>>

\* Mutant: a failed call is taken for done.
CursorAnsweredWell(open, well) == [cursor EXCEPT !.applied = Wanted(open)]

\* What becomes of the request once set_native_cursor_open() did well or not.
CursorAnswered(open, well) ==
  IF well THEN [cursor EXCEPT !.applied = Wanted(open)]
  ELSE IF cursor.requested = Wanted(open) THEN [cursor EXCEPT !.requested = "none"] ELSE cursor

\* set_native_cursor_open(); done: the system's calls succeed.
HandleCursorState(done) ==
  /\ TakePosted("cursor")
  /\ LET open == Head(posted)[2]
         well == done \/ (~open /\ ~owned)
     IN  /\ cursor' = CursorAnswered(open, well)
         /\ owned' = IF well THEN open ELSE owned
         /\ IF well \/ ~open
            THEN menuOwned' = {} /\ events' = MouseCleared(IF open THEN Queued(events, Other) ELSE events)
            ELSE UNCHANGED <<menuOwned, events>>
  /\ UNCHANGED <<system, msgs, delivery, hooked, gameOwned, menuReleased, routing, hold, visible,
                 wants, input, lease, menu, drawn>>

\* A posted message whose handler is gone reaches a window procedure that ignores it.
DropPosted ==
  /\ ~hooked /\ posted # <<>> /\ posted' = Tail(posted)
  /\ UNCHANGED <<system, msgs, delivery, hooked, owners, routing, hold, visible, wants, requests,
                 menu, events, drawn>>

\* What the window thread does between two calls of its own; live as in Shown().
Window(live) ==
  \/ HandleKey(live) \/ ReadButton(live) \/ FinishButton
  \/ HandleKillFocus \/ HandleCancel \/ HandleCapture \/ HandleSetFocus \/ HandleDirect
  \/ HandleInputState \/ \E done \in BOOLEAN : HandleCursorState(done)
  \/ DropPosted

-----------------------------------------------------------------------------
(* The render thread *)

\* sync_menu_state() asks when the applied state is another one, and was not asked
\* for lately.
Asks(s, d) == s.applied # d /\ (s.requested # d \/ s.aged)
Asked(s, d, sent) ==
  IF Asks(s, d) THEN [s EXCEPT !.requested = IF sent THEN d ELSE "none", !.aged = FALSE] ELSE s
Sent(s, kind, open, sent) == IF Asks(s, Wanted(open)) /\ sent THEN <<<<kind, open>>>> ELSE <<>>

\* acquire_cursor_lease() and release_cursor_lease(); granted: the loader agrees.
Leased(open, granted) == IF open THEN lease \/ (CursorControl /\ granted) ELSE lease /\ ~granted

\* The render thread never waits for room: a message that finds none is not sent.
Post(sequence) == Len(posted) + Len(sequence) <= MaxPosted /\ posted' = posted \o sequence

\* sync_menu_state() with the menu shown or not; granted, sent: the calls that succeed.
SyncMenu(open, granted, sent) ==
  LET native == open /\ ~Leased(open, granted)
  IN  /\ lease' = Leased(open, granted)
      /\ input' = Asked(input, Wanted(open), "input" \in sent)
      /\ cursor' = Asked(cursor, Wanted(native), "cursor" \in sent)
      /\ Post(Sent(input, "input", open, "input" \in sent)
              \o Sent(cursor, "cursor", native, "cursor" \in sent))
      /\ UNCHANGED owned

\* apply_pending_menu_toggle(), then sync_menu_state() again.
ToggleAndSync(granted, sent) ==
  /\ showMenu' = (showMenu # toggle) /\ toggle' = FALSE
  /\ SyncMenu(showMenu', granted, sent)
  /\ UNCHANGED <<system, msgs, delivery, hooked, owners, routing, hold, visible, wants, events,
                 drawn>>

\* 500 ms pass since a request that is not the applied state.
Late(s) == ~s.aged /\ s.applied # s.requested
Ages ==
  \/ Late(input) /\ input' = [input EXCEPT !.aged = TRUE] /\ UNCHANGED cursor
  \/ Late(cursor) /\ cursor' = [cursor EXCEPT !.aged = TRUE] /\ UNCHANGED input

Age ==
  /\ Ages
  /\ UNCHANGED <<system, msgs, posted, delivery, hooked, owners, routing, hold, visible, wants,
                 owned, lease, menu, events, drawn>>

\* poll_window_mouse_state(): nothing without the foreground or while hidden,
StartPoll ==
  /\ poll' = [Idle EXCEPT !.todo = IF hooked /\ focus # "away" /\ visible THEN Buttons ELSE {}]
  /\ UNCHANGED <<system, msgs, posted, delivery, hooked, owners, routing, hold, visible, wants,
                 requests, menu, events, imguiDown>>

\* each button is read from the system
SampleButton ==
  /\ poll.sample = <<>>
  /\ \E b \in poll.todo : poll' = [todo |-> poll.todo \ {b}, sample |-> <<b, b \in hw>>]
  /\ UNCHANGED <<system, msgs, posted, delivery, hooked, owners, routing, hold, visible, wants,
                 requests, menu, events, imguiDown>>

\* and then compared with what the window thread wrote.
WriteSample ==
  /\ poll.sample # <<>> /\ poll' = [poll EXCEPT !.sample = <<>>]
  /\ LET b == poll.sample[1]
         down == poll.sample[2]
     IN  IF (b \in menuOwned) = down
         THEN UNCHANGED <<menuOwned, events>>
         ELSE /\ menuOwned' = IF down THEN menuOwned \union {b} ELSE menuOwned \ {b}
              /\ events' = Queued(events, Button(b, down))
  /\ UNCHANGED <<system, msgs, posted, delivery, hooked, gameOwned, menuReleased, routing, hold,
                 visible, wants, requests, menu, imguiDown>>

Polled == poll = Idle

\* drain_input_events(): what ImGui holds once it was given the whole queue.
Given(down, e) ==
  CASE e[1] = "button" -> IF e[3] THEN down \union {e[2]} ELSE down \ {e[2]}
    [] e[1] \in {"releaseMouse", "releaseAll"} -> {}
    [] OTHER -> down

DrainEvents ==
  /\ Polled
  /\ imguiDown' = FoldLeft(Given, imguiDown, events)
  /\ events' = <<>>
  /\ UNCHANGED <<system, msgs, posted, delivery, hooked, owners, routing, hold, visible, wants,
                 requests, menu, poll>>

\* publish_imgui_capture_state(): whatever ImGui makes of the frame.
PublishCapture ==
  /\ wants' \in Capture
  /\ UNCHANGED <<system, msgs, posted, delivery, hooked, owners, routing, hold, visible, requests,
                 menu, events, drawn>>

-----------------------------------------------------------------------------
(* Properties *)

\* Messages after which the game does not hold i.
Ends(m, i) == m[1] = "killfocus" \/ (m[1] \in {"key", "button"} /\ m[2] = i /\ ~m[3])

\* The release of i, or the loss of the focus, is still to be handled.
ReleasePending(i) ==
  \/ \E n \in DOMAIN msgs : Ends(msgs[n], i)
  \/ hold # <<>> /\ hold[1].button = i /\ ~hold[1].down

\* However the menu opens, closes, wants the keyboard or the mouse and stops wanting
\* them between a press and its release, the game never goes on believing that it
\* holds an input the player has let go of, if wndproc() gave it the press.
GameReleased == \A i \in game \ bypassed : i \in hw \/ ReleasePending(i)

\* The same of every press, those included that came while no handler was installed.
GameAlwaysReleased == \A i \in game : i \in hw \/ ReleasePending(i)

\* "The next frame resynchronizes input" (render_imgui_hook.cpp:1033): after a frame
\* ImGui holds what the player holds, if nothing is on its way.
Resynchronized ==
  /\ visible /\ hooked /\ focus = "game" /\ Polled
  /\ msgs = <<>> /\ hold = <<>> /\ events = <<>>
  => imguiDown = menuOwned

\* The menu, the routing and the cursor agree: shown, or given back to the game.
Settled ==
  /\ routing = showMenu /\ visible = showMenu
  /\ IF showMenu THEN lease \/ owned ELSE ~lease /\ ~owned
=============================================================================

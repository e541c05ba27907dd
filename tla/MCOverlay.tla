------------------------------- MODULE MCOverlay -------------------------------
(* Instances of Overlay for TLC.  The product of every way to install the hooks
   and every way to use the keyboard and the mouse is not explored: a state is
   extended while the hooks are installed without trouble or the player has done
   nothing. *)
EXTENDS Overlay

CONSTANTS toggle_key, key, button, thread

HooksPlain ==
  /\ api = "dx12" /\ offered = {"present", "resize", "execute"}
  /\ attempts = 0 /\ attached = flags /\ whole
  /\ complete \/ main = "gone"
  /\ shutting => \A t \in Presenters : pc[t] = "game"

InputIdle ==
  /\ losses = 0 /\ inputs = 0 /\ wants = NoCapture
  /\ hooked => \A s \in {input, cursor} : s.requested = "closed" /\ ~s.aged

AllPrompt == \A s \in {input, cursor} : s.requested # "none" /\ ~s.aged
OnePrompt == \E s \in {input, cursor} : s.requested # "none" /\ ~s.aged

\* Every use of the keys and the button, with requests that arrive and in time; after
\* a loss of the device only the first input.
Prompt ==
  /\ hooked => AllPrompt
  /\ losses > 0 => inputs <= 1
\* The menu toggled and no more, with requests of one kind refused and late, and a queue
\* longer than two of input requests only; after a loss of the device only the first
\* input and new requests that arrive in time, in any queue.
TogglesOnly ==
  /\ losses = 0 => /\ hooked => OnePrompt
                   /\ Len(posted) <= 2 \/ \A n \in DOMAIN posted : posted[n][1] = "input"
  /\ losses > 0 => inputs <= 1 /\ (hooked => AllPrompt)
  /\ ~shutting /\ wants = NoCapture /\ focus = "game" /\ game = {}
  /\ \A n \in DOMAIN msgs : msgs[n][1] = "key" /\ ~msgs[n][4]

\* One target of each API is found; the loader may still refuse it.
OneOffer == offered \in {{"present", "resize", "execute"}, {"wgl"}} /\ api # "any"

\* The requests of the first frame are still to be answered.
Unanswered == hooked => Len(posted) = 2

Ownership == (HooksPlain /\ Prompt) \/ (InputIdle /\ Unanswered)
Requests == (HooksPlain /\ TogglesOnly) \/ (InputIdle /\ OneOffer)
=============================================================================

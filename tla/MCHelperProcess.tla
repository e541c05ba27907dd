---------------------------- MODULE MCHelperProcess ----------------------------
(* Instances of HelperProcess for TLC. *)
EXTENDS HelperProcess

CONSTANTS i1, i2, i3

TwoIds == {i1, i2}
ThreeIds == {i1, i2, i3}

\* Ids are interchangeable, so each is given the messages that make a case of
\* its own: a call or a task, a second task or who waits for the first, and a
\* request about a task.
EachSends(i) ==
  CASE i = i1 -> {"call", "task"}
    [] i = i2 -> {"task", "result", "list"}
    [] OTHER -> {"result", "cancel", "query"}
=============================================================================

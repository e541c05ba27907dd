---------------------------- MODULE MCExplorerTools ----------------------------
(* Instances of ExplorerTools for TLC: every object's member has the setter
   set.  The hooks and watches on one side and the scene, the selection and the
   journal on the other share only the references and the handles, so that
   their product is not explored: a state is extended while at least one side
   is as it was at the start.  Hooks and watches are explored with a queued stop
   only before a reference is issued, with two references only while MCP has armed
   no trace, and without references to game objects, which lead to no handle, hook
   or trace. *)
EXTENDS ExplorerTools

CONSTANTS obj, set

SetterOf == [o \in Objects |-> set]

HooksIdle == sessions = [m \in Methods |-> NoSession] /\ watch = [o \in Objects |-> NoWatch]
CallsIdle ==
  /\ sceneVars = <<1, [gen |-> 1, rev |-> 1], FALSE>>
  /\ writes = <<<<>>, FALSE, [o \in Objects |-> 1]>>
  /\ answer = Silent
OneSide ==
  /\ \/ stranded = {}
     \/ Cardinality(stranded) = 1 /\ lastTrace = 0 /\ CallsIdle /\ (HooksIdle \/ references = <<>>)
  /\ \/ HooksIdle
     \/ /\ CallsIdle
        /\ stops = {} \/ references = <<>>
        /\ mcpTraces = {} \/ Len(references) <= 1
        /\ \A e \in Range(references) : e.kind # "game"
=============================================================================

---------------------------- MODULE MCRuntimeModel ----------------------------
(* Instances of RuntimeModel for TLC: a root, its child, and an object of the
   second scene. *)
EXTENDS RuntimeModel

CONSTANTS root, child, other

MCObjects == {root, child, other}
MCSceneOf == [o \in MCObjects |-> IF o = other THEN 2 ELSE 1]
MCParent == [o \in MCObjects |-> IF o = child THEN root ELSE o]
=============================================================================

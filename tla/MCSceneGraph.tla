----------------------------- MODULE MCSceneGraph -----------------------------
(* SceneGraph with four nodes.  Trees of up to three nodes without names are   *)
(* moved, scaled (one node at a time) and read; larger and named trees are     *)
(* explored with every node at rest, since the two halves of a node share      *)
(* nothing but its parent.                                                     *)
EXTENDS SceneGraph

AtRest ==
    /\ pose = [n \in Nodes |-> 0] /\ scale = [n \in Nodes |-> 1]
    /\ modified = [n \in Nodes |-> TRUE]

Nameless == \A n \in Nodes, s \in Names : named[n][s] = noNode

OneRescaled == Cardinality({n \in Nodes : scale[n] # 1 \/ cached[n].scale # 1}) <= 1

Bound == AtRest \/ (Nameless /\ Cardinality(created) <= 3 /\ OneRescaled)
=============================================================================

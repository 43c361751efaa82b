------------------------------ MODULE SceneGraph ------------------------------
(***************************************************************************)
(* The tree of SceneNodes of client/scenenode.d, its root in               *)
(* client/scenemanager.d and the walk of client/stdscenemanager.d.  A node *)
(* keeps its children in an array, some of them also under a name, and     *)
(* caches its model matrix.                                                *)
(*                                                                         *)
(* Positions and rotations, both relative to the parent and accumulated    *)
(* along the ancestors, are one number `pose` here; a matrix is what it is *)
(* computed from: the accumulated pose and the node's own scale.           *)
(***************************************************************************)
EXTENDS Integers, Sequences, SequencesExt, FiniteSets, Functions

CONSTANTS
    Nodes,       \* bound: the nodes the program creates, none of them twice
    Names,       \* names of children
    noName,      \* the empty string
    noNode,      \* null
    Poses,       \* relative poses
    Scales

ASSUME SceneAssumption ==
    /\ IsFiniteSet(Nodes) /\ Nodes # {} /\ noNode \notin Nodes /\ noName \notin Names
    /\ Poses \subseteq Int /\ 0 \in Poses
    /\ Scales \subseteq Int /\ 1 \in Scales

VARIABLES
    root,        \* mRootNode of the scene manager
    parent,      \* mParent; of a node that is not yet created too, noNode
    childs,      \* mChilds
    named,       \* mNamedChilds, total: noNode where the name is not registered
    pose,        \* mPos and mRot
    scale,       \* mScale
    cached,      \* mCashed
    modified,    \* mModified
    created,
    blamed       \* history: may cached differ from the matrix?

treeVars == <<root, parent, childs, named, created>>
matrixVars == <<pose, scale, cached, modified, blamed>>
vars == <<treeVars, matrixVars>>

Matrix == [pose : Int, scale : Int]
identity == [pose |-> 0, scale |-> 1]

TypeOK ==
    /\ root \in created
    /\ parent \in [Nodes -> Nodes \cup {noNode}]
    /\ childs \in [Nodes -> Seq(Nodes)]
    /\ named \in [Nodes -> [Names -> Nodes \cup {noNode}]]
    /\ pose \in [Nodes -> Poses] /\ scale \in [Nodes -> Scales]
    /\ cached \in [Nodes -> Matrix]
    /\ modified \in [Nodes -> BOOLEAN]
    /\ created \in SUBSET Nodes
    /\ blamed \in [Nodes -> BOOLEAN]

Init ==
    /\ parent = [n \in Nodes |-> noNode]
    /\ childs = [n \in Nodes |-> <<>>]
    /\ named = [n \in Nodes |-> [s \in Names |-> noNode]]
    /\ pose = [n \in Nodes |-> 0] /\ scale = [n \in Nodes |-> 1]
    /\ cached = [n \in Nodes |-> identity]
    /\ modified = [n \in Nodes |-> TRUE]
    /\ root = CHOOSE n \in Nodes : TRUE
    /\ created = {root}
    /\ blamed = [n \in Nodes |-> FALSE]

-----------------------------------------------------------------------------
(* Children *)

NewNode == CHOOSE n \in Nodes : n \notin created

\* Mutant: the new node is put in the parent's array twice when it has a name.
AddTwice(p, name, ps) ==
    /\ p \in created /\ created # Nodes
    /\ created' = created \cup {NewNode}
    /\ parent' = [parent EXCEPT ![NewNode] = p]
    /\ childs' = [childs EXCEPT ![p] =
                     IF name = noName THEN Append(@, NewNode) ELSE @ \o <<NewNode, NewNode>>]
    /\ named' = IF name = noName THEN named ELSE [named EXCEPT ![p][name] = NewNode]
    /\ pose' = [pose EXCEPT ![NewNode] = ps]
    /\ UNCHANGED <<root, scale, cached, modified, blamed>>

\* addChild: always a new node at the end of mChilds; a name that is taken is
\* pointed to the new node.
AddChild(p, name, ps) ==
    /\ p \in created /\ created # Nodes
    /\ created' = created \cup {NewNode}
    /\ parent' = [parent EXCEPT ![NewNode] = p]
    /\ childs' = [childs EXCEPT ![p] = Append(@, NewNode)]
    /\ named' = IF name = noName THEN named ELSE [named EXCEPT ![p][name] = NewNode]
    /\ pose' = [pose EXCEPT ![NewNode] = ps]
    /\ UNCHANGED <<root, scale, cached, modified, blamed>>

\* clearScene: the manager drops the root with all that hangs on it; whoever
\* still holds a node of the old tree may go on using it.
ClearScene ==
    /\ created # Nodes
    /\ root' = NewNode
    /\ created' = created \cup {NewNode}
    /\ UNCHANGED <<parent, childs, named, matrixVars>>

\* getNameOfChild: the names under which n is registered with p.
NamesOf(p, n) == {s \in Names : named[p][s] = n}

\* A node occurs once among the childs: the loops of removeChild cut it out there.
CutOut(s, n) ==
    IF n \in Range(s) THEN RemoveAt(s, CHOOSE i \in DOMAIN s : s[i] = n) ELSE s

RemoveByName(p, name) ==
    /\ p \in created
    /\ named[p][name] # noNode
    /\ childs' = [childs EXCEPT ![p] = CutOut(@, named[p][name])]
    /\ named' = [named EXCEPT ![p][name] = noNode]
    /\ UNCHANGED <<root, parent, created, matrixVars>>

\* Mutant: a removed child keeps its name.
ForgetNothing(p, n) == named' = named

\* One of the names of child n, if it has any, is forgotten with it.
Forget(p, n) ==
    IF NamesOf(p, n) = {} THEN named' = named
    ELSE \E s \in NamesOf(p, n) : named' = [named EXCEPT ![p][s] = noNode]

RemoveByIndex(p, i) ==
    /\ p \in created
    /\ i \in DOMAIN childs[p]
    /\ Forget(p, childs[p][i])
    /\ childs' = [childs EXCEPT ![p] = RemoveAt(@, i)]
    /\ UNCHANGED <<root, parent, created, matrixVars>>

RemoveNode(p, n) ==
    /\ p \in created
    /\ n \in Range(childs[p])
    /\ Forget(p, n)
    /\ childs' = [childs EXCEPT ![p] = CutOut(@, n)]
    /\ UNCHANGED <<root, parent, created, matrixVars>>

-----------------------------------------------------------------------------
(* Matrices *)

\* absposition and absrotation: n and its ancestors, each by its own pose.
AbsPose(n) ==
    LET up[m \in Nodes] ==
            IF parent[m] = noNode THEN pose[m] ELSE up[parent[m]] + pose[m]
    IN  up[n]

CurrentMatrix(n) == [pose |-> AbsPose(n), scale |-> scale[n]]

\* The nodes whose matrix depends on the pose of n, without n itself.
Below(n) ==
    LET under[m \in Nodes] ==
            parent[m] # noNode /\ (parent[m] = n \/ under[parent[m]])
    IN  {m \in created : under[m]}

\* Mutant: a setter that does not mark the node.
MoveUnmarked(n, ps) ==
    /\ n \in created /\ ps # pose[n]
    /\ pose' = [pose EXCEPT ![n] = ps]
    /\ blamed' = [m \in Nodes |-> blamed[m] \/ m \in Below(n)]
    /\ UNCHANGED <<treeVars, scale, cached, modified>>

\* position, rotation, move and rotate: the node itself is marked, nothing else.
Move(n, ps) ==
    /\ n \in created /\ ps # pose[n]
    /\ pose' = [pose EXCEPT ![n] = ps]
    /\ modified' = [modified EXCEPT ![n] = TRUE]
    /\ blamed' = [m \in Nodes |-> blamed[m] \/ m \in Below(n)]
    /\ UNCHANGED <<treeVars, scale, cached>>

\* scale: not even the node itself is marked.
Rescale(n, s) ==
    /\ n \in created /\ s # scale[n]
    /\ scale' = [scale EXCEPT ![n] = s]
    /\ blamed' = [blamed EXCEPT ![n] = TRUE]
    /\ UNCHANGED <<treeVars, pose, cached, modified>>

ModelMatrix(n) == IF modified[n] THEN CurrentMatrix(n) ELSE cached[n]

\* modelMatrix, as the renderer reads it.
ReadMatrix(n) ==
    /\ n \in created
    /\ modified[n]
    /\ cached' = [cached EXCEPT ![n] = ModelMatrix(n)]
    /\ modified' = [modified EXCEPT ![n] = FALSE]
    /\ blamed' = [blamed EXCEPT ![n] = FALSE]
    /\ UNCHANGED <<treeVars, pose, scale>>

\* getToRender: the queue of the breadth-first walk, from the root down.
Walk ==
    LET queue[k \in 0 .. Cardinality(Nodes)] ==
            IF k = 0 THEN <<root>>
            ELSE LET q == queue[k - 1]
                 IN  IF k <= Len(q) THEN q \o childs[q[k]] ELSE q
    IN  queue[Cardinality(Nodes)]

-----------------------------------------------------------------------------
Tree ==
    \/ ClearScene
    \/ \E p \in Nodes :
        \/ \E name \in Names \cup {noName}, ps \in Poses : AddChild(p, name, ps)
        \/ \E name \in Names : RemoveByName(p, name)
        \/ \E i \in 1 .. Cardinality(Nodes) : RemoveByIndex(p, i)
        \/ \E n \in Nodes : RemoveNode(p, n)

Transform ==
    \E n \in Nodes :
        \/ \E ps \in Poses : Move(n, ps)
        \/ \E s \in Scales : Rescale(n, s)
        \/ ReadMatrix(n)

Next == Tree \/ Transform
Spec == Init /\ [][Next]_vars

-----------------------------------------------------------------------------
(* Properties *)

\* getChild never returns a node that is no longer a child: whichever of the
\* three ways removed it, its name went with it.
NamesResolve ==
    \A p \in created, s \in Names :
        named[p][s] # noNode => named[p][s] \in Range(childs[p])

Attached ==
    LET hangs[m \in Nodes] ==
            \/ m = root
            \/ /\ parent[m] # noNode
               /\ \E i \in DOMAIN childs[parent[m]] : childs[parent[m]][i] = m
               /\ hangs[parent[m]]
    IN  {n \in created : hangs[n]}

\* The renderer's walk meets every node that hangs on the root, once, and no
\* node that was removed or cleared away.
DrawnOnce ==
    LET walk == Walk
    IN  Range(walk) = Attached /\ IsInjective(walk)

\* A cached matrix is stale only because an ancestor was moved or rotated, or the
\* node itself rescaled, since it was computed.
StaleOnlyIfBlamed ==
    \A n \in created : ~blamed[n] => ModelMatrix(n) = CurrentMatrix(n)

\* client/scenenode.d:7-9: coordinates are relative, "the system of nodes allows
\* relative motion": what the renderer reads follows the ancestors.
FollowsAncestors ==
    \A n \in created : ModelMatrix(n).pose = AbsPose(n)
=============================================================================

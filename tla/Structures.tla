------------------------------ MODULE Structures ------------------------------
(***************************************************************************)
(* The parts of the program that one thread uses alone: a List, a          *)
(* LinkedArray, the models of a SceneNode, the camera, the reading of a    *)
(* mesh, a generated matcher.  A behaviour is a program that uses one of   *)
(* them, chosen at its beginning.  (What is serialized is in               *)
(* MCStructures.)                                                          *)
(***************************************************************************)
EXTENDS List

CONSTANTS
    chunkSize, MaxElements, Models, Names, noName, noModel, MaxModels,
    Places, Intervals, Delays, nan, Reach,
    Points, Uvs, Normals, UInt, MaxVecs, MaxUvs, MaxNormals, MaxFaces,
    states, startState, endStateSets, Letters, errorState
VARIABLES
    mMem, appended,
    mModels, mNamedModels, failed,
    mPos, mTarget, newpos, newpostime, newposvel, asked, blamed,
    info, corner, vertices, indexes, converting, decodeFailed,
    rules, endStates, state, meant,
    used

Chunks == INSTANCE LinkedArray
Node == INSTANCE NodeModels
View == INSTANCE Camera
Mesh == INSTANCE ObjMesh WITH failed <- decodeFailed
Matcher == INSTANCE Automaton

\* The states are given once each, and errorState is none of them.
StatesAreDistinct ==
    /\ Len(states) \in Nat /\ DOMAIN states = 1 .. Len(states)
    /\ \A i, j \in DOMAIN states : states[i] = states[j] => i = j
    /\ startState \in Matcher!StateSet
    /\ errorState \notin Matcher!StateSet
    /\ \A ends \in endStateSets : ends \subseteq Matcher!StateSet

\* Coordinates are numbers, nan is none, and time goes on.
Measures ==
    /\ Places \subseteq Int
    /\ Intervals \subseteq Nat
    /\ Delays \subseteq Nat \ {0}
    /\ nan \notin Int

\* null is no model.
NullIsNoModel == noModel \notin Models

\* A chunk has room for an element: the code divides by its size.
HaveRoom == chunkSize \in Nat \ {0}

ASSUME StructuresAssumption == StatesAreDistinct /\ Measures /\ NullIsNoModel /\ HaveRoom

arrayVars == <<mMem, appended>>
nodeVars == <<mModels, mNamedModels, failed>>
viewVars == <<mPos, mTarget, newpos, newpostime, newposvel, asked, blamed>>
meshVars == <<info, corner, vertices, indexes, converting, decodeFailed>>
matcherVars == <<rules, endStates, state, meant>>
structureVars == <<vars, arrayVars, nodeVars, viewVars, meshVars, matcherVars, used>>

\* One automaton will do where none is used.
StructuresInit ==
    /\ Init /\ Chunks!Init /\ Node!Init /\ View!Init /\ Mesh!Init /\ Matcher!Init
    /\ used # "matcher" => rules = <<>> /\ endStates = CHOOSE s \in endStateSets : TRUE

UseList == used = "list" /\ Next
    /\ UNCHANGED <<arrayVars, nodeVars, viewVars, meshVars, matcherVars, used>>
UseArray == used = "array" /\ Chunks!Next
    /\ UNCHANGED <<vars, nodeVars, viewVars, meshVars, matcherVars, used>>
UseNode == used = "node" /\ Node!Next
    /\ UNCHANGED <<vars, arrayVars, viewVars, meshVars, matcherVars, used>>
UseCamera == used = "camera" /\ View!Next
    /\ UNCHANGED <<vars, arrayVars, nodeVars, meshVars, matcherVars, used>>
UseMesh == used = "mesh" /\ Mesh!Next
    /\ UNCHANGED <<vars, arrayVars, nodeVars, viewVars, matcherVars, used>>
UseMatcher == used = "matcher" /\ Matcher!Next
    /\ UNCHANGED <<vars, arrayVars, nodeVars, viewVars, meshVars, used>>

UseStructure == UseList \/ UseArray \/ UseNode \/ UseCamera \/ UseMesh \/ UseMatcher

StructuresSpec == StructuresInit /\ [][UseStructure]_structureVars

-----------------------------------------------------------------------------
(* Properties *)

\* Appends that fit the last chunk keep every element: see LinkedArray.
FittingAppendKeeps == Chunks!FittingAppendKeeps

\* Names lead to attached models as long as models are attached once: see NodeModels.
NamesStayAttached == Node!NamesStayAttached

\* An undisturbed timed move ends at its place and time: see Camera.
ArrivesOnTime == View!ArrivesOnTime

\* A mesh keeps all of its corners but x and y, and lists none twice: see ObjMesh.
MeshKeepsDepth == Mesh!MeshKeepsDepth

\* The generated switches follow the rules: see Automaton.
AcceptsItsLanguage == Matcher!AcceptsItsLanguage
=============================================================================

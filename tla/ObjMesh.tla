-------------------------------- MODULE ObjMesh --------------------------------
(***************************************************************************)
(* The reading of a mesh by client/model/objcodec.d: lines of vertices,    *)
(* texture coordinates, normals and faces in any order, then one vertex    *)
(* buffer in which a corner of a face that is listed already is not listed *)
(* again.  A texture coordinate and a normal are one value each.           *)
(*                                                                         *)
(* The condition of listedInVBO joins its comparisons by a comma, whose    *)
(* value is what follows it: x and y are compared for nothing.             *)
(***************************************************************************)
EXTENDS Naturals, Sequences, SequencesExt

CONSTANTS
    Points,        \* vertices: records of x, y and z
    Uvs, Normals,  \* texture coordinates and normals, one value each
    UInt,          \* how many values a uint has
    MaxVecs, MaxUvs, MaxNormals, MaxFaces    \* bounds: lines of each kind

VARIABLES
    info,          \* DecodedInfo: the lines read so far, faces by 0-based indices
    corner,        \* the corners of info.faces converted so far
    vertices,      \* vecs, uvs and normals of the mesh, together by vertex
    indexes,
    converting,
    failed         \* has an exception or a range error left decode?

vars == <<info, corner, vertices, indexes, converting, failed>>

Init ==
    /\ info = [vecs |-> <<>>, uvs |-> <<>>, normals |-> <<>>, faces |-> <<>>]
    /\ corner = 0
    /\ vertices = <<>> /\ indexes = <<>>
    /\ converting = FALSE /\ failed = FALSE

-----------------------------------------------------------------------------
(* decode *)

Line(key, value, bound) ==
    /\ ~converting /\ ~failed
    /\ Len(info[key]) < bound
    /\ info' = [info EXCEPT ![key] = Append(@, value)]
    /\ UNCHANGED <<corner, vertices, indexes, converting, failed>>

\* An index, counted from 1 in the text and from 0 in the arrays: 0 wraps round.
ToIndex(n) == (n + UInt - 1) % UInt

\* "f": three corners v/vt/vn.
FaceLine(triple) ==
    Line("faces", [i \in 1 .. 3 |-> [k \in 1 .. 3 |-> ToIndex(triple[i][k])]], MaxFaces)

\* A key with the wrong count of values, or an index that is no number.
BadLine ==
    /\ ~converting /\ ~failed
    /\ failed' = TRUE
    /\ UNCHANGED <<info, corner, vertices, indexes, converting>>

EndOfFile ==
    /\ ~converting /\ ~failed
    /\ converting' = TRUE
    /\ UNCHANGED <<info, corner, vertices, indexes, failed>>

-----------------------------------------------------------------------------
(* convertDecoded2Stream *)

Corners == FlattenSeq(info.faces)

\* What the faces say of corner c: the elements of the three arrays.
Meant(c) ==
    [vec  |-> info.vecs[Corners[c][1] + 1],
     uv   |-> info.uvs[Corners[c][2] + 1],
     norm |-> info.normals[Corners[c][3] + 1]]

InRange(c) ==
    /\ Corners[c][1] < Len(info.vecs)
    /\ Corners[c][2] < Len(info.uvs)
    /\ Corners[c][3] < Len(info.normals)

\* Mutant: the normal is not compared.
ListedWithoutNormal(v) ==
    {i \in DOMAIN vertices :
        vertices[i].vec.z = v.vec.z /\ vertices[i].uv = v.uv}

\* listedInVBO: the vertices it takes for v.
Listed(v) ==
    {i \in DOMAIN vertices :
        vertices[i].vec.z = v.vec.z /\ vertices[i].uv = v.uv /\ vertices[i].norm = v.norm}

\* The next corner gets the index of the first vertex listed for it, or of a new
\* vertex at the end.
Convert ==
    /\ converting /\ ~failed
    /\ corner < Len(Corners)
    /\ InRange(corner + 1)
    /\ LET v == Meant(corner + 1)
       IN  IF Listed(v) = {}
           THEN /\ vertices' = Append(vertices, v)
                /\ indexes' = Append(indexes, Len(vertices))
           ELSE /\ UNCHANGED vertices
                /\ indexes' = Append(indexes, (CHOOSE i \in Listed(v) : \A n \in Listed(v) : i <= n) - 1)
    /\ corner' = corner + 1
    /\ UNCHANGED <<info, converting, failed>>

\* An index beyond its array, an index 0 in the text too.
ConvertFails ==
    /\ converting /\ ~failed
    /\ corner < Len(Corners)
    /\ ~InRange(corner + 1)
    /\ failed' = TRUE
    /\ UNCHANGED <<info, corner, vertices, indexes, converting>>

Next ==
    \/ \E p \in Points : Line("vecs", p, MaxVecs)
    \/ \E uv \in Uvs : Line("uvs", uv, MaxUvs)
    \/ \E norm \in Normals : Line("normals", norm, MaxNormals)
    \/ \E triple \in [1 .. 3 -> (0 .. MaxVecs) \X (1 .. MaxUvs) \X (1 .. MaxNormals)] :
          FaceLine(triple)
    \/ BadLine \/ EndOfFile
    \/ Convert \/ ConvertFails

Spec == Init /\ [][Next]_vars

-----------------------------------------------------------------------------
(* Properties *)

\* The vertex the mesh has for corner c.
Drawn(c) == vertices[indexes[c] + 1]

AlikeButXY(v, w) == v.vec.z = w.vec.z /\ v.uv = w.uv /\ v.norm = w.norm

\* Every index names a vertex; it has the depth, texture and normal of its corner,
\* and the whole corner unless two corners of the mesh differ in x or y only; no
\* vertex is listed twice.
MeshKeepsDepth ==
    /\ \A c \in 1 .. corner :
         /\ indexes[c] + 1 \in DOMAIN vertices
         /\ AlikeButXY(Drawn(c), Meant(c))
         /\ (\A b \in 1 .. c : AlikeButXY(Meant(b), Meant(c)) => Meant(b) = Meant(c))
              => Drawn(c) = Meant(c)
    /\ IsInjective(vertices)

\* client/model/objcodec.d:197, "checks whether the array has a vertex with this
\* set of parameters already": a corner is drawn with its own vertex.
CornersKept == \A c \in 1 .. corner : Drawn(c) = Meant(c)
=============================================================================

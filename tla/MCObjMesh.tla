------------------------------- MODULE MCObjMesh -------------------------------
(* ObjMesh with three vertices, of which two differ in x only, and one face.   *)
EXTENDS ObjMesh, TLC

MCPoints == {[x |-> 0, y |-> 0, z |-> 0], [x |-> 1, y |-> 0, z |-> 0], [x |-> 0, y |-> 0, z |-> 1]}
=============================================================================

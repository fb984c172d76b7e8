---------------------------- MODULE MCMeshIngest ----------------------------
(* Instances of MeshIngest for TLC.                                         *)
EXTENDS MeshIngest

CONSTANTS c1, c2, d1, d2, v1, v2, p1
=============================================================================

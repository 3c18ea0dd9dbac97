---------------------------- MODULE MC_EdgeMesh ----------------------------
(* Model checking of EdgeMesh.tla: the bounds are in the configurations.   *)
EXTENDS EdgeMesh
=============================================================================

----------------------------- MODULE MC_TriMesh -----------------------------
(* Model checking of TriMesh.tla: the inputs.                              *)
EXTENDS TriMesh

Row(a, b, c) == [i \in Locals |-> IF i = 0 THEN a ELSE IF i = 1 THEN b ELSE c]

Triangle == <<Row(0, 1, 2)>>
Quad     == <<Row(0, 1, 2), Row(3, 2, 1)>>
Flipped  == <<Row(0, 1, 2), Row(1, 2, 3)>>
Disk     == <<Row(0, 1, 2), Row(0, 2, 3), Row(0, 3, 1)>>
Sphere   == <<Row(0, 1, 2), Row(0, 2, 3), Row(0, 3, 1), Row(3, 2, 1)>>
\* Three triangles at the corner of a larger one with a hole.
Annulus  == <<Row(0, 1, 4), Row(0, 4, 3), Row(1, 2, 5), Row(1, 5, 4), Row(2, 0, 3), Row(2, 3, 5)>>
Moebius  == <<Row(0, 1, 2), Row(1, 2, 3), Row(2, 3, 4), Row(3, 4, 0), Row(4, 0, 1)>>
Two      == <<Row(0, 1, 2), Row(3, 4, 5)>>

Bounded(shapes, free, n) ==
    {[F |-> [f \in 0 .. Len(s) - 1 |-> s[f + 1]], free |-> free, splits |-> n] : s \in shapes}
InputMeshes ==
    Bounded({Triangle}, FALSE, 2) \cup Bounded({Triangle, Two}, TRUE, 1)
        \cup Bounded({Quad, Flipped, Disk, Sphere, Annulus, Moebius}, FALSE, 1)
=============================================================================

---------------------------- MODULE MC_Multimesh ----------------------------
(* Model checking of Multimesh.tla: the inputs.                            *)
EXTENDS Multimesh

Row(a, b, c) == [i \in Locals |-> IF i = 0 THEN a ELSE IF i = 1 THEN b ELSE c]

Triangle == <<Row(0, 1, 2)>>
Quad     == <<Row(0, 1, 2), Row(3, 2, 1)>>
Flipped  == <<Row(0, 1, 2), Row(1, 2, 3)>>
Disk     == <<Row(0, 1, 2), Row(0, 2, 3), Row(0, 3, 1)>>
Sphere   == <<Row(0, 1, 2), Row(0, 2, 3), Row(0, 3, 1), Row(3, 2, 1)>>

ends(s, i, k) == {s[i][j] : j \in Locals \ {k}}
shape_edges(s) == {ends(s, p[1], p[2]) : p \in (DOMAIN s) \X Locals}
boundary(s) == {x \in shape_edges(s) :
                    Cardinality({p \in (DOMAIN s) \X Locals : ends(s, p[1], p[2]) = x}) = 1}

input(s, T, n) == [parent |-> [F |-> [f \in 0 .. Len(s) - 1 |-> s[f + 1]], free |-> FALSE, splits |-> n],
                   tagged |-> T]
\* The boundary; the edge between the triangles, alone and with others; a
\* triangle; a closed and an open curve on a closed surface.
InputMeshes ==
    {input(Triangle, boundary(Triangle), 2), input(Flipped, {{1, 2}}, 1),
     input(Quad, {{0, 1}, {1, 2}, {2, 0}}, 0), input(Disk, boundary(Disk), 0),
     input(Disk, {{1, 0}, {0, 2}}, 0), input(Sphere, {{0, 1}, {1, 2}, {2, 3}, {3, 0}}, 0)}
        \cup {input(Quad, T, 1) : T \in {boundary(Quad), {{1, 2}}, {{0, 1}, {1, 2}, {2, 3}}}}
ParentInputs == {in.parent : in \in InputMeshes}
=============================================================================

------------------------------ MODULE TriMesh ------------------------------
(***************************************************************************)
(* src/src/wmtk/TriMesh.cpp: a mesh of triangles, under the operations     *)
(* that TriMeshExecutor.tla describes, each run in the scope of an         *)
(* Operation, and consolidate.                                             *)
(*                                                                         *)
(*   mesh       the connectivity attributes and the capacities.  The       *)
(*              capacities are no attributes: an operation that fails has  *)
(*              its writes undone and its new ids stay behind              *)
(*   splits     how many splits are still tried, a bound                   *)
(***************************************************************************)
EXTENDS TriMeshExecutor

CONSTANTS
    Inputs,                 \* the meshes to start from: the faces, whether it
                            \* is free, and a bound on the splits tried on it
    MaxVertices             \* bound: capacity of the vertices, which the splits
                            \* that are tried do not exceed

ASSUME MaxVerticesAssumption == MaxVertices \in Nat

\* A mesh is given by its faces, numbered from 0: they name every vertex up to
\* some number, no vertex twice, and no two of them have the same vertices.  It
\* is a manifold, with or without boundary: no three faces share an edge, and
\* the faces of a vertex cannot be divided so that no edge at it is in both
\* parts.  The faces of a free mesh share no vertex.
ASSUME InputsAssumption ==
    \A in \in Inputs :
        LET N == DOMAIN in.F
            corners(f) == {in.F[f][i] : i \in Locals}
            V == UNION {corners(f) : f \in N}
            around(v) == {f \in N : v \in corners(f)}
        IN  /\ in.free \in BOOLEAN /\ in.splits \in Nat
            /\ IsFiniteSet(N) /\ in.F \in [0 .. Cardinality(N) - 1 -> [Locals -> Nat]]
            /\ \A f \in N : Cardinality(corners(f)) = 3
            /\ V = 0 .. Cardinality(V) - 1
            /\ Cardinality(V) + (IF in.free THEN 3 ELSE 1) * in.splits <= MaxVertices
            /\ \A f, g \in N : corners(f) = corners(g) => f = g
            /\ \A f, g, h \in N :
                  Cardinality(corners(f) \cap corners(g) \cap corners(h)) >= 2
                      => f = g \/ g = h \/ f = h
            /\ \A v \in V : \A S \in (SUBSET around(v)) \ {{}, around(v)} :
                  \E f \in S, g \in around(v) \ S :
                      Cardinality(corners(f) \cap corners(g)) >= 2
            /\ in.free => \A f, g \in N : f = g \/ corners(f) \cap corners(g) = {}

VARIABLES mesh, splits

vars == <<mesh, splits>>

Init == \E in \in Inputs :
    /\ mesh = initialize(in.F, in.free)
    /\ splits = in.splits

\* Operation::operator() with EdgeSplit: an invariant may refuse the result.
split(t, accepted) ==
    /\ splits > 0
    /\ splits' = splits - 1
    /\ mesh' = IF accepted THEN split_edge(mesh, t)
               ELSE [mesh EXCEPT !.cap = requested(mesh, t)]

\* Operation::operator() with EdgeCollapse and MultiMeshLinkConditionInvariant,
\* which lets a free mesh pass.  What a later invariant refuses is undone.
collapse(t, accepted) ==
    /\ mesh.free => accepted
    /\ mesh.free \/ link_condition(mesh, t)
    /\ mesh' = IF accepted THEN collapse_edge(mesh, t) ELSE mesh
    /\ UNCHANGED splits

consolidate ==
    /\ mesh' = consolidated(mesh)
    /\ UNCHANGED splits

Next ==
    \/ consolidate
    \/ \E t \in Tuples(mesh), accepted \in BOOLEAN : split(t, accepted) \/ collapse(t, accepted)

Spec == Init /\ [][Next]_vars

-----------------------------------------------------------------------------
TypeOK ==
    LET V == vertices(mesh)
        E == edges(mesh)
        F == faces(mesh)
    IN  /\ V \subseteq 0 .. mesh.cap.v - 1 /\ mesh.cap.v <= MaxVertices
        /\ E \subseteq 0 .. mesh.cap.e - 1
        /\ F \subseteq 0 .. mesh.cap.f - 1
        /\ mesh.fv \in [F -> [Locals -> V]]
        /\ mesh.fe \in [F -> [Locals -> E]]
        /\ mesh.ff \in [F -> [Locals -> F \cup {Null}]]
        /\ mesh.vf \in [V -> F]
        /\ mesh.ef \in [E -> F]

\* TriMesh::is_connectivity_valid, clause by clause: a face names active edges
\* and vertices; the tables of edges and of vertices name a face that has
\* them; a boundary edge names its only face; the face across an edge names
\* this one back, exactly once across that edge.
is_connectivity_valid ==
    /\ \A f \in faces(mesh), j \in Locals :
          mesh.fe[f][j] \in edges(mesh) /\ mesh.fv[f][j] \in vertices(mesh)
    /\ \A e \in edges(mesh) : \E j \in Locals : mesh.fe[mesh.ef[e]][j] = e
    /\ \A v \in vertices(mesh) : \E j \in Locals : mesh.fv[mesh.vf[v]][j] = v
    /\ \A f \in faces(mesh), j \in Locals :
          LET g == mesh.ff[f][j]
          IN  IF g = Null THEN mesh.ef[mesh.fe[f][j]] = f
              ELSE g # f => Cardinality({k \in Locals : /\ mesh.ff[g][k] = f
                                              /\ mesh.fe[g][k] = mesh.fe[f][j]}) = 1

\* The tables are those of the triangles: edges with the same ends are one
\* edge, the face across it is the other triangle that has those ends, missing
\* only where there is none, and no active vertex or edge is without a face.
\* is_connectivity_valid accepts a missing neighbour on both sides, an edge
\* whose faces disagree on its ends, and two edges with the same ends.
TablesAgree ==
    LET ends(f, k) == {mesh.fv[f][j] : j \in Locals \ {k}}
        sides == faces(mesh) \X Locals
        others(p) == {q \in sides \ {p} : ends(q[1], q[2]) = ends(p[1], p[2])}
    IN  /\ \A p, q \in sides : mesh.fe[p[1]][p[2]] = mesh.fe[q[1]][q[2]]
                                <=> ends(p[1], p[2]) = ends(q[1], q[2])
        /\ \A p \in sides : IF mesh.free THEN others(p) = {} /\ mesh.ff[p[1]][p[2]] = Null
                            ELSE {q[1] : q \in others(p)} = {mesh.ff[p[1]][p[2]]} \ {Null}
        /\ edges(mesh) = {mesh.fe[p[1]][p[2]] : p \in sides}
        /\ vertices(mesh) = {mesh.fv[p[1]][p[2]] : p \in sides}

\* Turning around a vertex from the tuple that m_vf gives for it, as
\* top_dimension_cofaces_tuples_vertex does, meets every face of the vertex:
\* the surface is nowhere pinched.  A collapse moves its vertex in the faces
\* found in that way, and leaves any other face with a deleted vertex.
StarsReachable ==
    \A v \in vertices(mesh) :
        LET f == mesh.vf[v]
            i == index(mesh.fv[f], v)
        IN  f \in faces(mesh) /\
            top_dimension_cofaces_vertex(mesh, [v |-> i, e |-> (i + 1) % 3, f |-> f])
                = {g \in faces(mesh) : \E k \in Locals : mesh.fv[g][k] = v}

\* The tuple an operation returns can be navigated from in the mesh it leaves:
\* after a split it is at the newest vertex and its edge leads to the end of
\* the split edge that the operating tuple did not name, after a collapse it is
\* at that end, which stays.  These are the assertions at the end of split_edge
\* and collapse_edge, and what the composite operations rely on.
OutputNavigable ==
    \A t \in Tuples(mesh) :
        LET end == spine_vid(mesh, t, 1)
        IN  /\ splits > 0 =>
                 LET m == split_edge(mesh, t)
                     o == split_output(mesh, t)
                 IN  /\ o \in Tuples(m)
                     /\ id_vertex(m, o) = m.cap.v - 1
                     /\ id_vertex(m, switch_vertex(o)) = end
            /\ ~mesh.free /\ link_condition(mesh, t) =>
                 LET m == collapse_edge(mesh, t)
                     o == collapse_output(mesh, t)
                 IN  o \in Tuples(m) /\ id_vertex(m, o) = end

\* The surface the mesh represents.
darts_of(m) ==
    {<<m.fv[p[1]][p[2]], m.fv[p[1]][(p[2] + 1) % 3], m.fv[p[1]][(p[2] + 2) % 3]>> :
        p \in faces(m) \X Locals}
Surface == INSTANCE TriangleComplex WITH Vertex <- 0 .. MaxVertices - 1,
                                         darts <- darts_of(mesh), free <- mesh.free

\* Whatever the ids, the operations are those on the triangles: no other
\* triangle is touched, every triangle keeps its orientation, and a failed
\* operation changes none.
ImplementsComplex == Surface!Spec

\* link_condition, with its cases for the boundary, decides the link condition
\* of the surface whose boundary curves are coned to a vertex.
LinkConditionExact ==
    ~mesh.free => \A t \in Tuples(mesh) :
        link_condition(mesh, t) <=>
            Surface!LinkCondition(darts_of(mesh), id_vertex(mesh, t),
                                  id_vertex(mesh, switch_vertex(t)))

\* No operation, and no failed one, changes the topology of the surface: its
\* Euler characteristic, its pieces and its boundary curves.  This is what the
\* components ask the link condition for.
TopologyKept ==
    [][mesh.free \/ Surface!Topology(darts_of(mesh)) = Surface!Topology(darts_of(mesh'))]_vars
=============================================================================

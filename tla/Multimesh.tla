----------------------------- MODULE Multimesh -----------------------------
(***************************************************************************)
(* src/src/wmtk/multimesh and operations/utils: a TriMesh with an EdgeMesh *)
(* registered as its child, and the operations that keep the two and the   *)
(* maps between them together.  The parent, with the splits that are still *)
(* tried, is a TriMesh whose operations have more to do:                   *)
(*                                                                         *)
(*   curve      the child, a mesh record of EdgeMesh.tla, with its         *)
(*   capacity   capacities                                                 *)
(*   maps       the two map attributes, at the edges that are active:      *)
(*              p2c[e] = [c, v, e], of a mapped edge of the parent the     *)
(*              child's edge c and, as local indices, a tuple of e;        *)
(*              c2p[c] = the same tuple with its face.  It is the tuple    *)
(*              that the first end (side 0) of c maps to                   *)
(*                                                                         *)
(* A dart is a tuple, its permutation the local indices.                   *)
(***************************************************************************)
EXTENDS TriMesh

CONSTANTS
    TaggedInputs            \* the inputs of the parent, each with the edges that
                            \* are tagged

\* At most two of the tagged edges, each given by its ends, meet in a vertex.
ASSUME TagsAssumption ==
    \A in \in TaggedInputs :
        /\ in.parent \in Inputs /\ ~in.parent.free
        /\ in.tagged # {}
        /\ \A x \in in.tagged :
              \E f \in DOMAIN in.parent.F, k \in Locals :
                  x = {in.parent.F[f][j] : j \in Locals \ {k}}
        /\ \A v \in UNION in.tagged : Cardinality({x \in in.tagged : v \in x}) <= 2

VARIABLES curve, capacity, maps

multimesh_vars == <<vars, curve, capacity, maps>>

\* The child: its own executor, whatever its last output was.
Curve == INSTANCE EdgeMesh WITH mesh <- curve, is_free <- FALSE, output <- Null,
             MaxEdges <- 0, InputVertices <- 0, InputEdges <- 0

-----------------------------------------------------------------------------
(* MultiMeshManager: reading and writing the maps.                         *)

at_side(t, s) == IF s = 0 THEN t ELSE switch_vertex(t)

is_mapped(t) == id_edge(mesh, t) \in DOMAIN maps.p2c

map_to_parent_tuple(c, s) == at_side(maps.c2p[c], s)

\* Whether the tuple is at the second of its edge's local vertices.
second(t) == t.v > third(t)
\* Variant with a bug: every tuple goes to the first end.
map_to_child_tuple_unturned(t) ==
    LET d == maps.p2c[id_edge(mesh, t)]
    IN  [c |-> d.c, s |-> 0]
\* map_tuple_between_meshes, from the parent down.  The involution compares
\* local indices: the code means to bring t into the face that they belong to
\* first, but the loop over the tuples of the edge looks for t's own face.
map_to_child_tuple(t) ==
    LET d == maps.p2c[id_edge(mesh, t)]
    IN  [c |-> d.c, s |-> IF second(t) = second(d) THEN 0 ELSE 1]

\* mapped_tuples: the local indices are from the parent's attribute, the face
\* from the child's.
mapped_tuple(M, e) == [v |-> M.p2c[e].v, e |-> M.p2c[e].e, f |-> M.c2p[M.p2c[e].c].f]

\* symmetric_write_tuple_map_attributes: the tuple t of the parent m and the
\* side s of the child's edge c.
symmetric_write(m, M, t, c, s) ==
    LET a == at_side(t, s)
    IN  [p2c |-> put(M.p2c, id_edge(m, t), [c |-> c, v |-> a.v, e |-> a.e]),
         c2p |-> put(M.c2p, c, a)]

\* What the attributes hold for deleted edges is never read.
of_active(m, k, M) == [p2c |-> Restrict(M.p2c, DOMAIN M.p2c \cap edges(m)),
                       c2p |-> Restrict(M.c2p, DOMAIN M.c2p \cap k.e)]

-----------------------------------------------------------------------------
(* Split.  The child's operation has run first, then the parent's.         *)

\* operator() of a TriMesh and an EdgeMesh: the halves of the split edges, in
\* the first incident face.
map_halves(m, t) ==
    LET d == map_to_child_tuple(t)
        write(M, i) ==
            symmetric_write(m, M,
                tuple_from_global_ids(m, split_f(mesh, 1, i), split_spine_eid(mesh, i),
                                      spine_vid(mesh, t, i)),
                Curve!split_e(i), Curve!side(d.s, i))
    IN  IF is_mapped(t) THEN write(write(maps, 0), 1) ELSE maps

\* Variant with a bug: the tuple of an ear is taken to the wrong half.
get_alternative_crossed(t, a) ==
    LET D == incident_face_datas(mesh, t)
        hit == {i \in DOMAIN D : D[i].f = a.f}
    IN  IF hit = {} THEN null_tuple
        ELSE LET i == CHOOSE i \in hit : TRUE
             IN  [a EXCEPT !.f = split_f(mesh, i, IF a.e = third(D[i].t) THEN 1 ELSE 0)]
\* SplitAlternateFacetData::get_alternative: a tuple of an ear in a face that
\* is gone is taken to the half that has the ear; no other is touched.
get_alternative(t, a) ==
    LET D == incident_face_datas(mesh, t)
        hit == {i \in DOMAIN D : D[i].f = a.f}
    IN  IF hit = {} THEN null_tuple
        ELSE LET i == CHOOSE i \in hit : TRUE
             IN  [a EXCEPT !.f = split_f(mesh, i, IF a.e = third(D[i].t) THEN 0 ELSE 1)]

\* update_maps_from_edge_operation, over the ears of the incident faces.
update_maps_from_split(m, t, M0) ==
    LET D == incident_face_datas(mesh, t)
        update(M, e) ==
            LET a == get_alternative(t, mapped_tuple(M, e))
            IN  IF e \notin DOMAIN M.p2c THEN M
                ELSE IF a = null_tuple THEN M
                ELSE symmetric_write(m, M, a, M.p2c[e].c, 0)
    IN  FoldLeft(LAMBDA M, x : update(update(M, x.ears[0].e), x.ears[1].e), M0, D)

-----------------------------------------------------------------------------
(* Collapse.                                                               *)

\* The pair for ear j of the incident face x, in the new parent: the vertex is
\* the one the tuple had, and the kept one where that is gone.
ear_replacement(m, t, M, x, j) ==
    LET e == x.ears[j].e
        v == id_vertex(mesh, mapped_tuple(M, e))
        moved == e # x.ears[1].e /\ v = spine_vid(mesh, t, 0)
    IN  tuple_from_global_ids(m, merged_edge_fid(x), x.ears[1].e,
                              IF moved THEN spine_vid(mesh, t, 1) ELSE v)

\* update_ear_replacement: in each incident face the child's edge that was on
\* an ear goes to the merged edge.  All pairs of a face are read before one is
\* written.
update_ear_replacement(m, k, t) ==
    LET has(M, e) == e \in DOMAIN M.p2c /\ M.p2c[e].c \in k.e
        replace(M, x) ==
            LET write(W, j) == IF ~has(M, x.ears[j].e) THEN W
                               ELSE symmetric_write(m, W, ear_replacement(m, t, M, x, j),
                                                    M.p2c[x.ears[j].e].c, 0)
            IN  write(write(M, 0), 1)
    IN  FoldLeft(replace, maps, incident_face_datas(mesh, t))

\* link_condition(EdgeMesh): not an edge between two ends of the curve, nor a
\* loop of one edge.
curve_link_condition(c) ==
    /\ \E s \in Sides : curve.ee[c][s] >= 0
    /\ curve.ev[c][0] # curve.ev[c][1]

\* MultiMeshLinkConditionInvariant, on the parent and on the child.
multi_mesh_link_condition(t) ==
    /\ link_condition(mesh, t)
    /\ is_mapped(t) => curve_link_condition(map_to_child_tuple(t).c)

\* Variant with a bug: the condition is only asked in the first face.
map_valid_in_first_face(t) ==
    ~({get_incident_face_data(mesh, t).ears[j].e : j \in Sides} \subseteq DOMAIN maps.p2c)
\* MultiMeshMapValidInvariant: no two edges of the child would become one.
map_valid(t) ==
    \A i \in DOMAIN incident_face_datas(mesh, t) :
        \E j \in Sides : incident_face_datas(mesh, t)[i].ears[j].e \notin DOMAIN maps.p2c

-----------------------------------------------------------------------------
\* The tuple that get_all gives for an edge.
edge_tuple_from_id(m, e) ==
    LET i == Min({k \in Locals : m.fe[m.ef[e]][k] = e})
    IN  [v |-> (i + 1) % 3, e |-> i, f |-> m.ef[e]]

\* extract_and_register_child_mesh_from_tag: the child has the tagged edges in
\* the order of their ids, and its vertices are numbered in their order too.
MultimeshInit == \E in \in TaggedInputs :
    LET m == initialize(in.parent.F, FALSE)
        tuple(e) == edge_tuple_from_id(m, e)
        ends(e) == {id_vertex(m, at_side(tuple(e), s)) : s \in Sides}
        T == {e \in edges(m) : ends(e) \in in.tagged}
        compactified(v) == Cardinality({u \in UNION in.tagged : u < v})
        E == [c \in 0 .. Cardinality(T) - 1 |-> [s \in Sides |->
                 compactified(id_vertex(m, at_side(tuple(packed(T, c)), s)))]]
    IN  /\ mesh = m
        /\ curve = Curve!initialize(E, Cardinality(UNION in.tagged), FALSE)
        /\ capacity = [v |-> Cardinality(UNION in.tagged), e |-> Cardinality(T)]
        /\ maps = [p2c |-> [e \in T |-> [c |-> old2new(T, e), v |-> tuple(e).v, e |-> tuple(e).e]],
                   c2p |-> [c \in DOMAIN E |-> tuple(packed(T, c))]]
        /\ splits = in.parent.splits

\* Operation::operator() with EdgeSplit: both executors run, then the maps are
\* updated; all of it is undone but the capacities when an invariant refuses.
multi_mesh_edge_split(t, accepted) ==
    LET d == map_to_child_tuple(t)
        m == split_edge(mesh, t)
        k == IF is_mapped(t) THEN Curve!split_edge_single_mesh(d.c, d.s) ELSE curve
    IN  /\ split(t, accepted)
        /\ capacity' = IF is_mapped(t) THEN [v |-> capacity.v + 1, e |-> capacity.e + 2]
                       ELSE capacity
        /\ curve' = IF accepted THEN k ELSE IF is_mapped(t) THEN Curve!grown(1, 2) ELSE curve
        /\ maps' = IF accepted THEN of_active(m, k, update_maps_from_split(m, t, map_halves(m, t)))
                   ELSE maps

\* Operation::operator() with EdgeCollapse and the two invariants.  The call
\* of update_all_maps that follows update_ear_replacement is left out, since
\* it writes nothing: it gives a new tuple to the edges whose map names a face
\* that is gone, and by MapsAgree, which is shown without it, there are none.
multi_mesh_edge_collapse(t, accepted) ==
    LET d == map_to_child_tuple(t)
        m == collapse_edge(mesh, t)
        k == IF is_mapped(t) THEN Curve!collapse_edge_single_mesh(d.c, d.s) ELSE curve
    IN  /\ multi_mesh_link_condition(t)
        /\ map_valid(t)
        /\ collapse(t, accepted)
        /\ curve' = IF accepted THEN k ELSE curve
        /\ maps' = IF accepted THEN of_active(m, k, update_ear_replacement(m, k, t)) ELSE maps
        /\ UNCHANGED capacity

\* consolidate_maps renames the faces and the child's edges that the maps
\* hold, consolidate_attributes packs the two attributes.
consolidated_maps ==
    LET E == DOMAIN maps.p2c
        face(f) == old2new(faces(mesh), f)
    IN  [p2c |-> [e \in {old2new(edges(mesh), x) : x \in E} |->
                     [maps.p2c[packed(edges(mesh), e)] EXCEPT !.c = old2new(curve.e, @)]],
         c2p |-> [c \in 0 .. Cardinality(curve.e) - 1 |->
                     [maps.c2p[packed(curve.e, c)] EXCEPT !.f = face(@)]]]

\* multimesh::consolidate.
multimesh_consolidate ==
    /\ consolidate
    /\ curve' = Curve!consolidated
    /\ capacity' = [v |-> Cardinality(curve.v), e |-> Cardinality(curve.e)]
    /\ maps' = consolidated_maps

MultimeshNext ==
    \/ multimesh_consolidate
    \/ \E t \in Tuples(mesh), accepted \in BOOLEAN :
          multi_mesh_edge_split(t, accepted) \/ multi_mesh_edge_collapse(t, accepted)

MultimeshSpec == MultimeshInit /\ [][MultimeshNext]_multimesh_vars

-----------------------------------------------------------------------------
\* MapValidator, check_parent_map_attribute_valid and check_facet_uniqueness:
\* each active edge of the child names an active tuple of the parent, whose
\* edge names it back and with the same local indices, and no other edge of
\* the parent does.  The mapped edges are marked edges for ever: one that is
\* deleted has a child that is deleted.
MapsAgree ==
    /\ DOMAIN maps.c2p = curve.e
    /\ \A c \in curve.e :
          LET t == maps.c2p[c]
          IN  /\ t \in Tuples(mesh) /\ is_mapped(t)
              /\ maps.p2c[id_edge(mesh, t)] = [c |-> c, v |-> t.v, e |-> t.e]
    /\ \A e \in DOMAIN maps.p2c :
          maps.p2c[e].c \in curve.e /\ id_edge(mesh, maps.c2p[maps.p2c[e].c]) = e

\* map_to_child_tuples returns "the set of child mesh's simplices that are
\* equivalent to the input simplex" (Mesh.hpp:782): a tuple of a mapped edge
\* goes to the end of the child's edge that maps to its vertex.
MapsToEquivalent ==
    \A t \in Tuples(mesh) : is_mapped(t) =>
        LET d == map_to_child_tuple(t)
        IN  id_vertex(mesh, map_to_parent_tuple(d.c, d.s)) = id_vertex(mesh, t)

ends_of(e) ==
    LET p == CHOOSE p \in faces(mesh) \X Locals : mesh.fe[p[1]][p[2]] = e
    IN  {mesh.fv[p[1]][k] : k \in Locals \ {p[2]}}
\* The child is the boundary of the parent: it has its edges, and edges of the
\* child share an end where the edges of the parent do.
IsBoundaryCurve ==
    /\ DOMAIN maps.p2c = {mesh.fe[p[1]][p[2]] : p \in {q \in faces(mesh) \X Locals :
                                                         mesh.ff[q[1]][q[2]] = Null}}
    /\ \A p, q \in curve.e \X Sides :
          curve.ev[p[1]][p[2]] = curve.ev[q[1]][q[2]] <=>
              id_vertex(mesh, map_to_parent_tuple(p[1], p[2]))
                  = id_vertex(mesh, map_to_parent_tuple(q[1], q[2]))

\* A child that is the boundary curve stays the boundary curve, edge by edge
\* and end by end, under every operation on any edge of the parent.
BoundaryFollowed == [][IsBoundaryCurve => IsBoundaryCurve']_multimesh_vars

Marked == INSTANCE MarkedSurface WITH
    Vertex <- 0 .. MaxVertices - 1,
    darts <- darts_of(mesh),
    free <- FALSE,
    marked <- {ends_of(e) : e \in DOMAIN maps.p2c}

\* Whatever the ids and the tuples, the operations carry the child along as
\* marks on the edges of the surface: no mark is lost, made or merged.
ImplementsMarkedSurface == Marked!MarkedSpec
=============================================================================

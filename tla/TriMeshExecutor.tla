-------------------------- MODULE TriMeshExecutor --------------------------
(***************************************************************************)
(* src/src/wmtk/TriMesh.cpp and TriMeshOperationExecutor.cpp: a mesh of    *)
(* triangles as a value, how it is navigated, and what the executor makes  *)
(* of it.  A mesh m is a record:                                           *)
(*                                                                         *)
(*   free         m_is_free: triangles that share nothing                  *)
(*   cap          the capacities, by dimension v, e, f                     *)
(*   fv, fe, ff   m_fv, m_fe, m_ff: for each face the vertices, the edges  *)
(*                and the faces across them; edge i is opposite vertex i   *)
(*   vf, ef       m_vf, m_ef: a face of each vertex and of each edge       *)
(*                                                                         *)
(* The tables have a row for each active simplex only, so their domains    *)
(* are the flags.  The rows that a deletion leaves behind are not kept:    *)
(* whatever reads one stops TLC.  A tuple is a record [v, e, f] of a local *)
(* vertex, a local edge at that vertex and a face.                         *)
(***************************************************************************)
EXTENDS Integers, SequencesExt

Null   == -1
Sides  == {0, 1}
Locals == 0 .. 2

vertices(m) == DOMAIN m.vf
edges(m)    == DOMAIN m.ef
faces(m)    == DOMAIN m.fv

put(f, k, x) == [i \in DOMAIN f \cup {k} |-> IF i = k THEN x ELSE f[i]]

Tuples(m) == {t \in [v : Locals, e : Locals, f : faces(m)] : t.v # t.e}
id_vertex(m, t) == m.fv[t.f][t.v]
id_edge(m, t)   == m.fe[t.f][t.e]

third(t) == 3 - t.v - t.e
switch_vertex(t) == [t EXCEPT !.v = third(t)]
switch_edge(t)   == [t EXCEPT !.e = third(t)]

null_tuple == [v |-> Null, e |-> Null, f |-> Null]
\* The last local index of a row that holds x.
index(row, x) == Max({i \in Locals : row[i] = x} \cup {Null})
tuple_from_global_ids(m, f, e, v) ==
    IF f \notin faces(m) THEN null_tuple
    ELSE [v |-> index(m.fv[f], v), e |-> index(m.fe[f], e), f |-> f]

is_boundary_edge(m, t) == m.ff[t.f][t.e] < 0
switch_face(m, t) ==
    tuple_from_global_ids(m, m.ff[t.f][t.e], id_edge(m, t), id_vertex(m, t))

\* Variant with a bug: one direction only.
top_dimension_cofaces_vertex_one_way(m, t) ==
    LET turn[n \in 0 .. Cardinality(faces(m)), u \in Tuples(m)] ==
            IF n = 0 \/ is_boundary_edge(m, u) THEN {u.f}
            ELSE {u.f} \cup turn[n - 1, switch_edge(switch_face(m, u))]
    IN  turn[Cardinality(faces(m)), t]
\* The faces reached from t by turning around its vertex, in both directions
\* until a boundary edge or the first face again.
top_dimension_cofaces_vertex(m, t) ==
    LET across(f) == {m.ff[f][k] : k \in {i \in Locals : m.fv[f][i] # id_vertex(m, t)}}
        turn[n \in 0 .. Cardinality(faces(m))] ==
            IF n = 0 THEN {t.f}
            ELSE LET met == turn[n - 1]
                 IN  met \cup ((UNION {across(f) : f \in met}) \ {Null})
    IN  turn[Cardinality(faces(m))]
top_dimension_cofaces_edge(m, t) ==
    IF is_boundary_edge(m, t) THEN <<t>> ELSE <<t, switch_face(m, t)>>

-----------------------------------------------------------------------------
(* trimesh_topology_initialization, of the faces F in 0 .. n - 1           *)

initialize(F, is_free) ==
    LET N == DOMAIN F
        local(f, i) == {F[f][j] : j \in Locals \ {i}}
        \* The table TTT: each local edge once, sorted by its ends, then by face.
        key(p) == <<Min(local(p[1], p[2])), Max(local(p[1], p[2])), p[1], p[2]>>
        before(p, q) == \E k \in 1 .. 4 : /\ key(p)[k] < key(q)[k]
                                          /\ \A l \in 1 .. k - 1 : key(p)[l] = key(q)[l]
        twins(p) == {q \in N \X Locals : local(q[1], q[2]) = local(p[1], p[2])}
        first(p) == \A q \in twins(p) : ~before(q, p)
        heads == {p \in N \X Locals : first(p)}
        eid(p) == Cardinality({q \in heads : before(q, p)
                                             /\ local(q[1], q[2]) # local(p[1], p[2])})
        other(p) == {q[1] : q \in twins(p) \ {p}}
        V == UNION {{F[f][i] : i \in Locals} : f \in N}
    IN  [free |-> is_free,
         cap |-> [v |-> Cardinality(V), e |-> Cardinality(heads), f |-> Cardinality(N)],
         fv |-> F,
         fe |-> [f \in N |-> [i \in Locals |-> eid(<<f, i>>)]],
         ff |-> [f \in N |-> [i \in Locals |->
                    IF is_free \/ other(<<f, i>>) = {} THEN Null
                    ELSE CHOOSE g \in other(<<f, i>>) : TRUE]],
         vf |-> [v \in V |-> Max({f \in N : \E i \in Locals : F[f][i] = v})],
         ef |-> [e \in 0 .. Cardinality(heads) - 1 |->
                    (CHOOSE p \in heads : eid(p) = e)[1]]]

-----------------------------------------------------------------------------
(* What the operating tuple t of a mesh m tells the executor.  End 0 is    *)
(* the tuple's vertex and end 1 the other one; ear j is the other edge of  *)
(* an incident face at end j, with the face across it.                     *)

spine_vid(m, t, j) == id_vertex(m, IF j = 0 THEN t ELSE switch_vertex(t))

get_incident_face_data(m, t) ==
    LET ear_edge(j) == IF j = 0 THEN third(t) ELSE t.v
    IN  [f    |-> t.f,
         t    |-> t,
         opp  |-> m.fv[t.f][t.e],
         ears |-> [j \in Sides |-> [f |-> m.ff[t.f][ear_edge(j)],
                                    e |-> m.fe[t.f][ear_edge(j)]]]]
incident_face_datas(m, t) ==
    [i \in DOMAIN top_dimension_cofaces_edge(m, t) |->
        get_incident_face_data(m, top_dimension_cofaces_edge(m, t)[i])]

\* Variant with a bug: the ear keeps the edge it had.
update_ids_in_ear_keeping_edge(m, ear, new, old) ==
    LET i == index(m.ff[ear.f], old)
    IN  IF ear.f < 0 THEN m
        ELSE IF i = Null THEN [m EXCEPT !.ef[ear.e] = ear.f]
        ELSE [m EXCEPT !.ff[ear.f][i] = new, !.ef[ear.e] = ear.f]
\* The face g has the face `new' across its local edge i, which is the edge e.
glued(m, g, i, new, e) == [m EXCEPT !.ff[g][i] = new, !.fe[g][i] = e, !.ef[e] = g]
\* The face behind an ear is glued to the face `new' instead of `old', across
\* the edge of the ear.
update_ids_in_ear(m, ear, new, old) ==
    LET i == index(m.ff[ear.f], old)
    IN  IF ear.f < 0 THEN m
        ELSE IF i = Null THEN [m EXCEPT !.ef[ear.e] = ear.f]
        ELSE glued(m, ear.f, i, new, ear.e)

delete_simplices(m, V, E, F) ==
    [m EXCEPT !.vf = Restrict(@, DOMAIN @ \ V), !.ef = Restrict(@, DOMAIN @ \ E),
              !.fv = Restrict(@, DOMAIN @ \ F), !.fe = Restrict(@, DOMAIN @ \ F),
              !.ff = Restrict(@, DOMAIN @ \ F)]

-----------------------------------------------------------------------------
(* Split.  The ids are requested in this order: vertices, spine edges,     *)
(* faces, and while the faces are replaced one rib edge for each.          *)

split_new_vid(m)     == m.cap.v
split_spine_eid(m, j) == m.cap.e + j
split_f(m, i, j)     == m.cap.f + 2 * (i - 1) + j
rib_eid(m, i)        == m.cap.e + 1 + i
\* In a free mesh the halves have their own vertices and edges.
free_split_v(m, j)   == m.cap.v + 1 + j
free_split_e(m, j)   == m.cap.e + 2 + j

\* Variant with a bug: the ribs are forgotten.
requested_without_ribs(m, t) ==
    LET k == Len(top_dimension_cofaces_edge(m, t))
    IN  [v |-> m.cap.v + (IF m.free THEN 3 ELSE 1),
         e |-> m.cap.e + (IF m.free THEN 4 ELSE 2),
         f |-> m.cap.f + 2 * k]
requested(m, t) ==
    LET k == Len(top_dimension_cofaces_edge(m, t))
    IN  [v |-> m.cap.v + (IF m.free THEN 3 ELSE 1),
         e |-> m.cap.e + (IF m.free THEN 4 ELSE 2 + k),
         f |-> m.cap.f + 2 * k]

\* The half j of the i-th incident face, d: the face with the other end moved to
\* the new vertex, the operating edge halved, and the rib where the other ear
\* was.
half(m, n, t, d, i, j) ==
    LET is_rib(k) == n.fe[d.f][k] = d.ears[1 - j].e
    IN  [fe |-> [k \in Locals |->
                    IF is_rib(k) THEN (IF m.free THEN free_split_e(m, j) ELSE rib_eid(m, i))
                    ELSE IF n.fe[d.f][k] = id_edge(m, t) THEN split_spine_eid(m, j)
                    ELSE n.fe[d.f][k]],
         ff |-> [k \in Locals |-> IF is_rib(k) /\ ~m.free THEN split_f(m, i, 1 - j)
                                  ELSE n.ff[d.f][k]],
         fv |-> [k \in Locals |->
                    IF n.fv[d.f][k] = spine_vid(m, t, 1 - j)
                    THEN (IF m.free THEN free_split_v(m, j) ELSE split_new_vid(m))
                    ELSE IF m.free /\ j = 1 /\ n.fv[d.f][k] = d.opp THEN split_new_vid(m)
                    ELSE n.fv[d.f][k]]]

\* The row of a half is written, and it is named for its ear, spine and end.
filled(m, f, h, ear, spine, end) ==
    [m EXCEPT !.fv = put(@, f, h.fv), !.fe = put(@, f, h.fe), !.ff = put(@, f, h.ff),
              !.ef = put([@ EXCEPT ![ear] = f], spine, f), !.vf[end] = f]

\* In m the operation started, in n the earlier faces have been replaced.
replace_incident_face(m, t, n, d, i) ==
    LET f(j) == split_f(m, i, j)
        with_half(a, j) ==
            filled(update_ids_in_ear(a, d.ears[j], f(j), d.f), f(j), half(m, n, t, d, i, j),
                   d.ears[j].e, split_spine_eid(m, j), spine_vid(m, t, j))
        halved == with_half(with_half(n, 0), 1)
        opp_done == [halved EXCEPT !.vf[d.opp] = f(0)]
    IN  IF m.free
        THEN [opp_done EXCEPT
                !.ef = put(put(@, free_split_e(m, 0), f(0)), free_split_e(m, 1), f(1)),
                !.vf = put(put(put(@, free_split_v(m, 0), f(0)), free_split_v(m, 1), f(1)),
                           split_new_vid(m), f(1))]
        ELSE [opp_done EXCEPT !.ef = put(@, rib_eid(m, i), f(0)),
                              !.vf = put(@, split_new_vid(m), f(0))]

\* Variant with a bug: the halves of the two faces are glued crosswise.
connect_faces_across_spine_crossed(m, d, n) ==
    LET local(i) == index(n.ff[d[i].f], d[3 - i].f)
    IN  [n EXCEPT !.ff[split_f(m, 1, 0)][local(1)] = split_f(m, 2, 1),
                  !.ff[split_f(m, 2, 0)][local(2)] = split_f(m, 1, 1),
                  !.ff[split_f(m, 1, 1)][local(1)] = split_f(m, 2, 0),
                  !.ff[split_f(m, 2, 1)][local(2)] = split_f(m, 1, 0)]
connect_faces_across_spine(m, d, n) ==
    LET local(i) == index(n.ff[d[i].f], d[3 - i].f)
    IN  [n EXCEPT !.ff[split_f(m, 1, 0)][local(1)] = split_f(m, 2, 0),
                  !.ff[split_f(m, 2, 0)][local(2)] = split_f(m, 1, 0),
                  !.ff[split_f(m, 1, 1)][local(1)] = split_f(m, 2, 1),
                  !.ff[split_f(m, 2, 1)][local(2)] = split_f(m, 1, 1)]

split_edge(m, t) ==
    LET d == incident_face_datas(m, t)
        one == replace_incident_face(m, t, m, d[1], 1)
        two == connect_faces_across_spine(m, d, replace_incident_face(m, t, one, d[2], 2))
        n   == IF Len(d) = 1 THEN one ELSE two
    IN  [delete_simplices(n, {}, {id_edge(m, t)}, {d[i].f : i \in DOMAIN d})
            EXCEPT !.cap = requested(m, t)]

\* Variant with a bug: the output tuple lies in the half of end 0.
split_output_at_start(m, t) ==
    tuple_from_global_ids(split_edge(m, t), split_f(m, 1, 0), split_spine_eid(m, 0),
        IF m.free THEN free_split_v(m, 0) ELSE split_new_vid(m))
split_output(m, t) ==
    tuple_from_global_ids(split_edge(m, t), split_f(m, 1, 1), split_spine_eid(m, 1),
        IF m.free THEN free_split_v(m, 1) ELSE split_new_vid(m))

-----------------------------------------------------------------------------
(* Collapse: the vertex of the tuple and, in each incident face, its ear   *)
(* go away; the faces behind the ears are glued across the ear of end 1.   *)

merged_edge_fid(d) == IF d.ears[0].f < 0 THEN d.ears[1].f ELSE d.ears[0].f

connect_ear(m, n, t, d) ==
    LET at == [n EXCEPT !.vf[d.opp] = merged_edge_fid(d),
                        !.vf[spine_vid(m, t, 1)] = merged_edge_fid(d),
                        !.ef[d.ears[1].e] = merged_edge_fid(d)]
        ear0 == [d.ears[0] EXCEPT !.e = d.ears[1].e]
    IN  update_ids_in_ear(update_ids_in_ear(at, ear0, d.ears[1].f, d.f),
                          d.ears[1], d.ears[0].f, d.f)
connect_ears(m, t) ==
    LET d   == incident_face_datas(m, t)
        one == connect_ear(m, m, t, d[1])
    IN  IF Len(d) = 1 THEN one ELSE connect_ear(m, one, t, d[2])

\* A face of a free mesh goes away with all its faces.
collapse_free(m, t) ==
    delete_simplices(m, {m.fv[t.f][k] : k \in Locals}, {m.fe[t.f][k] : k \in Locals}, {t.f})

collapse_edge(m, t) ==
    LET d == incident_face_datas(m, t)
        gone == {d[i].f : i \in DOMAIN d}
        v0_neighbors == top_dimension_cofaces_vertex(m, t)
        moved == [connect_ears(m, t) EXCEPT !.fv = [f \in DOMAIN @ |->
                    IF f \in v0_neighbors \ gone
                    THEN [k \in Locals |-> IF @[f][k] = spine_vid(m, t, 0)
                                           THEN spine_vid(m, t, 1) ELSE @[f][k]]
                    ELSE @[f]]]
    IN  IF m.free THEN collapse_free(m, t)
        ELSE delete_simplices(moved, {spine_vid(m, t, 0)},
                 {id_edge(m, t)} \cup {d[i].ears[0].e : i \in DOMAIN d}, gone)

\* From the tuple that the edge table gives, turned to the vertex that stays
\* and to the face of ear 0 if there is one; the null tuple in a free mesh.
collapse_output(m, t) ==
    LET d == incident_face_datas(m, t)[1]
        n == collapse_edge(m, t)
        e == d.ears[1].e
        in_face(at, f) == IF at.f # f THEN switch_face(n, at) ELSE at
    IN  IF m.free THEN null_tuple
        ELSE in_face(tuple_from_global_ids(n, n.ef[e], e, spine_vid(m, t, 1)),
                     merged_edge_fid(d))

-----------------------------------------------------------------------------
(* simplex::link_condition(TriMesh), which the components ask for before a *)
(* collapse.                                                               *)

\* link_iterable, of a vertex or an edge with the incident faces F: the
\* simplices that share a face with it and no vertex.
link(m, simplex, F) ==
    LET corners == {{m.fv[f][k] : k \in Locals} : f \in F}
    IN  (UNION {SUBSET (c \ simplex) : c \in corners}) \ {{}}

link_condition_closed_trimesh(m, t) ==
    LET a == id_vertex(m, t)
        b == id_vertex(m, switch_vertex(t))
        F == {top_dimension_cofaces_edge(m, t)[i].f :
                 i \in DOMAIN top_dimension_cofaces_edge(m, t)}
    IN  link(m, {a}, top_dimension_cofaces_vertex(m, t))
            \cap link(m, {b}, top_dimension_cofaces_vertex(m, switch_vertex(t)))
        = link(m, {a, b}, F)

\* The other ends of the boundary edges at the vertex of t.
boundary_neighbors(m, t) ==
    LET v == id_vertex(m, t)
        ends == {p \in top_dimension_cofaces_vertex(m, t) \X Locals :
                    /\ m.fv[p[1]][p[2]] # v
                    /\ \E l \in Locals \ {p[2]} : m.fv[p[1]][l] # v /\ m.ff[p[1]][l] < 0}
    IN  {m.fv[p[1]][p[2]] : p \in ends}

\* Variant with a bug: the boundary is not looked at.
link_condition_closed_only(m, t) == link_condition_closed_trimesh(m, t)
\* Variant with a bug: the boundary is only looked at from an inner edge.
link_condition_of_chords(m, t) ==
    /\ link_condition_closed_trimesh(m, t)
    /\ is_boundary_edge(m, t) \/ boundary_neighbors(m, t) = {}
                              \/ boundary_neighbors(m, switch_vertex(t)) = {}
link_condition(m, t) ==
    LET at_a == boundary_neighbors(m, t)
        at_b == boundary_neighbors(m, switch_vertex(t))
    IN  /\ link_condition_closed_trimesh(m, t)
        /\ IF is_boundary_edge(m, t) THEN at_a \cap at_b = {} ELSE at_a = {} \/ at_b = {}

-----------------------------------------------------------------------------
\* Mesh::consolidate: the active ids are packed in their order, the tables
\* with them, and what they hold is renamed.
old2new(active, i) == IF i < 0 THEN i ELSE Cardinality({a \in active : a < i})
packed(active, i)  == CHOOSE a \in active : old2new(active, a) = i

consolidated(m) ==
    LET V == vertices(m)
        E == edges(m)
        F == faces(m)
        upto(S) == 0 .. Cardinality(S) - 1
        rows(table, S) == [f \in upto(F) |-> [k \in Locals |->
                              old2new(S, table[packed(F, f)][k])]]
    IN  [free |-> m.free,
         cap |-> [v |-> Cardinality(V), e |-> Cardinality(E), f |-> Cardinality(F)],
         fv |-> rows(m.fv, V), fe |-> rows(m.fe, E), ff |-> rows(m.ff, F),
         vf |-> [v \in upto(V) |-> old2new(F, m.vf[packed(V, v)])],
         ef |-> [e \in upto(E) |-> old2new(F, m.ef[packed(E, e)])]]
=============================================================================

------------------------------ MODULE EdgeMesh ------------------------------
(***************************************************************************)
(* src/src/wmtk/EdgeMesh.cpp and EdgeMeshOperationExecutor.cpp: the mesh   *)
(* of dimension one, its connectivity tables, the two operations that      *)
(* rewrite them inside the scope of an Operation, and consolidate.         *)
(*                                                                         *)
(*   mesh       the connectivity attributes m_ev, m_ee, m_ve at the ids    *)
(*              below the capacity, and the ids whose flag is active       *)
(*   capacity   m_capacities of the AttributeManager.  It is no attribute: *)
(*              an operation that fails has its writes undone and its new  *)
(*              ids stay behind, inactive                                  *)
(*   is_free    m_is_free: edges that share no vertex                      *)
(*   output     the operation that ran last: whether Operation::operator() *)
(*              reported success, and if so its edge, the m_spine_vids and *)
(*              the m_output_tuple of the executor, an edge at a vertex    *)
(*              (-1 for the null tuple)                                    *)
(*                                                                         *)
(* How much memory the attributes have is the subject of                   *)
(* SimplexStorage.tla; that a scope undoes exactly its writes, of          *)
(* CachingAttribute.tla.                                                   *)
(***************************************************************************)
EXTENDS Integers, FiniteSets

CONSTANTS
    MaxVertices, MaxEdges,  \* bounds: capacities of the two dimensions
    InputVertices, InputEdges   \* bounds: vertices and edges of the input

\* An input is within the bounds on the capacities.
ASSUME BoundsAssumption ==
    /\ MaxVertices \in Nat /\ InputVertices \in 0 .. MaxVertices
    /\ MaxEdges \in Nat /\ InputEdges \in 0 .. MaxEdges

VARIABLES mesh, capacity, is_free, output

vars == <<mesh, capacity, is_free, output>>

Sides == {0, 1}
Null  == -1
Pair(a, b) == [j \in Sides |-> IF j = 0 THEN a ELSE b]

\* edgemesh_topology_initialization: the neighbour of an edge on one side is
\* the other edge at that vertex, when exactly two meet there.  In a free mesh
\* no edge has a neighbour.
initialize(E, vertex_count, free) ==
    LET edges == DOMAIN E
        complete_VE(v) == {p \in edges \X Sides : E[p[1]][p[2]] = v}
        neighbour(i, j) ==
            LET rest == complete_VE(E[i][j]) \ {<<i, j>>}
            IN  IF ~free /\ Cardinality(rest) = 1
                THEN (CHOOSE p \in rest : TRUE)[1] ELSE Null
        last(v) == CHOOSE i \in {p[1] : p \in complete_VE(v)} :
                      \A p \in complete_VE(v) : p[1] <= i
    IN  [v  |-> 0 .. vertex_count - 1,
         e  |-> edges,
         ev |-> E,
         ee |-> [i \in edges |-> [j \in Sides |-> neighbour(i, j)]],
         ve |-> [v \in 0 .. vertex_count - 1 |-> last(v)]]

\* The inputs: every vertex is on one edge or on two.  The initialization takes
\* more, and leaves the tables without a neighbour there.
Degree(E, v) == Cardinality({p \in (DOMAIN E) \X Sides : E[p[1]][p[2]] = v})
EdgeInputs(n, k, free) ==
    {E \in [0 .. n - 1 -> [Sides -> 0 .. k - 1]] :
        \A v \in 0 .. k - 1 : Degree(E, v) \in (IF free THEN {1} ELSE {1, 2})}

-----------------------------------------------------------------------------
(* The executor, on the edge e with the tuple's vertex on side lv.  End 0  *)
(* of the operation is that side and end 1 the other one.                  *)

side(lv, i)            == IF i = 0 THEN lv ELSE 1 - lv
spine_vid(e, lv, i)    == mesh.ev[e][side(lv, i)]
neighbor_eid(e, lv, i) == mesh.ee[e][side(lv, i)]
\* Variant with a bug: a loop of two edges is taken for a self-loop.
is_self_loop_by_neighbors(e, lv) ==
    neighbor_eid(e, lv, 0) = neighbor_eid(e, lv, 1) /\ neighbor_eid(e, lv, 0) # Null
is_self_loop(e, lv)    == \A i \in Sides : neighbor_eid(e, lv, i) = e

\* request_simplex_indices: the next ids of each dimension, with the default
\* value in every attribute.
grown(nv, ne) ==
    LET more(f, n, default) ==
            [i \in 0 .. n - 1 |-> IF i \in DOMAIN f THEN f[i] ELSE default]
    IN  [mesh EXCEPT !.ev = more(@, capacity.e + ne, Pair(Null, Null)),
                     !.ee = more(@, capacity.e + ne, Pair(Null, Null)),
                     !.ve = more(@, capacity.v + nv, Null)]

new_vertex_count == IF is_free THEN 2 ELSE 1

\* Variant with a bug: the ids of deleted edges are given again.
split_e_reusing(i) ==
    CHOOSE n \in 0 .. capacity.e + 1 :
        n \notin mesh.e /\ Cardinality({k \in 0 .. n - 1 : k \notin mesh.e}) = i
\* The new edge at end i, and its new vertex: in a free mesh each has its own.
split_e(i) == capacity.e + i
split_v(i) == capacity.v + (IF is_free THEN i ELSE 0)

\* Variant with a bug: a neighbour is turned wherever it points to e.
split_ee_unmatched(e, lv) ==
    LET ee == grown(new_vertex_count, 2).ee
        half(i) == [j \in Sides |->
                      IF j # side(lv, i) \/ is_self_loop(e, lv) THEN split_e(1 - i)
                      ELSE neighbor_eid(e, lv, i)]
        turned(n, j) == {i \in Sides : neighbor_eid(e, lv, i) = n /\ mesh.ee[n][j] = e}
        neighbour(n) == [j \in Sides |->
                           IF is_self_loop(e, lv) \/ turned(n, j) = {} THEN mesh.ee[n][j]
                           ELSE split_e(CHOOSE i \in turned(n, j) : TRUE)]
    IN  IF is_free THEN ee
        ELSE [n \in DOMAIN ee |-> IF n \in DOMAIN mesh.ee THEN neighbour(n)
                                  ELSE half(n - capacity.e)]

\* The edges that meet at the ends of e now meet its halves.  A neighbour is
\* turned where it points to e and does so at that end's vertex: in a loop of
\* two edges one edge is the neighbour of both ends.
split_ee(e, lv) ==
    LET ee == grown(new_vertex_count, 2).ee
        half(i) == [j \in Sides |->
                      IF j # side(lv, i) \/ is_self_loop(e, lv) THEN split_e(1 - i)
                      ELSE neighbor_eid(e, lv, i)]
        turned(n, j) == {i \in Sides : neighbor_eid(e, lv, i) = n
                                       /\ mesh.ee[n][j] = e
                                       /\ mesh.ev[n][j] = spine_vid(e, lv, i)}
        neighbour(n) == [j \in Sides |->
                           IF is_self_loop(e, lv) \/ turned(n, j) = {} THEN mesh.ee[n][j]
                           ELSE split_e(CHOOSE i \in turned(n, j) : TRUE)]
    IN  IF is_free THEN ee
        ELSE [n \in DOMAIN ee |-> IF n \in DOMAIN mesh.ee THEN neighbour(n)
                                  ELSE half(n - capacity.e)]

split_ev(e, lv) ==
    LET half(i) == [j \in Sides |-> IF j = side(lv, i) THEN spine_vid(e, lv, i)
                                    ELSE split_v(i)]
    IN  [grown(new_vertex_count, 2).ev EXCEPT ![split_e(0)] = half(0),
                                              ![split_e(1)] = half(1)]

\* The writes in their order: on a self-loop both spine vertices are one.
split_ve(e, lv) ==
    [grown(new_vertex_count, 2).ve EXCEPT
        ![split_v(1)] = split_e(1), ![split_v(0)] = split_e(0),
        ![spine_vid(e, lv, 0)] = split_e(0), ![spine_vid(e, lv, 1)] = split_e(1)]

split_edge_single_mesh(e, lv) ==
    [v  |-> mesh.v \cup {split_v(0), split_v(1)},
     e  |-> (mesh.e \cup {split_e(0), split_e(1)}) \ {e},
     ev |-> split_ev(e, lv),
     ee |-> split_ee(e, lv),
     ve |-> split_ve(e, lv)]

\* Variant with a bug: a loop of one edge is collapsed.
collapse_refused_isolated_only(e, lv) ==
    ~is_free /\ \A i \in Sides : neighbor_eid(e, lv, i) < 0
\* The edge is refused: a mesh of one edge would be left without one.
collapse_refused(e, lv) ==
    /\ ~is_free
    /\ is_self_loop(e, lv) \/ \A i \in Sides : neighbor_eid(e, lv, i) < 0

\* Each neighbour is turned to the one across e; the neighbour at end 0 takes
\* over the vertex of end 1.
collapse_edge_single_mesh(e, lv) ==
    LET gone == spine_vid(e, lv, 0)
        kept == spine_vid(e, lv, 1)
        nbr(i) == neighbor_eid(e, lv, i)
        ee(n, j) == {i \in Sides : nbr(i) = n /\ mesh.ee[n][j] = e}
    IN  IF is_free
        THEN [mesh EXCEPT !.v = @ \ {gone, kept}, !.e = @ \ {e}]
        ELSE [mesh EXCEPT
                !.v = @ \ {gone},
                !.e = @ \ {e},
                !.ee = [n \in DOMAIN @ |-> [j \in Sides |->
                          IF ee(n, j) = {} THEN @[n][j]
                          ELSE nbr(1 - CHOOSE i \in ee(n, j) : TRUE)]],
                !.ev = [n \in DOMAIN @ |-> [j \in Sides |->
                          IF n = nbr(0) /\ @[n][j] = gone THEN kept ELSE @[n][j]]],
                !.ve[kept] = IF nbr(1) # Null THEN nbr(1) ELSE nbr(0)]

\* Variant with a bug: the tuple is left at the edge's first vertex.
tuple_at_first(m, e, v) == [edge |-> e, vertex |-> m.ev[e][0]]
\* The output tuple: the edge's own tuple, turned to the vertex v if it is not
\* there already.
tuple_at(m, e, v) ==
    [edge |-> e, vertex |-> IF m.ev[e][0] # v THEN m.ev[e][1] ELSE v]
null_tuple == [edge |-> Null, vertex |-> Null]

\* What operator() returns: nothing of a failed operation.
no_output(op, ok) == [op |-> op, ok |-> ok, input |-> Null,
                      spine |-> Pair(Null, Null), tuple |-> null_tuple]
output_of(op, ok, e, lv, tuple) ==
    IF ok THEN [op |-> op, ok |-> TRUE, input |-> e,
                spine |-> [i \in Sides |-> spine_vid(e, lv, i)], tuple |-> tuple]
    ELSE no_output(op, FALSE)

-----------------------------------------------------------------------------
Init ==
    \E n \in 1 .. InputEdges, k \in 1 .. InputVertices :
        /\ is_free \in BOOLEAN
        /\ \E E \in EdgeInputs(n, k, is_free) : mesh = initialize(E, k, is_free)
        /\ capacity = [v |-> k, e |-> n]
        /\ output = no_output("none", TRUE)

\* Operation::operator() with EdgeSplit: the executor runs in a scope, which
\* is rolled back when an invariant refuses the result.
split_edge(e, lv, accepted) ==
    LET m == split_edge_single_mesh(e, lv)
    IN  /\ capacity.v + new_vertex_count <= MaxVertices
        /\ capacity.e + 2 <= MaxEdges
        /\ mesh' = IF accepted THEN m ELSE grown(new_vertex_count, 2)
        /\ capacity' = [v |-> capacity.v + new_vertex_count, e |-> capacity.e + 2]
        /\ output' = output_of("split", accepted, e, lv,
                        IF is_free THEN [edge |-> split_e(1), vertex |-> m.ev[split_e(1)][0]]
                        ELSE tuple_at(m, split_e(1), split_v(0)))
        /\ UNCHANGED is_free

\* Operation::operator() with EdgeCollapse.  In a free mesh no invariant is
\* asked.  A refused edge gives the null tuple, which is returned as the
\* modified vertex like any other.
collapse_edge(e, lv, accepted) ==
    LET m == collapse_edge_single_mesh(e, lv)
        left == IF neighbor_eid(e, lv, 0) = Null THEN neighbor_eid(e, lv, 1)
                ELSE neighbor_eid(e, lv, 0)
        refused == collapse_refused(e, lv)
    IN  /\ is_free => accepted
        /\ mesh' = IF accepted /\ ~refused THEN m ELSE mesh
        /\ output' = output_of("collapse", accepted, e, lv,
                        IF is_free \/ refused THEN null_tuple
                        ELSE tuple_at(m, left, spine_vid(e, lv, 1)))
        /\ UNCHANGED <<capacity, is_free>>

\* consolidate: the active ids are packed in their order, the attributes with
\* them, and the tables are renamed by old2new.  A mesh without edges or
\* without vertices keeps empty tables.
old2new(active, i) ==
    IF i < 0 THEN i
    ELSE IF i \in active THEN Cardinality({a \in active : a < i})
    ELSE Null
new2old(active, n) == CHOOSE i \in active : old2new(active, i) = n

consolidated ==
    LET V == 0 .. Cardinality(mesh.v) - 1
        E == 0 .. Cardinality(mesh.e) - 1
        renamed(p, active) == [j \in Sides |-> old2new(active, p[j])]
    IN  [v  |-> V,
         e  |-> E,
         ev |-> [n \in E |-> renamed(mesh.ev[new2old(mesh.e, n)], mesh.v)],
         ee |-> [n \in E |-> renamed(mesh.ee[new2old(mesh.e, n)], mesh.e)],
         ve |-> [n \in V |-> old2new(mesh.e, mesh.ve[new2old(mesh.v, n)])]]

\* Variant with a bug: the capacities are left as they were.
consolidate_keeping_capacity ==
    /\ mesh' = consolidated
    /\ output' = no_output("consolidate", TRUE)
    /\ UNCHANGED <<capacity, is_free>>
consolidate ==
    /\ mesh' = consolidated
    /\ capacity' = [v |-> Cardinality(mesh.v), e |-> Cardinality(mesh.e)]
    /\ output' = no_output("consolidate", TRUE)
    /\ UNCHANGED is_free

Next ==
    \/ consolidate
    \/ \E e \in mesh.e, lv \in Sides, accepted \in BOOLEAN :
          split_edge(e, lv, accepted) \/ collapse_edge(e, lv, accepted)

Spec == Init /\ [][Next]_vars

-----------------------------------------------------------------------------
\* A mesh record with the capacities c: the tables have an entry at every id
\* below the capacity, which names an id below it or none.
MeshType(c) ==
    LET V == 0 .. c.v - 1
        E == 0 .. c.e - 1
    IN  [v : SUBSET V, e : SUBSET E,
         ev : [E -> [Sides -> V \cup {Null}]],
         ee : [E -> [Sides -> E \cup {Null}]],
         ve : [V -> E \cup {Null}]]

TypeOK ==
    /\ capacity \in [v : 0 .. MaxVertices, e : 0 .. MaxEdges]
    /\ is_free \in BOOLEAN
    /\ mesh \in MeshType(capacity)

\* EdgeMesh::is_connectivity_valid, clause by clause: m_ve names an edge of
\* its vertex; an edge names active vertices; where it names a neighbour, the
\* neighbour is active, has that vertex and names the edge back on that side.
is_connectivity_valid ==
    /\ \A v \in mesh.v : \E j \in Sides : mesh.ev[mesh.ve[v]][j] = v
    /\ \A e \in mesh.e : mesh.ev[e][0] # mesh.ev[e][1] =>
         \A j \in Sides :
            LET v == mesh.ev[e][j]
                n == mesh.ee[e][j]
            IN  /\ v \in mesh.v
                /\ n # Null =>
                     /\ n \in mesh.e
                     /\ \E k \in Sides : mesh.ev[n][k] = v
                     /\ \A k \in Sides : mesh.ev[n][k] = v => mesh.ee[n][k] = e

\* Every table entry of an active simplex is what the incidence of the active
\* edges and vertices says: the neighbour across a vertex is the other edge
\* there, missing only where there is none, and m_ve names an active edge.
\* is_connectivity_valid accepts a missing neighbour anywhere and skips the
\* self-loops.
TablesAgree ==
    LET at(v) == {p \in mesh.e \X Sides : mesh.ev[p[1]][p[2]] = v}
    IN  /\ \A e \in mesh.e, j \in Sides :
              /\ mesh.ev[e][j] \in mesh.v
              /\ LET rest == at(mesh.ev[e][j]) \ {<<e, j>>}
                 IN  IF is_free THEN rest = {} /\ mesh.ee[e][j] = Null
                     ELSE {p[1] : p \in rest} = {mesh.ee[e][j]} \ {Null}
        /\ \A v \in mesh.v : mesh.ve[v] \in mesh.e
                             /\ \E j \in Sides : mesh.ev[mesh.ve[v]][j] = v

\* The tuple an operation returns can be navigated from, and by every caller
\* in the same way: after a split it is the newest edge at the newest vertex,
\* with the end of the split edge that its tuple did not name on the other
\* side; after a collapse it is an edge at that end, which survives.  These are
\* the assertions at the end of split_edge_single_mesh and what
\* apply_attribute_transfer relies on.
OutputNavigable ==
    output.ok /\ output.tuple # null_tuple =>
        /\ output.tuple.edge \in mesh.e
        /\ output.tuple.vertex \in mesh.v
        /\ \E j \in Sides :
              /\ mesh.ev[output.tuple.edge][j] = output.tuple.vertex
              /\ output.op = "split" /\ ~is_free =>
                   /\ output.tuple.edge = capacity.e - 1
                   /\ output.tuple.vertex = capacity.v - 1
                   /\ mesh.ev[output.tuple.edge][1 - j] = output.spine[1]
        /\ output.op = "collapse" => output.tuple.vertex = output.spine[1]

\* Operation.hpp declares that execute returns an empty vector in case of
\* failure, which is what operator() takes for failure: an operation that is
\* reported as a success has removed the edge it was asked to.
SuccessRemovesInput == output.op \in {"split", "collapse"} /\ output.ok =>
                          output.input \notin mesh.e

\* An id that becomes active is fresh: between two consolidations no id is
\* given a second time, so a stale tuple or a queued simplex that names a
\* deleted id is recognised as removed and never as another simplex.
IdsAreFresh ==
    [][output'.op # "consolidate" =>
         /\ mesh'.v \ mesh.v \subseteq capacity.v .. capacity'.v - 1
         /\ mesh'.e \ mesh.e \subseteq capacity.e .. capacity'.e - 1]_vars

\* The polylines of the mesh: the smallest sets of its edges that share no
\* vertex with the others; closed when they have as many vertices as edges.
ends(e) == {mesh.ev[e][j] : j \in Sides}
apart(S) == \A e \in S, f \in mesh.e \ S : ends(e) \cap ends(f) = {}
Polylines ==
    {S \in SUBSET mesh.e : /\ S # {} /\ apart(S)
                          /\ \A T \in (SUBSET S) \ {{}, S} : ~apart(T)}
kind(P) == IF Cardinality(UNION {ends(e) : e \in P}) = Cardinality(P)
           THEN "closed" ELSE "open"
census ==
    LET same(P, p) == {q \in P : kind(q) = kind(p) /\ Cardinality(q) = Cardinality(p)}
        numbered(P, p) == {<<kind(p), Cardinality(p), i>> : i \in 1 .. Cardinality(same(P, p))}
    IN  UNION {UNION {numbered(P, p) : p \in P} : P \in {Polylines}}

Curves == INSTANCE PolylineComplex WITH curves <- census, free <- is_free

\* Whatever the ids, the operations are those of a collection of polylines:
\* a failed operation, a refused one and consolidate change nothing of it.
ImplementsPolylines == Curves!Spec
=============================================================================

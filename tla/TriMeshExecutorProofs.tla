----------------------- MODULE TriMeshExecutorProofs -----------------------
(***************************************************************************)
(* Lemmas about TriMeshExecutor.tla, for meshes of every size.  Manifold   *)
(* says of a mesh what the executor relies on.  A switch leads across an   *)
(* edge and back; the cofaces of an edge are its fan; the ears are the     *)
(* edges of the fan beside it; split_edge and collapse_edge write the      *)
(* tables that SplitTables and CollapseTables describe; a split leaves a   *)
(* manifold; and the faces that a collapse leaves agree on their corners   *)
(* and edges.                                                              *)
(***************************************************************************)
EXTENDS TriMesh, FiniteSetTheorems, FunctionTheorems, TLAPS

-----------------------------------------------------------------------------
(* The inductive invariant, of a mesh m.                                   *)

\* A mesh has the fields that the executor updates.
Attributes == {"free", "cap", "fv", "fe", "ff", "vf", "ef"}
Plain(m) == m = [a \in Attributes |-> m[a]]
Fields(m) ==
    Plain(m) /\ m.free \in BOOLEAN /\ m.cap \in [v : Nat, e : Nat, f : Nat]
Typed(m) ==
    /\ vertices(m) \subseteq 0 .. m.cap.v - 1
    /\ edges(m) \subseteq 0 .. m.cap.e - 1
    /\ faces(m) \subseteq 0 .. m.cap.f - 1
    /\ m.fv \in [faces(m) -> [Locals -> vertices(m)]]
    /\ m.fe \in [faces(m) -> [Locals -> edges(m)]]
    /\ m.ff \in [faces(m) -> [Locals -> faces(m) \cup {Null}]]
    /\ m.vf \in [vertices(m) -> faces(m)]
    /\ m.ef \in [edges(m) -> faces(m)]

ends(m, f, k) == {m.fv[f][j] : j \in Locals \ {k}}
star(m, v)    == {f \in faces(m) : \E k \in Locals : m.fv[f][k] = v}

\* The vertices of a face differ, and no other face has them all.
Corners(m) ==
    /\ \A f \in faces(m) : \A i, j \in Locals : m.fv[f][i] = m.fv[f][j] => i = j
    /\ \A f, g \in faces(m) :
          (\A i \in Locals : \E j \in Locals : m.fv[f][i] = m.fv[g][j]) => f = g
\* Local edges are the same edge if they have the same ends.
EdgesAgree(m) ==
    \A f, g \in faces(m), i, j \in Locals :
        m.fe[f][i] = m.fe[g][j] <=> ends(m, f, i) = ends(m, g, j)
\* The faces of an edge are across it from each other.
Mates(m) ==
    \A f, g \in faces(m), i, j \in Locals :
        m.fe[f][i] = m.fe[g][j] => \/ f = g /\ i = j
                                   \/ ~m.free /\ m.ff[f][i] = g
Across(m) ==
    \A f \in faces(m), i \in Locals :
        m.ff[f][i] # Null => /\ ~m.free /\ m.ff[f][i] # f
                             /\ \E j \in Locals : m.fe[m.ff[f][i]][j] = m.fe[f][i]
\* The tables of vertices and of edges name a face that has them.
Named(m) ==
    /\ \A v \in vertices(m) : \E k \in Locals : m.fv[m.vf[v]][k] = v
    /\ \A e \in edges(m) : \E k \in Locals : m.fe[m.ef[e]][k] = e
\* The faces of a vertex are all reached from any of them across edges at it.
Closed(m, v, S) ==
    \A f \in S, i \in Locals : m.fv[f][i] # v /\ m.ff[f][i] # Null => m.ff[f][i] \in S
Stars(m) ==
    \A v \in vertices(m) : \A S \in SUBSET star(m, v) :
        S # {} /\ Closed(m, v, S) => S = star(m, v)

Manifold(m) ==
    /\ Fields(m) /\ Typed(m) /\ Corners(m) /\ EdgesAgree(m) /\ Mates(m) /\ Across(m)
    /\ Named(m) /\ Stars(m)

Inv ==
    /\ splits \in Nat
    /\ mesh.cap.v + (IF mesh.free THEN 3 ELSE 1) * splits <= MaxVertices
    /\ Manifold(mesh)

-----------------------------------------------------------------------------
(* Navigation.                                                             *)

\* The local vertex, the local edge and third are the three local indices.
LEMMA ThreeLocals ==
    ASSUME NEW t, t.v \in Locals, t.e \in Locals, t.v # t.e
    PROVE  /\ third(t) \in Locals /\ third(t) # t.v /\ third(t) # t.e
           /\ Locals = {t.v, t.e, third(t)}
BY DEF third, Locals

\* index finds the only place of x in a row, and Null if there is none.
LEMMA IndexIs ==
    ASSUME NEW row, NEW x, NEW i \in Locals, row[i] = x,
           \A j \in Locals : row[j] = x => j = i
    PROVE  index(row, x) = i
<1>1. {j \in Locals : row[j] = x} \cup {Null} = {i, Null}
  OBVIOUS
<1>2. \A y \in {i, Null} : (\A z \in {i, Null} : y >= z) <=> y = i
  BY DEF Locals, Null
<1> QED
  BY <1>1, <1>2 DEF index, Max

\* index fails for a value that the row does not have.
LEMMA IndexNone ==
    ASSUME NEW row, NEW x, \A j \in Locals : row[j] # x
    PROVE  index(row, x) = Null
<1>1. {j \in Locals : row[j] = x} \cup {Null} = {Null}
  OBVIOUS
<1> QED
  BY <1>1 DEF index, Max, Null

\* The ends of a local edge are the two other corners.
LEMMA EndsPair ==
    ASSUME NEW m, NEW f, NEW k \in Locals, NEW i \in Locals, NEW j \in Locals,
           i # j, i # k, j # k
    PROVE  ends(m, f, k) = {m.fv[f][i], m.fv[f][j]}
<1>1. Locals \ {k} = {i, j}
  BY DEF Locals
<1> QED
  BY <1>1 DEF ends

\* Each local index has two others.
LEMMA OtherLocals ==
    \A k \in Locals : \E i, j \in Locals : i # j /\ i # k /\ j # k /\ Locals = {i, j, k}
<1> SUFFICES ASSUME NEW k \in Locals
             PROVE  \E i, j \in Locals : i # j /\ i # k /\ j # k /\ Locals = {i, j, k}
  OBVIOUS
<1>1. CASE k = 0
  BY <1>1 DEF Locals
<1>2. CASE k = 1
  <2>1. 0 \in Locals /\ 2 \in Locals /\ 0 # k /\ 2 # k /\ Locals = {0, 2, k}
    BY <1>2 DEF Locals
  <2> QED
    BY <2>1
<1>3. CASE k = 2
  <2>1. 0 \in Locals /\ 1 \in Locals /\ 0 # k /\ 1 # k /\ Locals = {0, 1, k}
    BY <1>3 DEF Locals
  <2> QED
    BY <2>1
<1> QED
  BY <1>1, <1>2, <1>3 DEF Locals

\* Two places of a face leave out exactly one local edge, the one between them.
LEMMA Between ==
    \A i, j \in Locals : i # j => \E k \in Locals : k # i /\ k # j /\ Locals = {i, j, k}
<1> SUFFICES ASSUME NEW i \in Locals, NEW j \in Locals, i # j
             PROVE  \E k \in Locals : k # i /\ k # j /\ Locals = {i, j, k}
  OBVIOUS
<1>1. 3 - i - j \in Locals /\ 3 - i - j # i /\ 3 - i - j # j /\ Locals = {i, j, 3 - i - j}
  BY DEF Locals
<1> QED
  BY <1>1

\* A face with two vertices has the edge between them.
LEMMA EdgeBetween ==
    ASSUME NEW m, NEW f
    PROVE  \A i, j \in Locals : m.fv[f][i] # m.fv[f][j] =>
              \E k \in Locals : k # i /\ k # j /\ ends(m, f, k) = {m.fv[f][i], m.fv[f][j]}
<1> SUFFICES ASSUME NEW i \in Locals, NEW j \in Locals, m.fv[f][i] # m.fv[f][j]
             PROVE  \E k \in Locals : k # i /\ k # j
                                      /\ ends(m, f, k) = {m.fv[f][i], m.fv[f][j]}
  OBVIOUS
<1>1. PICK k \in Locals : k # i /\ k # j
  BY Between
<1>2. ends(m, f, k) = {m.fv[f][i], m.fv[f][j]}
  BY <1>1, EndsPair
<1> QED
  BY <1>1, <1>2

\* Two faces share one edge at most.
LEMMA SharedEdges ==
    ASSUME NEW m, Corners(m), EdgesAgree(m), NEW f \in faces(m), NEW g \in faces(m),
           NEW i \in Locals, NEW j \in Locals, i # j,
           \E k \in Locals : m.fe[f][i] = m.fe[g][k],
           \E k \in Locals : m.fe[f][j] = m.fe[g][k]
    PROVE  f = g
<1>1. PICK p \in Locals : ends(m, f, i) = ends(m, g, p)
  BY DEF EdgesAgree
<1>2. PICK q \in Locals : ends(m, f, j) = ends(m, g, q)
  BY DEF EdgesAgree
<1>3. \A k \in Locals : \E l \in Locals : m.fv[f][k] = m.fv[g][l]
  <2> SUFFICES ASSUME NEW k \in Locals
               PROVE  \E l \in Locals : m.fv[f][k] = m.fv[g][l]
    OBVIOUS
  <2>1. m.fv[f][k] \in ends(m, f, i) \/ m.fv[f][k] \in ends(m, f, j)
    BY DEF ends
  <2> QED
    BY <2>1, <1>1, <1>2 DEF ends
<1> QED
  BY <1>3 DEF Corners

\* What is across an edge is across it from there.
LEMMA MateOf ==
    ASSUME NEW m, Manifold(m), NEW f \in faces(m), NEW i \in Locals, m.ff[f][i] # Null
    PROVE  /\ ~m.free /\ m.ff[f][i] \in faces(m) /\ m.ff[f][i] # f
           /\ \E j \in Locals : /\ m.fe[m.ff[f][i]][j] = m.fe[f][i]
                                /\ m.ff[m.ff[f][i]][j] = f
           /\ \A j \in Locals : m.ff[f][j] = m.ff[f][i] => j = i
<1>1. /\ ~m.free /\ m.ff[f][i] # f /\ m.ff[f][i] \in faces(m)
      /\ \E j \in Locals : m.fe[m.ff[f][i]][j] = m.fe[f][i]
  BY DEF Manifold, Across, Typed
<1>2. PICK j \in Locals : m.fe[m.ff[f][i]][j] = m.fe[f][i]
  BY <1>1
<1>3. m.ff[m.ff[f][i]][j] = f
  BY <1>1, <1>2 DEF Manifold, Mates
<1>4. ASSUME NEW k \in Locals, m.ff[f][k] = m.ff[f][i], k # i
      PROVE  FALSE
  <2>1. \E l \in Locals : m.fe[f][k] = m.fe[m.ff[f][i]][l]
    BY <1>4 DEF Manifold, Across
  <2>2. \E l \in Locals : m.fe[f][i] = m.fe[m.ff[f][i]][l]
    BY <1>1
  <2> QED
    BY <1>1, <1>4, <2>1, <2>2, SharedEdges DEF Manifold
<1> QED
  BY <1>1, <1>2, <1>3, <1>4

\* Edges that a face has twice are one edge.
LEMMA EdgeOnce ==
    ASSUME NEW m, Manifold(m), NEW f \in faces(m), NEW i \in Locals, NEW j \in Locals,
           m.fe[f][i] = m.fe[f][j]
    PROVE  i = j
<1>1. CASE i = j
  BY <1>1
<1>2. CASE i # j
  <2>1. PICK k \in Locals : k # i /\ k # j
    BY <1>2, Between
  <2>2. ends(m, f, i) = {m.fv[f][j], m.fv[f][k]} /\ ends(m, f, j) = {m.fv[f][i], m.fv[f][k]}
    BY <1>2, <2>1, EndsPair
  <2>3. EdgesAgree(m)
    BY DEF Manifold
  <2>4. ends(m, f, i) = ends(m, f, j)
    BY ONLY <2>3, f \in faces(m), i \in Locals, j \in Locals, m.fe[f][i] = m.fe[f][j]
       DEF EdgesAgree
  <2>5. m.fv[f][i] = m.fv[f][j] \/ m.fv[f][i] = m.fv[f][k]
    BY ONLY <2>2, <2>4
  <2> QED
    BY <2>1, <2>5 DEF Manifold, Corners
<1> QED
  BY <1>1, <1>2

\* switch_face leads to the tuple of the same vertex and edge across the edge.
LEMMA SwitchFace ==
    ASSUME NEW m, Manifold(m), NEW t \in Tuples(m), m.ff[t.f][t.e] # Null
    PROVE  LET u == switch_face(m, t)
           IN  /\ ~m.free /\ u \in Tuples(m) /\ u.f = m.ff[t.f][t.e] /\ u.f # t.f
               /\ id_vertex(m, u) = id_vertex(m, t) /\ id_edge(m, u) = id_edge(m, t)
               /\ m.fv[u.f][third(u)] = m.fv[t.f][third(t)]
               /\ m.ff[u.f][u.e] = t.f
<1> DEFINE g == m.ff[t.f][t.e]
<1>0. t.v \in Locals /\ t.e \in Locals /\ t.f \in faces(m) /\ t.v # t.e
      /\ third(t) \in Locals /\ third(t) # t.v /\ third(t) # t.e
  BY ThreeLocals DEF Tuples
<1>1. ~m.free /\ g \in faces(m) /\ g # t.f
  BY <1>0, MateOf
<1>2. PICK e \in Locals : m.fe[g][e] = m.fe[t.f][t.e] /\ m.ff[g][e] = t.f
  <2>1. \E e \in Locals : m.fe[m.ff[t.f][t.e]][e] = m.fe[t.f][t.e] /\ m.ff[m.ff[t.f][t.e]][e] = t.f
    BY ONLY SMTT(20), <1>0, MateOf, Manifold(m), m.ff[t.f][t.e] # Null
  <2> QED
    BY <2>1
<1>3. index(m.fe[g], id_edge(m, t)) = e
  BY SMTT(20), <1>0, <1>1, <1>2, EdgeOnce, IndexIs DEF id_edge
<1>4. ends(m, g, e) = {m.fv[t.f][t.v], m.fv[t.f][third(t)]}
  <2>1. ends(m, t.f, t.e) = {m.fv[t.f][t.v], m.fv[t.f][third(t)]}
    BY <1>0, EndsPair
  <2>2. \A h \in faces(m) : m.fe[h][e] = m.fe[t.f][t.e] => ends(m, h, e) = ends(m, t.f, t.e)
    BY <1>0 DEF Manifold, EdgesAgree
  <2> QED
    BY <2>1, <2>2, <1>1, <1>2
<1>5. PICK v \in Locals \ {e} : m.fv[g][v] = m.fv[t.f][t.v]
  BY <1>4 DEF ends
<1>6. PICK w \in Locals \ {e} : m.fv[g][w] = m.fv[t.f][third(t)]
  BY <1>4 DEF ends
<1>7. v # w
  BY <1>0, <1>5, <1>6 DEF Manifold, Corners
<1>8. index(m.fv[g], id_vertex(m, t)) = v
  BY <1>1, <1>5, IndexIs DEF id_vertex, Manifold, Corners
<1>9. switch_face(m, t) = [v |-> v, e |-> e, f |-> g]
  BY <1>1, <1>3, <1>8 DEF switch_face, tuple_from_global_ids
<1>10. third([v |-> v, e |-> e, f |-> g]) = w
  BY <1>5, <1>6, <1>7 DEF third, Locals
<1> HIDE DEF g
<1> DEFINE u == switch_face(m, t)
<1>11. u \in Tuples(m) /\ u.v = v /\ u.e = e /\ u.f = g /\ third(u) = w
  BY <1>1, <1>5, <1>9, <1>10 DEF Tuples
<1> HIDE DEF u
<1>12. id_vertex(m, u) = id_vertex(m, t) /\ id_edge(m, u) = id_edge(m, t)
  BY <1>2, <1>5, <1>11 DEF id_vertex, id_edge, g
<1>13. m.fv[u.f][third(u)] = m.fv[t.f][third(t)] /\ m.ff[u.f][u.e] = t.f
  BY <1>2, <1>6, <1>11 DEF g
<1> QED
  BY <1>1, <1>11, <1>12, <1>13 DEF u, g

-----------------------------------------------------------------------------
(* Turning around a vertex.                                                *)

\* A set of numbers that is not empty has a least member.
LEMMA LeastNatural ==
    ASSUME NEW S \in SUBSET Nat, S # {}
    PROVE  \E r \in S : \A s \in S : r <= s
<1> DEFINE less == {pair \in Nat \X Nat : pair[1] < pair[2]}
<1>1. OpToRel(<, Nat) = less
  BY DEF OpToRel
<1>2. IsWellFoundedOn(less, Nat)
  BY <1>1, NatLessThanWellFounded
<1>3. PICK r \in S : \A s \in S : ~ (<<s, r>> \in less)
  <2> HIDE DEF less
  <2> QED
    BY <1>2, WFMin
<1>4. ASSUME NEW s \in S
      PROVE  r <= s
  <2>1. r \in Nat /\ s \in Nat
    OBVIOUS
  <2>2. s < r => <<s, r>> \in less
    BY <2>1
  <2>3. ~ (<<s, r>> \in less)
    BY <1>3
  <2> QED
    BY <2>1, <2>2, <2>3
<1> QED
  BY <1>4

\* There are finitely many simplices, since their ids are below the capacities.
LEMMA FacesFinite ==
    ASSUME NEW m, Fields(m), Typed(m)
    PROVE  /\ IsFiniteSet(faces(m)) /\ IsFiniteSet(vertices(m)) /\ IsFiniteSet(edges(m))
           /\ Cardinality(faces(m)) \in Nat /\ Cardinality(vertices(m)) \in Nat
           /\ Cardinality(edges(m)) \in Nat
<1>1. \A n \in Nat : \A S \in SUBSET (0 .. n - 1) : IsFiniteSet(S) /\ Cardinality(S) \in Nat
  <2> SUFFICES ASSUME NEW n \in Nat, NEW S \in SUBSET (0 .. n - 1)
               PROVE  IsFiniteSet(S) /\ Cardinality(S) \in Nat
    OBVIOUS
  <2>1. IsFiniteSet(0 .. n - 1)
    BY FS_Interval
  <2>2. IsFiniteSet(S)
    BY <2>1, FS_Subset
  <2> QED
    BY <2>2, FS_CardinalityType
<1>2. m.cap.v \in Nat /\ m.cap.e \in Nat /\ m.cap.f \in Nat
  BY DEF Fields
<1> QED
  BY <1>1, <1>2 DEF Typed

\* One turn: the faces met, with those across their edges at v.
Turned(m, v, met) ==
    met \cup ((UNION {{m.ff[f][k] : k \in {i \in Locals : m.fv[f][i] # v}} : f \in met}) \ {Null})
Turns(u, m, t, n) ==
    u = [k \in 0 .. n |-> IF k = 0 THEN {t.f} ELSE Turned(m, id_vertex(m, t), u[k - 1])]

\* The turns around a vertex are defined for any number of them.
LEMMA TurnsExist ==
    ASSUME NEW m, NEW t, NEW n \in Nat
    PROVE  \E u : Turns(u, m, t, n)
<1> DEFINE v == id_vertex(m, t)
           Wrong == {k \in Nat : ~ \E u : Turns(u, m, t, k)}
<1> HIDE DEF v
<1> SUFFICES ASSUME Wrong # {} PROVE FALSE
  OBVIOUS
<1>1. PICK l \in Wrong : \A k \in Wrong : l <= k
  <2>1. Wrong \in SUBSET Nat
    OBVIOUS
  <2> HIDE DEF Wrong
  <2> QED
    BY <2>1, LeastNatural
<1>2. CASE l = 0
  <2>1. Turns([k \in 0 .. 0 |-> {t.f}], m, t, 0)
    BY DEF Turns
  <2> QED
    BY <1>1, <1>2, <2>1
<1>3. CASE l # 0
  <2>1. l - 1 \in Nat /\ ~ (l <= l - 1)
    BY <1>1, <1>3
  <2>2. PICK u : Turns(u, m, t, l - 1)
    BY <1>1, <2>1
  <2>3. u = [k \in 0 .. l - 1 |-> IF k = 0 THEN {t.f} ELSE Turned(m, v, u[k - 1])]
    BY <2>2 DEF Turns, v
  <2> DEFINE w == [k \in 0 .. l |-> IF k = l THEN Turned(m, v, u[l - 1]) ELSE u[k]]
  <2>4. ASSUME NEW k \in 0 .. l
        PROVE  w[k] = IF k = 0 THEN {t.f} ELSE Turned(m, v, w[k - 1])
    <3>1. CASE k = l
      <4>1. w[k] = Turned(m, v, u[l - 1]) /\ w[k - 1] = u[l - 1] /\ k # 0
        BY <1>3, <2>1, <3>1
      <4> QED
        BY <4>1
    <3>2. CASE k # l
      <4>1. k \in 0 .. l - 1 /\ w[k] = u[k] /\ (k # 0 => w[k - 1] = u[k - 1])
        BY <1>1, <2>1, <3>2
      <4>2. u[k] = IF k = 0 THEN {t.f} ELSE Turned(m, v, u[k - 1])
        BY <4>1, <2>3
      <4> QED
        BY <4>1, <4>2
    <3> QED
      BY <3>1, <3>2
  <2>5. w = [k \in 0 .. l |-> w[k]]
    OBVIOUS
  <2>6. Turns(w, m, t, l)
    <3> HIDE DEF w
    <3>1. w = [k \in 0 .. l |-> IF k = 0 THEN {t.f} ELSE Turned(m, v, w[k - 1])]
      BY <2>4, <2>5
    <3> QED
      BY <3>1 DEF Turns, v
  <2> QED
    BY <1>1, <2>6
<1> QED
  BY <1>2, <1>3

\* top_dimension_cofaces_vertex makes as many turns as there are faces.
LEMMA CofacesAreTurns ==
    ASSUME NEW m, NEW t, Cardinality(faces(m)) \in Nat
    PROVE  \E u : /\ Turns(u, m, t, Cardinality(faces(m)))
                  /\ top_dimension_cofaces_vertex(m, t) = u[Cardinality(faces(m))]
<1> DEFINE u == CHOOSE u : Turns(u, m, t, Cardinality(faces(m)))
<1>1. top_dimension_cofaces_vertex(m, t) = u[Cardinality(faces(m))]
  BY DEF top_dimension_cofaces_vertex, Turns, Turned
<1>2. Turns(u, m, t, Cardinality(faces(m)))
  BY TurnsExist
<1> QED
  BY <1>1, <1>2

\* A turn stays at the vertex, and if it meets no new face it has met all.
LEMMA TurnedStep ==
    ASSUME NEW m, Manifold(m), NEW v \in vertices(m), NEW S \in SUBSET star(m, v), S # {}
    PROVE  /\ S \subseteq Turned(m, v, S) /\ Turned(m, v, S) \subseteq star(m, v)
           /\ Turned(m, v, S) = S => S = star(m, v)
<1> DEFINE new == (UNION {{m.ff[f][k] : k \in {i \in Locals : m.fv[f][i] # v}} : f \in S}) \ {Null}
<1>1. Turned(m, v, S) = S \cup new
  BY DEF Turned
<1>2. \A h : h \in new <=> h # Null /\ \E f \in S, k \in Locals : m.fv[f][k] # v /\ h = m.ff[f][k]
  <2> DEFINE across(f) == {m.ff[f][k] : k \in {i \in Locals : m.fv[f][i] # v}}
  <2>1. \A f, h : h \in across(f) <=> \E k \in Locals : m.fv[f][k] # v /\ h = m.ff[f][k]
    OBVIOUS
  <2> DEFINE met == UNION {across(f) : f \in S}
  <2>2. new = met \ {Null}
    OBVIOUS
  <2> HIDE DEF across
  <2>3. \A h : h \in met <=> \E f \in S : h \in across(f)
    BY Zenon
  <2> HIDE DEF met, new
  <2> QED
    BY <2>1, <2>2, <2>3
<1> HIDE DEF new
<1>3. ASSUME NEW h \in new
      PROVE  h \in star(m, v)
  <2>1. PICK f \in S, k \in Locals : m.fv[f][k] # v /\ h = m.ff[f][k] /\ h # Null
    BY <1>2
  <2>2. f \in faces(m) /\ \E l \in Locals : m.fv[f][l] = v
    BY DEF star
  <2>3. PICK l \in Locals : m.fv[f][l] = v
    BY <2>2
  <2>4. v \in ends(m, f, k)
    BY <2>1, <2>3 DEF ends
  <2>5. h \in faces(m)
    BY <2>1, <2>2, MateOf
  <2>6. PICK j \in Locals : m.fe[h][j] = m.fe[f][k]
    BY <2>1, <2>2, MateOf
  <2>7. v \in ends(m, h, j)
    BY <2>2, <2>4, <2>5, <2>6 DEF Manifold, EdgesAgree
  <2> QED
    BY <2>5, <2>7 DEF ends, star
<1>4. new \subseteq S => Closed(m, v, S)
  BY <1>2 DEF Closed
<1>5. Closed(m, v, S) => S = star(m, v)
  BY DEF Manifold, Stars
<1> QED
  BY <1>1, <1>3, <1>4, <1>5

\* top_dimension_cofaces_tuples_vertex finds all the faces of a vertex.
LEMMA CofacesAreStar ==
    ASSUME NEW m, Manifold(m), NEW t \in Tuples(m)
    PROVE  top_dimension_cofaces_vertex(m, t) = star(m, id_vertex(m, t))
<1> DEFINE v == id_vertex(m, t)
           C == Cardinality(faces(m))
           all == star(m, v)
<1>0. t.f \in faces(m) /\ t.v \in Locals /\ v \in vertices(m) /\ t.f \in all
  BY DEF Tuples, id_vertex, Manifold, Typed, star
<1>1. C \in Nat /\ IsFiniteSet(faces(m))
  BY FacesFinite DEF Manifold
<1>2. PICK u : Turns(u, m, t, C) /\ top_dimension_cofaces_vertex(m, t) = u[C]
  BY <1>1, CofacesAreTurns
<1>3. \A k \in 0 .. C : u[k] = IF k = 0 THEN {t.f} ELSE Turned(m, v, u[k - 1])
  <2> HIDE DEF v
  <2>1. u = [k \in 0 .. C |-> IF k = 0 THEN {t.f} ELSE Turned(m, v, u[k - 1])]
    BY <1>2 DEF Turns, v
  <2> QED
    BY <2>1
<1>4. \A S \in SUBSET all : /\ IsFiniteSet(S) /\ Cardinality(S) \in Nat
                            /\ Cardinality(S) <= C
  <2> SUFFICES ASSUME NEW S \in SUBSET all
               PROVE  IsFiniteSet(S) /\ Cardinality(S) \in Nat /\ Cardinality(S) <= C
    OBVIOUS
  <2>1. S \in SUBSET faces(m)
    BY DEF star
  <2> QED
    BY <1>1, <2>1, FS_Subset, FS_CardinalityType
<1> HIDE DEF v, C, all
<1> DEFINE Grown(k) == /\ u[k] \subseteq all /\ t.f \in u[k]
                       /\ u[k] = all \/ Cardinality(u[k]) > k
           Wrong == {k \in 0 .. C : ~Grown(k)}
<1>5. ASSUME NEW k \in 0 .. C, k # 0, Grown(k - 1)
      PROVE  Grown(k)
  <2> DEFINE S == u[k - 1]
             T == u[k]
  <2>1. T = Turned(m, v, S) /\ S \subseteq all /\ t.f \in S /\ S # {}
        /\ (S = all \/ Cardinality(S) > k - 1)
    BY <1>1, <1>3, <1>5
  <2> HIDE DEF S, T
  <2>2. S \subseteq T /\ T \subseteq all /\ (T = S => S = all)
    BY <1>0, <2>1, TurnedStep DEF all
  <2>3. CASE S = all
    BY <2>1, <2>2, <2>3 DEF T
  <2>4. CASE S # all
    <3>1. IsFiniteSet(T) /\ Cardinality(T) \in Nat /\ Cardinality(S) \in Nat
      BY <1>4, <2>1, <2>2
    <3>2. Cardinality(S) <= Cardinality(T) /\ Cardinality(S) # Cardinality(T)
      BY <2>2, <2>4, <3>1, FS_Subset
    <3>3. Cardinality(T) > k
      BY <1>1, <2>1, <2>4, <3>1, <3>2
    <3> QED
      BY <2>1, <2>2, <3>3 DEF T
  <2> QED
    BY <2>3, <2>4
<1>6. Grown(0)
  <2>1. u[0] = {t.f}
    BY <1>1, <1>3
  <2>2. Cardinality({t.f}) = 1
    BY FS_Singleton
  <2> QED
    BY <1>0, <2>1, <2>2 DEF all
<1>7. Wrong = {}
  <2> SUFFICES ASSUME Wrong # {} PROVE FALSE
    OBVIOUS
  <2> HIDE DEF Grown
  <2>1. Wrong \in SUBSET Nat
    BY <1>1
  <2>2. PICK k \in Wrong : \A l \in Wrong : k <= l
    <3> HIDE DEF Wrong
    <3> QED
      BY <2>1, LeastNatural
  <2>3. k # 0
    BY <1>6, <2>2
  <2>4. k - 1 \in 0 .. C /\ ~ (k <= k - 1)
    BY <1>1, <2>2, <2>3
  <2>5. Grown(k - 1)
    BY <2>2, <2>4
  <2> QED
    BY <1>5, <2>2, <2>3, <2>5
<1>8. Grown(C)
  <2>1. C \in 0 .. C
    BY <1>1
  <2> HIDE DEF Grown
  <2> QED
    BY <1>7, <2>1
<1>9. u[C] = all
  BY <1>1, <1>4, <1>8
<1> QED
  BY <1>2, <1>9 DEF all, v

-----------------------------------------------------------------------------
(* What the executor reads off the operating tuple t.                      *)

\* The tuples of the incident faces, all from the end 0 of the edge; where a
\* face has end j; and its ear at that end.
Fan(m, t) == top_dimension_cofaces_edge(m, t)
pos(u, j) == IF j = 0 THEN u.v ELSE third(u)
Ear(m, u, j) == [f |-> m.ff[u.f][pos(u, 1 - j)], e |-> m.fe[u.f][pos(u, 1 - j)]]
Gone(m, t) == {Fan(m, t)[i].f : i \in DOMAIN Fan(m, t)}

\* The rows of the tables name active simplices, and Null is none of them.
LEMMA Rows ==
    ASSUME NEW m, Fields(m), Typed(m)
    PROVE  /\ \A f \in faces(m), k \in Locals :
                 /\ m.fv[f][k] \in vertices(m) /\ m.fe[f][k] \in edges(m)
                 /\ m.ff[f][k] \in faces(m) \cup {Null}
           /\ \A v \in vertices(m) : m.vf[v] \in faces(m)
           /\ \A e \in edges(m) : m.ef[e] \in faces(m)
           /\ faces(m) \subseteq Nat /\ edges(m) \subseteq Nat /\ vertices(m) \subseteq Nat
           /\ Null \notin faces(m) /\ Null \notin edges(m) /\ Null \notin vertices(m)
BY DEF Fields, Typed, Null

\* The local edge of a tuple is opposite to its ends 0 and 1, the places at pos.
LEMMA Places ==
    ASSUME NEW m, NEW u \in Tuples(m)
    PROVE  /\ u.f \in faces(m) /\ u.v \in Locals /\ u.e \in Locals /\ third(u) \in Locals
           /\ \A j \in Sides : /\ pos(u, j) \in Locals /\ pos(u, j) # u.e /\ pos(u, j) # pos(u, 1 - j)
                               /\ 1 - j \in Sides /\ 1 - (1 - j) = j
                               /\ Locals = {u.e, pos(u, j), pos(u, 1 - j)}
           /\ pos(u, 0) = u.v /\ pos(u, 1) = third(u)
<1>1. u.f \in faces(m) /\ u.v \in Locals /\ u.e \in Locals /\ u.v # u.e
  BY DEF Tuples
<1>2. /\ third(u) \in Locals /\ third(u) # u.v /\ third(u) # u.e
      /\ Locals = {u.v, u.e, third(u)}
  BY <1>1, ThreeLocals
<1>3. pos(u, 0) = u.v /\ pos(u, 1) = third(u)
  BY DEF pos
<1>4. ASSUME NEW j \in Sides
      PROVE  /\ pos(u, j) \in Locals /\ pos(u, j) # u.e /\ pos(u, j) # pos(u, 1 - j)
             /\ 1 - j \in Sides /\ 1 - (1 - j) = j
             /\ Locals = {u.e, pos(u, j), pos(u, 1 - j)}
  <2>1. (j = 0 /\ 1 - j = 1) \/ (j = 1 /\ 1 - j = 0)
    BY DEF Sides
  <2> QED
    BY <1>1, <1>2, <1>3, <2>1 DEF Sides
<1> QED
  BY <1>1, <1>2, <1>3, <1>4

\* The two ends of the edge of t.
LEMMA SpineEnds ==
    ASSUME NEW m, NEW t \in Tuples(m)
    PROVE  \A j \in Sides : spine_vid(m, t, j) = m.fv[t.f][pos(t, j)]
BY DEF spine_vid, id_vertex, switch_vertex, Tuples, pos, Sides

\* U is the fan of t: one or two tuples, of the same edge and from the same end,
\* each across from the other.
IsFan(m, t, U) ==
    /\ DOMAIN U = 1 .. Len(U) /\ Len(U) \in {1, 2} /\ U[1] = t
    /\ Len(U) = 1 <=> m.ff[t.f][t.e] = Null
    /\ \A i \in 1 .. Len(U) :
          /\ U[i] \in Tuples(m) /\ id_edge(m, U[i]) = id_edge(m, t)
          /\ \A j \in Sides : m.fv[U[i].f][pos(U[i], j)] = spine_vid(m, t, j)
          /\ m.ff[U[i].f][U[i].e] = IF Len(U) = 1 THEN Null ELSE U[3 - i].f
    /\ Len(U) = 2 => U[1].f # U[2].f /\ ~m.free

\* incident_faces finds the face of the tuple and the one across its edge, if any.
LEMMA Incident ==
    ASSUME NEW m, Manifold(m), NEW t \in Tuples(m)
    PROVE  IsFan(m, t, Fan(m, t))
<1> DEFINE U == Fan(m, t)
           u == switch_face(m, t)
<1>0. t.f \in faces(m) /\ t.e \in Locals /\ m.ff[t.f][t.e] \in faces(m) \cup {Null}
      /\ faces(m) \subseteq Nat
  BY DEF Tuples, Manifold, Typed, Fields
<1>1. is_boundary_edge(m, t) <=> m.ff[t.f][t.e] = Null
  BY <1>0 DEF is_boundary_edge, Null
<1>2. CASE m.ff[t.f][t.e] = Null
  <2>1. U = <<t>>
    BY <1>1, <1>2 DEF top_dimension_cofaces_edge, Fan
  <2>2. DOMAIN U = 1 .. 1 /\ Len(U) = 1 /\ U[1] = t
    BY <2>1
  <2>3. IsFan(m, t, U)
    <3> HIDE DEF U
    <3> QED
      BY <1>2, <2>2, SpineEnds DEF IsFan
  <2> QED
    BY <2>3
<1>3. CASE m.ff[t.f][t.e] # Null
  <2>1. U = <<t, u>>
    BY <1>1, <1>3 DEF top_dimension_cofaces_edge, Fan
  <2>2. DOMAIN U = 1 .. 2 /\ Len(U) = 2 /\ U[1] = t /\ U[2] = u
    BY <2>1
  <2>3. /\ ~m.free /\ u \in Tuples(m) /\ u.f = m.ff[t.f][t.e] /\ u.f # t.f
        /\ id_vertex(m, u) = id_vertex(m, t) /\ id_edge(m, u) = id_edge(m, t)
        /\ m.fv[u.f][third(u)] = m.fv[t.f][third(t)]
        /\ m.ff[u.f][u.e] = t.f
    BY <1>3, SwitchFace
  <2> HIDE DEF U, u
  <2>4. \A j \in Sides : m.fv[u.f][pos(u, j)] = spine_vid(m, t, j)
    BY <2>3, SpineEnds DEF pos, id_vertex, Sides
  <2>5. \A i \in 1 .. 2 : i = 1 \/ i = 2
    OBVIOUS
  <2>6. 3 - 1 = 2 /\ 3 - 2 = 1
    OBVIOUS
  <2>7. \A i \in 1 .. 2 : /\ U[i] \in Tuples(m) /\ id_edge(m, U[i]) = id_edge(m, t)
                          /\ \A j \in Sides : m.fv[U[i].f][pos(U[i], j)] = spine_vid(m, t, j)
                          /\ m.ff[U[i].f][U[i].e] = U[3 - i].f
    <3>1. /\ id_edge(m, U[1]) = id_edge(m, t)
          /\ \A j \in Sides : m.fv[U[1].f][pos(U[1], j)] = spine_vid(m, t, j)
          /\ m.ff[U[1].f][U[1].e] = U[3 - 1].f
      BY <2>2, <2>3, <2>6, SpineEnds
    <3>2. /\ id_edge(m, U[2]) = id_edge(m, t)
          /\ \A j \in Sides : m.fv[U[2].f][pos(U[2], j)] = spine_vid(m, t, j)
          /\ m.ff[U[2].f][U[2].e] = U[3 - 2].f
      BY <2>2, <2>3, <2>4, <2>6
    <3> QED
      BY <2>2, <2>3, <2>5, <3>1, <3>2
  <2>8. IsFan(m, t, U)
    BY <1>3, <2>2, <2>3, <2>7 DEF IsFan
  <2> QED
    BY <2>8 DEF U
<1> QED
  BY <1>2, <1>3

\* The incident faces are those that have the edge, and those with both ends.
LEMMA IncidentAll ==
    ASSUME NEW m, Manifold(m), NEW t \in Tuples(m)
    PROVE  LET U == Fan(m, t)
           IN  /\ \A f \in faces(m), l \in Locals :
                     m.fe[f][l] = id_edge(m, t) => \E i \in 1 .. Len(U) : f = U[i].f /\ l = U[i].e
               /\ \A f \in faces(m), k, l \in Locals :
                     m.fv[f][k] = spine_vid(m, t, 0) /\ m.fv[f][l] = spine_vid(m, t, 1)
                         => \E i \in 1 .. Len(U) : f = U[i].f
               /\ spine_vid(m, t, 0) # spine_vid(m, t, 1)
<1> DEFINE U == Fan(m, t)
<1>0. /\ DOMAIN U = 1 .. Len(U) /\ Len(U) \in {1, 2} /\ U[1] = t
      /\ Len(U) = 1 <=> m.ff[t.f][t.e] = Null
      /\ \A i \in 1 .. Len(U) :
            /\ U[i] \in Tuples(m) /\ id_edge(m, U[i]) = id_edge(m, t)
            /\ m.ff[U[i].f][U[i].e] = IF Len(U) = 1 THEN Null ELSE U[3 - i].f
  BY Incident DEF IsFan
<1> HIDE DEF U
<1>1. ASSUME NEW f \in faces(m), NEW l \in Locals, m.fe[f][l] = id_edge(m, t)
      PROVE  \E i \in 1 .. Len(U) : f = U[i].f /\ l = U[i].e
  <2>1. t.f \in faces(m) /\ t.e \in Locals /\ id_edge(m, t) = m.fe[t.f][t.e]
    BY DEF Tuples, id_edge
  <2>2. CASE f = t.f
    <3>1. l = t.e
      BY <1>1, <2>1, <2>2, EdgeOnce
    <3> QED
      BY <1>0, <2>2, <3>1
  <2>3. CASE f # t.f
    <3>1. f = m.ff[t.f][t.e]
      BY <1>1, <2>1, <2>3 DEF Manifold, Mates
    <3>2. f # Null
      BY DEF Manifold, Typed, Null, Fields
    <3>3. Len(U) = 2 /\ 2 \in 1 .. Len(U) /\ 1 \in 1 .. Len(U) /\ 3 - 1 = 2
      BY <1>0, <3>1, <3>2
    <3>4. f = U[2].f
      BY <1>0, <3>1, <3>3
    <3>5. U[2] \in Tuples(m) /\ U[2].e \in Locals /\ m.fe[f][U[2].e] = m.fe[f][l]
      BY <1>0, <1>1, <3>3, <3>4 DEF id_edge, Tuples
    <3>6. l = U[2].e
      BY <3>5, EdgeOnce
    <3> QED
      BY <3>3, <3>4, <3>6
  <2> QED
    BY <2>2, <2>3
<1>2. spine_vid(m, t, 0) # spine_vid(m, t, 1)
  BY Places, SpineEnds DEF Manifold, Corners, Sides
<1>3. ASSUME NEW f \in faces(m), NEW k \in Locals, NEW l \in Locals,
             m.fv[f][k] = spine_vid(m, t, 0), m.fv[f][l] = spine_vid(m, t, 1)
      PROVE  \E i \in 1 .. Len(U) : f = U[i].f
  <2>1. PICK e \in Locals : ends(m, f, e) = {spine_vid(m, t, 0), spine_vid(m, t, 1)}
    <3>1. m.fv[f][k] # m.fv[f][l]
      BY <1>2, <1>3
    <3>2. \E e \in Locals : e # k /\ e # l /\ ends(m, f, e) = {m.fv[f][k], m.fv[f][l]}
      <4>1. \A i, j \in Locals : m.fv[f][i] # m.fv[f][j] =>
               \E e \in Locals : e # i /\ e # j /\ ends(m, f, e) = {m.fv[f][i], m.fv[f][j]}
        BY EdgeBetween
      <4> QED
        BY <3>1, <4>1
    <3> QED
      BY <1>3, <3>2
  <2>2. ends(m, t.f, t.e) = {spine_vid(m, t, 0), spine_vid(m, t, 1)}
    BY EndsPair, Places, SpineEnds DEF Sides
  <2>3. m.fe[f][e] = id_edge(m, t)
    <3>1. t.f \in faces(m) /\ t.e \in Locals /\ id_edge(m, t) = m.fe[t.f][t.e]
      BY Places DEF id_edge
    <3>2. m.fe[f][e] = m.fe[t.f][t.e] <=> ends(m, f, e) = ends(m, t.f, t.e)
      BY <3>1 DEF Manifold, EdgesAgree
    <3> QED
      BY <2>1, <2>2, <3>1, <3>2
  <2> QED
    BY <1>1, <2>3
<1> QED
  BY <1>1, <1>2, <1>3 DEF U

\* What get_incident_face_data gives of a tuple u of the fan.
LEMMA FaceData ==
    ASSUME NEW m, NEW u \in Tuples(m)
    PROVE  LET d == get_incident_face_data(m, u)
           IN  /\ d.f = u.f /\ d.opp = m.fv[u.f][u.e]
               /\ \A j \in Sides : d.ears[j] = Ear(m, u, j)
               /\ d.ears[0] = Ear(m, u, 0) /\ d.ears[1] = Ear(m, u, 1)
               /\ \A j \in Sides : d.ears[j].f = m.ff[u.f][pos(u, 1 - j)]
                                   /\ d.ears[j].e = m.fe[u.f][pos(u, 1 - j)]
<1> DEFINE d == get_incident_face_data(m, u)
<1>1. d.f = u.f /\ d.opp = m.fv[u.f][u.e]
  BY DEF get_incident_face_data
<1>2. \A j \in Sides : d.ears[j] = Ear(m, u, j)
  <2> SUFFICES ASSUME NEW j \in Sides PROVE d.ears[j] = Ear(m, u, j)
    OBVIOUS
  <2>1. d.ears[j] = [f |-> m.ff[u.f][IF j = 0 THEN third(u) ELSE u.v],
                     e |-> m.fe[u.f][IF j = 0 THEN third(u) ELSE u.v]]
    BY DEF get_incident_face_data
  <2>2. pos(u, 1 - j) = IF j = 0 THEN third(u) ELSE u.v
    BY DEF pos, Sides
  <2> QED
    BY <2>1, <2>2 DEF Ear
<1>3. 0 \in Sides /\ 1 \in Sides
  BY DEF Sides
<1>4. \A j \in Sides : d.ears[j].f = m.ff[u.f][pos(u, 1 - j)]
                       /\ d.ears[j].e = m.fe[u.f][pos(u, 1 - j)]
  <2> HIDE DEF d
  <2> SUFFICES ASSUME NEW j \in Sides
               PROVE  d.ears[j].f = m.ff[u.f][pos(u, 1 - j)] /\ d.ears[j].e = m.fe[u.f][pos(u, 1 - j)]
    OBVIOUS
  <2>1. d.ears[j] = Ear(m, u, j)
    BY <1>2
  <2>2. Ear(m, u, j).f = m.ff[u.f][pos(u, 1 - j)] /\ Ear(m, u, j).e = m.fe[u.f][pos(u, 1 - j)]
    BY DEF Ear
  <2> QED
    BY <2>1, <2>2
<1> HIDE DEF d
<1>5. d.ears[0] = Ear(m, u, 0) /\ d.ears[1] = Ear(m, u, 1)
  BY <1>2, <1>3
<1> QED
  BY <1>1, <1>2, <1>4, <1>5 DEF d

\* What the executor collects is the data of the incident faces, in their order.
LEMMA FanData ==
    ASSUME NEW m, Manifold(m), NEW t \in Tuples(m)
    PROVE  LET d == incident_face_datas(m, t)
           IN  /\ DOMAIN d = 1 .. Len(Fan(m, t)) /\ Len(d) = Len(Fan(m, t))
               /\ \A i \in 1 .. Len(Fan(m, t)) : d[i] = get_incident_face_data(m, Fan(m, t)[i])
<1>1. DOMAIN Fan(m, t) = 1 .. Len(Fan(m, t)) /\ Len(Fan(m, t)) \in Nat
  BY Incident DEF IsFan
<1>2. incident_face_datas(m, t)
        = [i \in 1 .. Len(Fan(m, t)) |-> get_incident_face_data(m, Fan(m, t)[i])]
  BY <1>1 DEF incident_face_datas, Fan
<1> QED
  BY <1>1, <1>2

\* The face behind an ear, the edge of the ear, and where that face has it.
behind(m, u, j) == m.ff[u.f][pos(u, 1 - j)]
ear(m, u, j)    == m.fe[u.f][pos(u, 1 - j)]
glue(m, u, j)   == index(m.ff[behind(m, u, j)], u.f)

\* The ear j of the incident face of u, and the face behind it.
IsEar(m, t, u, j) ==
    /\ u.f \in faces(m) /\ u.f \in Gone(m, t)
    /\ ear(m, u, j) \in edges(m) /\ ear(m, u, j) # id_edge(m, t)
    /\ behind(m, u, j) \in faces(m) \cup {Null}
    /\ behind(m, u, j) # Null =>
          /\ ~m.free /\ behind(m, u, j) \in faces(m) /\ behind(m, u, j) \notin Gone(m, t)
          /\ glue(m, u, j) \in Locals
          /\ m.ff[behind(m, u, j)][glue(m, u, j)] = u.f
          /\ m.fe[behind(m, u, j)][glue(m, u, j)] = ear(m, u, j)
          /\ \A k \in Locals : m.ff[behind(m, u, j)][k] = u.f => k = glue(m, u, j)
          /\ \A k \in Locals : m.fe[behind(m, u, j)][k] = ear(m, u, j) => k = glue(m, u, j)

\* The face behind an ear stays, and has the face that goes once, across the
\* edge of the ear.
LEMMA EarFaces ==
    ASSUME NEW m, Manifold(m), NEW t \in Tuples(m),
           NEW i \in 1 .. Len(Fan(m, t)), NEW j \in Sides
    PROVE  IsEar(m, t, Fan(m, t)[i], j)
<1> DEFINE U == Fan(m, t)
           u == U[i]
           p == pos(u, 1 - j)
           g == m.ff[u.f][p]
<1>0. IsFan(m, t, U)
  BY Incident
<1> HIDE DEF U
<1>1. u \in Tuples(m) /\ id_edge(m, u) = id_edge(m, t)
  BY <1>0 DEF IsFan, U
<1>2. u.f \in faces(m) /\ p \in Locals /\ p # u.e /\ u.e \in Locals
  BY <1>1, Places
<1>3. m.fe[u.f][p] \in edges(m) /\ g \in faces(m) \cup {Null}
  <2> HIDE DEF p, u
  <2> QED
    BY <1>2, Rows DEF Manifold
<1>4. m.fe[u.f][p] # id_edge(m, t)
  BY <1>1, <1>2, EdgeOnce DEF id_edge
<1>5. ASSUME g # Null
      PROVE  g \notin Gone(m, t)
  <2> SUFFICES ASSUME NEW l \in 1 .. Len(U), g = U[l].f
               PROVE  FALSE
    BY <1>0 DEF Gone, IsFan, U
  <2>1. g # u.f /\ \A k \in Locals : m.ff[u.f][k] = g => k = p
    BY <1>2, <1>5, MateOf
  <2>2. Len(U) = 2 /\ l = 3 - i
    <3>1. l # i /\ Len(U) \in {1, 2} /\ i \in 1 .. Len(U)
      BY <1>0, <2>1 DEF IsFan, U
    <3> QED
      BY <3>1
  <2>3. m.ff[u.f][u.e] = U[l].f
    BY <1>0, <2>2 DEF IsFan, U
  <2> QED
    BY <1>2, <2>1, <2>3
<1>6. ASSUME g # Null
      PROVE  \E k \in Locals : /\ m.ff[g][k] = u.f /\ m.fe[g][k] = m.fe[u.f][p]
                               /\ \A l \in Locals : m.ff[g][l] = u.f => l = k
                               /\ \A l \in Locals : m.fe[g][l] = m.fe[u.f][p] => l = k
                               /\ index(m.ff[g], u.f) = k
  <2> HIDE DEF p, u
  <2>1. g \in faces(m) /\ u.f # Null
    BY <1>2, <1>3, <1>6, Rows DEF Manifold
  <2>2. PICK k \in Locals : m.fe[g][k] = m.fe[u.f][p] /\ m.ff[g][k] = u.f
    BY <1>2, <1>6, MateOf
  <2> HIDE DEF g
  <2>3. \A l \in Locals : m.ff[g][l] = m.ff[g][k] => l = k
    BY <2>1, <2>2, MateOf
  <2>4. \A l \in Locals : m.fe[g][l] = m.fe[g][k] => l = k
    BY <2>1, <2>2, EdgeOnce
  <2>5. index(m.ff[g], u.f) = k
    BY <2>2, <2>3, IndexIs
  <2> QED
    BY <2>2, <2>3, <2>4, <2>5
<1>7. g # Null => ~m.free
  BY <1>2, MateOf
<1>8. u.f \in Gone(m, t)
  BY <1>0 DEF IsFan, Gone, U
<1>9. behind(m, u, j) = g /\ ear(m, u, j) = m.fe[u.f][p] /\ glue(m, u, j) = index(m.ff[g], u.f)
  BY DEF behind, ear, glue
<1> HIDE DEF g, p, u
<1>10. IsEar(m, t, u, j)
  BY <1>2, <1>3, <1>4, <1>5, <1>6, <1>7, <1>8, <1>9 DEF IsEar
<1> QED
  BY <1>10 DEF u, U

\* Each incident face has an ear at either end of the edge.
LEMMA Ears ==
    ASSUME NEW m, Manifold(m), NEW t \in Tuples(m)
    PROVE  \A i \in 1 .. Len(Fan(m, t)), j \in Sides : IsEar(m, t, Fan(m, t)[i], j)
BY EarFaces

\* The ears of the incident faces are different edges.
LEMMA EarsDiffer ==
    ASSUME NEW m, Manifold(m), NEW t \in Tuples(m),
           NEW i \in 1 .. Len(Fan(m, t)), NEW j \in Sides,
           NEW k \in 1 .. Len(Fan(m, t)), NEW l \in Sides,
           LET U == Fan(m, t)
           IN  m.fe[U[i].f][pos(U[i], 1 - j)] = m.fe[U[k].f][pos(U[k], 1 - l)]
    PROVE  i = k /\ j = l
<1> DEFINE U == Fan(m, t)
<1>0. IsFan(m, t, U)
  BY Incident
<1> HIDE DEF U
<1>1. /\ U[i] \in Tuples(m) /\ id_edge(m, U[i]) = id_edge(m, t)
      /\ U[k] \in Tuples(m) /\ id_edge(m, U[k]) = id_edge(m, t)
  BY <1>0 DEF IsFan, U
<1> DEFINE p == pos(U[i], 1 - j)
           q == pos(U[k], 1 - l)
<1>2. /\ U[i].f \in faces(m) /\ p \in Locals /\ p # U[i].e /\ U[i].e \in Locals
      /\ U[k].f \in faces(m) /\ q \in Locals /\ q # U[k].e /\ U[k].e \in Locals
  BY <1>1, Places
<1>3. m.fe[U[i].f][p] = m.fe[U[k].f][q]
  BY DEF U
<1>4. m.fe[U[i].f][U[i].e] = m.fe[U[k].f][U[k].e]
  BY <1>1 DEF id_edge
<1>5. U[i].f = U[k].f
  <2> HIDE DEF p, q
  <2> QED
    BY SMTT(20), <1>2, <1>3, <1>4, SharedEdges DEF Manifold
<1>6. i = k
  BY SMTT(20), <1>0, <1>5 DEF IsFan, U
<1>7. p = q
  <2> HIDE DEF p, q
  <2> QED
    BY <1>2, <1>3, <1>5, EdgeOnce
<1>8. j = l
  BY <1>1, <1>6, <1>7, Places DEF Sides
<1> QED
  BY <1>6, <1>8

\* Faces that share an edge with a face that goes: across the spine, or an ear.
LEMMA EarOrSpine ==
    ASSUME NEW m, NEW u \in Tuples(m), NEW k \in Locals
    PROVE  k = u.e \/ \E j \in Sides : k = pos(u, 1 - j)
<1>1. Locals = {u.e, pos(u, 1 - 0), pos(u, 0)} /\ 1 - 1 = 0 /\ 0 \in Sides /\ 1 \in Sides
  BY Places DEF Sides
<1> QED
  BY <1>1

-----------------------------------------------------------------------------
(* The executor's writes, one after the other.  In between the tables need *)
(* not fit each other, so this is only about their rows.                   *)

Tables(r) ==
    /\ Plain(r)
    /\ faces(r) \subseteq Nat
    /\ r.fv \in [faces(r) -> [Locals -> Int]]
    /\ r.fe \in [faces(r) -> [Locals -> Int]]
    /\ r.ff \in [faces(r) -> [Locals -> Int]]
    /\ r.vf \in [vertices(r) -> Int]
    /\ r.ef \in [edges(r) -> Int]

\* The rows of a well typed mesh fit the types of the writes.
LEMMA ManifoldTables ==
    ASSUME NEW m, Fields(m), Typed(m)
    PROVE  Tables(m)
<1>1. /\ faces(m) \subseteq Int /\ edges(m) \subseteq Int /\ vertices(m) \subseteq Int
      /\ faces(m) \cup {Null} \subseteq Int /\ faces(m) \subseteq Nat
  BY Rows DEF Null
<1>2. \A A, B, S : A \subseteq B => \A f \in [S -> [Locals -> A]] : f \in [S -> [Locals -> B]]
  OBVIOUS
<1>3. \A A, B, S : A \subseteq B => \A f \in [S -> A] : f \in [S -> B]
  OBVIOUS
<1> QED
  BY <1>1, <1>2, <1>3 DEF Tables, Fields, Typed

\* update_ids_in_ear writes one neighbour and one edge behind the ear, and the face
\* of the ear.
LEMMA UpdateEar ==
    ASSUME NEW r, Tables(r), NEW rim, rim.f \in faces(r) \cup {Null}, rim.e \in Int,
           rim.f # Null => rim.e \in edges(r),
           NEW new \in Int, NEW old, NEW k \in Locals,
           rim.f # Null => index(r.ff[rim.f], old) = k
    PROVE  LET u == update_ids_in_ear(r, rim, new, old)
           IN  /\ Tables(u) /\ u.free = r.free /\ u.cap = r.cap
               /\ u.fv = r.fv /\ u.vf = r.vf /\ DOMAIN u.ef = edges(r)
               /\ \A f \in faces(r), l \in Locals :
                     /\ u.ff[f][l] = IF f = rim.f /\ l = k THEN new ELSE r.ff[f][l]
                     /\ u.fe[f][l] = IF f = rim.f /\ l = k THEN rim.e ELSE r.fe[f][l]
               /\ \A e \in edges(r) : u.ef[e] = IF e = rim.e /\ rim.f # Null THEN rim.f ELSE r.ef[e]
<1> DEFINE u == update_ids_in_ear(r, rim, new, old)
<1>0. faces(r) \subseteq Nat /\ Null \notin faces(r) /\ k # Null
  BY DEF Tables, Null, Locals
<1>1. CASE rim.f = Null
  <2>1. rim.f < 0
    BY <1>1 DEF Null
  <2>2. u = r
    <3>1. u = IF rim.f < 0 THEN r ELSE IF index(r.ff[rim.f], old) = Null
              THEN [r EXCEPT !.ef[rim.e] = rim.f]
              ELSE glued(r, rim.f, index(r.ff[rim.f], old), new, rim.e)
      BY DEF update_ids_in_ear
    <3> HIDE DEF u
    <3> QED
      BY <2>1, <3>1
  <2> HIDE DEF u
  <2>3. \A f \in faces(r) : f # rim.f
    BY <1>0, <1>1
  <2> QED
    BY <1>1, <2>2, <2>3 DEF edges, u
<1>2. CASE rim.f # Null
  <2> DEFINE g == rim.f
  <2>1. g \in faces(r) /\ rim.e \in edges(r) /\ ~(g < 0)
    BY <1>0, <1>2
  <2>2. u = [r EXCEPT !.ff[g][k] = new, !.fe[g][k] = rim.e, !.ef[rim.e] = g]
    <3>1. index(r.ff[rim.f], old) = k /\ ~(k = Null)
      BY <1>0, <1>2
    <3>2. u = IF rim.f < 0 THEN r ELSE IF index(r.ff[rim.f], old) = Null
              THEN [r EXCEPT !.ef[rim.e] = rim.f]
              ELSE glued(r, rim.f, index(r.ff[rim.f], old), new, rim.e)
      BY DEF update_ids_in_ear
    <3> HIDE DEF u
    <3>3. u = glued(r, g, k, new, rim.e)
      BY <2>1, <3>1, <3>2
    <3> QED
      BY <3>3 DEF glued
  <2> HIDE DEF u, g
  <2>3. /\ Plain(u) /\ u.free = r.free /\ u.cap = r.cap /\ u.fv = r.fv /\ u.vf = r.vf
        /\ u.fe = [r.fe EXCEPT ![g][k] = rim.e] /\ u.ff = [r.ff EXCEPT ![g][k] = new]
        /\ u.ef = [r.ef EXCEPT ![rim.e] = g]
    <3>1. r = [a \in Attributes |-> r[a]]
      BY DEF Tables, Plain
    <3> QED
      BY <2>2, <3>1 DEF Attributes, Plain
  <2>4. /\ r.fe \in [faces(r) -> [Locals -> Int]] /\ r.ff \in [faces(r) -> [Locals -> Int]]
        /\ r.fv \in [faces(r) -> [Locals -> Int]] /\ r.vf \in [vertices(r) -> Int]
        /\ r.ef \in [edges(r) -> Int]
    BY DEF Tables
  <2>5. /\ [r.fe EXCEPT ![g][k] = rim.e] \in [faces(r) -> [Locals -> Int]]
        /\ [r.ff EXCEPT ![g][k] = new] \in [faces(r) -> [Locals -> Int]]
    BY <2>1, <2>4
  <2>6. [r.ef EXCEPT ![rim.e] = g] \in [edges(r) -> Int]
    BY <1>0, <2>1, <2>4
  <2>7. Tables(u)
    BY <1>0, <2>3, <2>4, <2>5, <2>6 DEF Tables, faces, edges, vertices
  <2>8. \A f \in faces(r), l \in Locals :
           /\ u.ff[f][l] = IF f = g /\ l = k THEN new ELSE r.ff[f][l]
           /\ u.fe[f][l] = IF f = g /\ l = k THEN rim.e ELSE r.fe[f][l]
    BY <2>1, <2>3, <2>4
  <2>9. \A e \in edges(r) : u.ef[e] = IF e = rim.e THEN g ELSE r.ef[e]
    BY <2>3, <2>4
  <2> QED
    <3>1. DOMAIN u.ef = edges(r)
      BY <2>3, <2>6
    <3> QED
      BY <1>2, <2>3, <2>7, <2>8, <2>9, <3>1 DEF g, u
<1> QED
  BY <1>1, <1>2

IsFilled(u, r, p, h, e, s, v) ==
    /\ Tables(u) /\ u.free = r.free /\ u.cap = r.cap
    /\ faces(u) = faces(r) \cup {p} /\ edges(u) = edges(r) \cup {s}
    /\ vertices(u) = vertices(r)
    /\ u.fv[p] = h.fv /\ u.fe[p] = h.fe /\ u.ff[p] = h.ff
    /\ \A f \in faces(r) : f # p => /\ u.fv[f] = r.fv[f] /\ u.fe[f] = r.fe[f]
                                    /\ u.ff[f] = r.ff[f]
    /\ u.ef[s] = p /\ \A i \in edges(r) : i # s => u.ef[i] = IF i = e THEN p ELSE r.ef[i]
    /\ \A i \in vertices(r) : u.vf[i] = IF i = v THEN p ELSE r.vf[i]

\* filled adds a face with its row, and changes the face of one edge and one vertex.
LEMMA Filled ==
    ASSUME NEW r, Tables(r), NEW p \in Nat, NEW h, NEW e \in edges(r), NEW s \in Int,
           NEW v \in vertices(r),
           h.fv \in [Locals -> Int], h.fe \in [Locals -> Int], h.ff \in [Locals -> Int]
    PROVE  IsFilled(filled(r, p, h, e, s, v), r, p, h, e, s, v)
<1> DEFINE u == filled(r, p, h, e, s, v)
           ef1 == [r.ef EXCEPT ![e] = p]
<1>1. /\ Plain(u) /\ u.free = r.free /\ u.cap = r.cap
      /\ u.fv = put(r.fv, p, h.fv) /\ u.fe = put(r.fe, p, h.fe) /\ u.ff = put(r.ff, p, h.ff)
      /\ u.vf = [r.vf EXCEPT ![v] = p] /\ u.ef = put(ef1, s, p)
  <2>1. r = [a \in Attributes |-> r[a]]
    BY DEF Tables, Plain
  <2>2. u = [r EXCEPT !.fv = put(r.fv, p, h.fv), !.fe = put(r.fe, p, h.fe),
                      !.ff = put(r.ff, p, h.ff),
                      !.ef = put(ef1, s, p), !.vf = [r.vf EXCEPT ![v] = p]]
    BY <2>1 DEF filled, Attributes
  <2> HIDE DEF u, ef1
  <2> QED
    BY <2>1, <2>2 DEF Attributes, Plain
<1>2. /\ r.fe \in [faces(r) -> [Locals -> Int]] /\ r.ff \in [faces(r) -> [Locals -> Int]]
      /\ r.fv \in [faces(r) -> [Locals -> Int]] /\ r.vf \in [vertices(r) -> Int]
      /\ r.ef \in [edges(r) -> Int] /\ faces(r) \subseteq Nat
  BY DEF Tables
<1>3. /\ ef1 \in [edges(r) -> Int] /\ [r.vf EXCEPT ![v] = p] \in [vertices(r) -> Int]
      /\ \A i \in edges(r) : ef1[i] = IF i = e THEN p ELSE r.ef[i]
      /\ \A i \in vertices(r) : [r.vf EXCEPT ![v] = p][i] = IF i = v THEN p ELSE r.vf[i]
  BY <1>2
<1>4a. /\ put(r.fv, p, h.fv) \in [faces(r) \cup {p} -> [Locals -> Int]]
      /\ put(r.fv, p, h.fv)[p] = h.fv
      /\ \A i \in faces(r) : i # p => put(r.fv, p, h.fv)[i] = r.fv[i]
  BY <1>2 DEF put
<1>4b. /\ put(r.fe, p, h.fe) \in [faces(r) \cup {p} -> [Locals -> Int]]
      /\ put(r.fe, p, h.fe)[p] = h.fe
      /\ \A i \in faces(r) : i # p => put(r.fe, p, h.fe)[i] = r.fe[i]
  BY <1>2 DEF put
<1>4c. /\ put(r.ff, p, h.ff) \in [faces(r) \cup {p} -> [Locals -> Int]]
      /\ put(r.ff, p, h.ff)[p] = h.ff
      /\ \A i \in faces(r) : i # p => put(r.ff, p, h.ff)[i] = r.ff[i]
  BY <1>2 DEF put
<1>5. /\ put(ef1, s, p) \in [edges(r) \cup {s} -> Int] /\ put(ef1, s, p)[s] = p
      /\ \A i \in edges(r) : i # s => put(ef1, s, p)[i] = ef1[i]
  <2> HIDE DEF ef1
  <2> QED
    BY <1>3 DEF put
<1> HIDE DEF u, ef1
<1>6. /\ u.fv \in [faces(r) \cup {p} -> [Locals -> Int]]
      /\ u.fe \in [faces(r) \cup {p} -> [Locals -> Int]]
      /\ u.ff \in [faces(r) \cup {p} -> [Locals -> Int]]
      /\ u.vf \in [vertices(r) -> Int] /\ u.ef \in [edges(r) \cup {s} -> Int]
  <2>1. /\ u.fv \in [faces(r) \cup {p} -> [Locals -> Int]]
        /\ u.fe \in [faces(r) \cup {p} -> [Locals -> Int]]
        /\ u.ff \in [faces(r) \cup {p} -> [Locals -> Int]]
    BY <1>1, <1>2, <1>4a, <1>4b, <1>4c
  <2>2. u.vf \in [vertices(r) -> Int] /\ u.ef \in [edges(r) \cup {s} -> Int]
    BY <1>1, <1>3, <1>5
  <2> QED
    BY <2>1, <2>2
<1>7. faces(u) = faces(r) \cup {p} /\ edges(u) = edges(r) \cup {s} /\ vertices(u) = vertices(r)
  BY <1>6 DEF faces, edges, vertices
<1>8. faces(r) \cup {p} \subseteq Nat
  BY <1>2
<1>9. Tables(u)
  BY <1>1, <1>6, <1>7, <1>8 DEF Tables
<1>10. /\ u.fv[p] = h.fv /\ u.fe[p] = h.fe /\ u.ff[p] = h.ff
       /\ \A f \in faces(r) : f # p => /\ u.fv[f] = r.fv[f] /\ u.fe[f] = r.fe[f]
                                       /\ u.ff[f] = r.ff[f]
  BY <1>1, <1>2, <1>4a, <1>4b, <1>4c
<1>11. /\ u.ef[s] = p /\ \A i \in edges(r) : i # s => u.ef[i] = IF i = e THEN p ELSE r.ef[i]
       /\ \A i \in vertices(r) : u.vf[i] = IF i = v THEN p ELSE r.vf[i]
  BY <1>1, <1>3, <1>5
<1>12. u.free = r.free /\ u.cap = r.cap
  BY <1>1
<1> QED
  <2>1. IsFilled(u, r, p, h, e, s, v)
    BY <1>7, <1>9, <1>10, <1>11, <1>12 DEF IsFilled
  <2> QED
    BY <2>1 DEF u

-----------------------------------------------------------------------------
(* Split: the two halves of one incident face.                             *)

\* The half j, of the i-th incident face d, is written into a.
with_half(m, t, n, d, i, a, j) ==
    filled(update_ids_in_ear(a, d.ears[j], split_f(m, i, j), d.f), split_f(m, i, j),
           half(m, n, t, d, i, j), d.ears[j].e, split_spine_eid(m, j), spine_vid(m, t, j))

\* r is a with the half j in it: the row h at p, named for the ear, the spine s
\* and the end v; the face behind the ear names it at its local edge k.
HasHalf(r, a, p, h, rim, s, v, k) ==
    /\ Tables(r) /\ r.free = a.free /\ r.cap = a.cap
    /\ faces(r) = faces(a) \cup {p} /\ edges(r) = edges(a) \cup {s}
    /\ vertices(r) = vertices(a)
    /\ r.fv[p] = h.fv /\ r.fe[p] = h.fe /\ r.ff[p] = h.ff
    /\ \A f \in faces(a) :
          /\ r.fv[f] = a.fv[f]
          /\ \A l \in Locals :
                /\ r.fe[f][l] = IF f = rim.f /\ l = k THEN rim.e ELSE a.fe[f][l]
                /\ r.ff[f][l] = IF f = rim.f /\ l = k THEN p ELSE a.ff[f][l]
          /\ f # rim.f => r.fe[f] = a.fe[f] /\ r.ff[f] = a.ff[f]
    /\ r.ef[s] = p
    /\ \A e \in edges(a) : e # s => r.ef[e] = IF e = rim.e THEN p ELSE a.ef[e]
    /\ \A x \in vertices(a) : r.vf[x] = IF x = v THEN p ELSE a.vf[x]

\* with_half updates the ear of one half, and adds that half.
LEMMA WithHalf ==
    ASSUME NEW m, NEW t, NEW n, NEW d, NEW i, NEW j, NEW a, Tables(a),
           NEW p, p \in Nat, p = split_f(m, i, j), p \notin faces(a),
           NEW h, h = half(m, n, t, d, i, j),
           h.fv \in [Locals -> Int], h.fe \in [Locals -> Int], h.ff \in [Locals -> Int],
           NEW rim, rim = d.ears[j], rim.f \in faces(a) \cup {Null}, rim.e \in edges(a),
           rim.e \in Int,
           NEW s, s \in Int, s = split_spine_eid(m, j),
           NEW v, v \in vertices(a), v = spine_vid(m, t, j),
           NEW k \in Locals, rim.f # Null => index(a.ff[rim.f], d.f) = k
    PROVE  HasHalf(with_half(m, t, n, d, i, a, j), a, p, h, rim, s, v, k)
<1> DEFINE b == update_ids_in_ear(a, rim, p, d.f)
           r == filled(b, p, h, rim.e, s, v)
<1>1. with_half(m, t, n, d, i, a, j) = r
  BY DEF with_half
<1>2. /\ Tables(b) /\ b.free = a.free /\ b.cap = a.cap
      /\ b.fv = a.fv /\ b.vf = a.vf /\ DOMAIN b.ef = edges(a)
      /\ \A f \in faces(a), l \in Locals :
            /\ b.ff[f][l] = IF f = rim.f /\ l = k THEN p ELSE a.ff[f][l]
            /\ b.fe[f][l] = IF f = rim.f /\ l = k THEN rim.e ELSE a.fe[f][l]
      /\ \A e \in edges(a) : b.ef[e] = IF e = rim.e /\ rim.f # Null THEN rim.f ELSE a.ef[e]
  <2>1. p \in Int
    OBVIOUS
  <2> QED
    BY SMTT(20), <2>1, UpdateEar
<1> HIDE DEF b
<1>3. faces(b) = faces(a) /\ edges(b) = edges(a) /\ vertices(b) = vertices(a)
  BY <1>2 DEF faces, edges, vertices
<1>4. /\ Tables(r) /\ r.free = b.free /\ r.cap = b.cap
      /\ faces(r) = faces(b) \cup {p} /\ edges(r) = edges(b) \cup {s}
      /\ vertices(r) = vertices(b)
      /\ r.fv[p] = h.fv /\ r.fe[p] = h.fe /\ r.ff[p] = h.ff
      /\ \A f \in faces(b) : f # p => /\ r.fv[f] = b.fv[f] /\ r.fe[f] = b.fe[f]
                                      /\ r.ff[f] = b.ff[f]
      /\ r.ef[s] = p /\ \A x \in edges(b) : x # s => r.ef[x] = IF x = rim.e THEN p ELSE b.ef[x]
      /\ \A x \in vertices(b) : r.vf[x] = IF x = v THEN p ELSE b.vf[x]
  <2>1. /\ Tables(b) /\ p \in Nat /\ rim.e \in edges(b) /\ s \in Int /\ v \in vertices(b)
        /\ h.fv \in [Locals -> Int] /\ h.fe \in [Locals -> Int] /\ h.ff \in [Locals -> Int]
    BY <1>2, <1>3
  <2>2. IsFilled(r, b, p, h, rim.e, s, v)
    BY <2>1, Filled
  <2> HIDE DEF r
  <2> QED
    BY <2>2 DEF IsFilled
<1> HIDE DEF r
<1>5. ASSUME NEW f \in faces(a)
      PROVE  /\ r.fv[f] = a.fv[f]
             /\ \A l \in Locals :
                   /\ r.fe[f][l] = IF f = rim.f /\ l = k THEN rim.e ELSE a.fe[f][l]
                   /\ r.ff[f][l] = IF f = rim.f /\ l = k THEN p ELSE a.ff[f][l]
             /\ f # rim.f => r.fe[f] = a.fe[f] /\ r.ff[f] = a.ff[f]
  <2>1. f # p /\ r.fv[f] = a.fv[f] /\ r.fe[f] = b.fe[f] /\ r.ff[f] = b.ff[f]
    BY <1>2, <1>3, <1>4
  <2>2. /\ b.fe[f] \in [Locals -> Int] /\ b.ff[f] \in [Locals -> Int]
        /\ a.fe[f] \in [Locals -> Int] /\ a.ff[f] \in [Locals -> Int]
    BY <1>2, <1>3 DEF Tables
  <2>3. ASSUME f # rim.f
        PROVE  b.fe[f] = a.fe[f] /\ b.ff[f] = a.ff[f]
    <3>1. \A l \in Locals : b.fe[f][l] = a.fe[f][l] /\ b.ff[f][l] = a.ff[f][l]
      BY <1>2, <2>3
    <3> QED
      BY <2>2, <3>1
  <2> QED
    BY <1>2, <2>1, <2>3
<1>6. \A e \in edges(a) : e # s => r.ef[e] = IF e = rim.e THEN p ELSE a.ef[e]
  BY <1>2, <1>3, <1>4
<1>7. \A x \in vertices(a) : r.vf[x] = IF x = v THEN p ELSE a.vf[x]
  BY <1>2, <1>3, <1>4
<1>8. HasHalf(r, a, p, h, rim, s, v, k)
  BY <1>2, <1>3, <1>4, <1>5, <1>6, <1>7 DEF HasHalf
<1> QED
  BY <1>1, <1>8 DEF r, b

\* The rows of the half j of the i-th incident face, that of u.
IsHalf(h, m, i, j, u) ==
    /\ h.fv = [k \in Locals |->
          IF k = pos(u, 1 - j) THEN (IF m.free THEN free_split_v(m, j) ELSE split_new_vid(m))
          ELSE IF m.free /\ j = 1 /\ k = u.e THEN split_new_vid(m)
          ELSE m.fv[u.f][k]]
    /\ h.fe = [k \in Locals |->
          IF k = pos(u, j) THEN (IF m.free THEN free_split_e(m, j) ELSE rib_eid(m, i))
          ELSE IF k = u.e THEN split_spine_eid(m, j) ELSE m.fe[u.f][k]]
    /\ h.ff = [k \in Locals |->
          IF k = pos(u, j) /\ ~m.free THEN split_f(m, i, 1 - j) ELSE m.ff[u.f][k]]

\* The rows that half computes are those of IsHalf.
LEMMA HalfRows ==
    ASSUME NEW m, Manifold(m), NEW t \in Tuples(m), NEW i \in 1 .. Len(Fan(m, t)),
           NEW j \in Sides, NEW u, u = Fan(m, t)[i], NEW n,
           n.fv[u.f] = m.fv[u.f], n.fe[u.f] = m.fe[u.f], n.ff[u.f] = m.ff[u.f]
    PROVE  IsHalf(half(m, n, t, get_incident_face_data(m, u), i, j), m, i, j, u)
<1> DEFINE d == get_incident_face_data(m, u)
           h == half(m, n, t, d, i, j)
<1>1. u \in Tuples(m) /\ id_edge(m, u) = id_edge(m, t)
      /\ \A l \in Sides : m.fv[u.f][pos(u, l)] = spine_vid(m, t, l)
  BY SMTT(20), Incident DEF IsFan
<1>2. d.f = u.f /\ d.opp = m.fv[u.f][u.e] /\ d.ears[1 - j].e = m.fe[u.f][pos(u, j)]
  <2>1. \A l \in Sides : d.ears[l].e = m.fe[u.f][pos(u, 1 - l)]
    BY <1>1, FaceData
  <2>2. 1 - j \in Sides /\ 1 - (1 - j) = j
    BY DEF Sides
  <2>3. d.f = u.f /\ d.opp = m.fv[u.f][u.e]
    BY <1>1, FaceData
  <2> HIDE DEF d
  <2> QED
    BY <2>1, <2>2, <2>3
<1>3. /\ pos(u, j) \in Locals /\ pos(u, 1 - j) \in Locals /\ u.e \in Locals /\ u.f \in faces(m)
      /\ 1 - j \in Sides
  BY <1>1, Places
<1>4. \A k \in Locals : /\ m.fe[u.f][k] = d.ears[1 - j].e <=> k = pos(u, j)
                        /\ m.fe[u.f][k] = id_edge(m, t) <=> k = u.e
                        /\ m.fv[u.f][k] = spine_vid(m, t, 1 - j) <=> k = pos(u, 1 - j)
                        /\ m.fv[u.f][k] = d.opp <=> k = u.e
  <2> HIDE DEF d
  <2>1. \A k, l \in Locals : (m.fe[u.f][k] = m.fe[u.f][l] <=> k = l)
                             /\ (m.fv[u.f][k] = m.fv[u.f][l] <=> k = l)
    <3>1. \A k, l \in Locals : m.fe[u.f][k] = m.fe[u.f][l] => k = l
      BY <1>3, EdgeOnce
    <3>2. \A k, l \in Locals : m.fv[u.f][k] = m.fv[u.f][l] => k = l
      BY <1>3 DEF Manifold, Corners
    <3> QED
      BY <3>1, <3>2
  <2>2. id_edge(m, t) = m.fe[u.f][u.e]
    BY <1>1 DEF id_edge
  <2>3. m.fv[u.f][pos(u, 1 - j)] = spine_vid(m, t, 1 - j)
    BY <1>1, <1>3
  <2>4. ASSUME NEW k \in Locals
        PROVE  /\ m.fe[u.f][k] = m.fe[u.f][pos(u, j)] <=> k = pos(u, j)
               /\ m.fe[u.f][k] = m.fe[u.f][u.e] <=> k = u.e
               /\ m.fv[u.f][k] = m.fv[u.f][pos(u, 1 - j)] <=> k = pos(u, 1 - j)
               /\ m.fv[u.f][k] = m.fv[u.f][u.e] <=> k = u.e
    BY ONLY k \in Locals, <1>3, <2>1
  <2> QED
    BY ONLY <1>2, <2>2, <2>3, <2>4
<1>5. /\ h.fe = [k \in Locals |->
                    IF m.fe[u.f][k] = d.ears[1 - j].e
                    THEN (IF m.free THEN free_split_e(m, j) ELSE rib_eid(m, i))
                    ELSE IF m.fe[u.f][k] = id_edge(m, t) THEN split_spine_eid(m, j)
                    ELSE m.fe[u.f][k]]
      /\ h.ff = [k \in Locals |-> IF m.fe[u.f][k] = d.ears[1 - j].e /\ ~m.free
                                  THEN split_f(m, i, 1 - j) ELSE m.ff[u.f][k]]
      /\ h.fv = [k \in Locals |->
                    IF m.fv[u.f][k] = spine_vid(m, t, 1 - j)
                    THEN (IF m.free THEN free_split_v(m, j) ELSE split_new_vid(m))
                    ELSE IF m.free /\ j = 1 /\ m.fv[u.f][k] = d.opp THEN split_new_vid(m)
                    ELSE m.fv[u.f][k]]
  <2>1. n.fv[d.f] = m.fv[u.f] /\ n.fe[d.f] = m.fe[u.f] /\ n.ff[d.f] = m.ff[u.f]
    BY <1>2
  <2> HIDE DEF d
  <2>2. h.fe = [k \in Locals |->
                    IF n.fe[d.f][k] = d.ears[1 - j].e
                    THEN (IF m.free THEN free_split_e(m, j) ELSE rib_eid(m, i))
                    ELSE IF n.fe[d.f][k] = id_edge(m, t) THEN split_spine_eid(m, j)
                    ELSE n.fe[d.f][k]]
    BY Zenon DEF half
  <2>3. h.ff = [k \in Locals |-> IF n.fe[d.f][k] = d.ears[1 - j].e /\ ~m.free
                                 THEN split_f(m, i, 1 - j) ELSE n.ff[d.f][k]]
    BY Zenon DEF half
  <2>4. h.fv = [k \in Locals |->
                    IF n.fv[d.f][k] = spine_vid(m, t, 1 - j)
                    THEN (IF m.free THEN free_split_v(m, j) ELSE split_new_vid(m))
                    ELSE IF m.free /\ j = 1 /\ n.fv[d.f][k] = d.opp THEN split_new_vid(m)
                    ELSE n.fv[d.f][k]]
    BY Zenon DEF half
  <2> HIDE DEF h
  <2> DEFINE fe == n.fe[d.f]
             ff == n.ff[d.f]
             fv == n.fv[d.f]
  <2> HIDE DEF fe, ff, fv
  <2>5. fe = m.fe[u.f] /\ ff = m.ff[u.f] /\ fv = m.fv[u.f]
    BY <2>1 DEF fe, ff, fv
  <2>6. /\ h.fe = [k \in Locals |->
                    IF fe[k] = d.ears[1 - j].e
                    THEN (IF m.free THEN free_split_e(m, j) ELSE rib_eid(m, i))
                    ELSE IF fe[k] = id_edge(m, t) THEN split_spine_eid(m, j) ELSE fe[k]]
        /\ h.ff = [k \in Locals |-> IF fe[k] = d.ears[1 - j].e /\ ~m.free
                                    THEN split_f(m, i, 1 - j) ELSE ff[k]]
        /\ h.fv = [k \in Locals |->
                    IF fv[k] = spine_vid(m, t, 1 - j)
                    THEN (IF m.free THEN free_split_v(m, j) ELSE split_new_vid(m))
                    ELSE IF m.free /\ j = 1 /\ fv[k] = d.opp THEN split_new_vid(m) ELSE fv[k]]
    BY <2>2, <2>3, <2>4, Zenon DEF fe, ff, fv
  <2> QED
    BY <2>5, <2>6, Zenon
<1> HIDE DEF h, d
<1>6. h.fv = [k \in Locals |->
                     IF k = pos(u, 1 - j)
                     THEN (IF m.free THEN free_split_v(m, j) ELSE split_new_vid(m))
                     ELSE IF m.free /\ j = 1 /\ k = u.e THEN split_new_vid(m)
                     ELSE m.fv[u.f][k]]
  BY <1>4, <1>5
<1>7. h.fe = [k \in Locals |->
                     IF k = pos(u, j) THEN (IF m.free THEN free_split_e(m, j) ELSE rib_eid(m, i))
                     ELSE IF k = u.e THEN split_spine_eid(m, j) ELSE m.fe[u.f][k]]
  BY <1>4, <1>5
<1>8. h.ff = [k \in Locals |->
                     IF k = pos(u, j) /\ ~m.free THEN split_f(m, i, 1 - j) ELSE m.ff[u.f][k]]
  BY <1>4, <1>5
<1> QED
  BY <1>6, <1>7, <1>8 DEF h, d, IsHalf

\* The i-th incident face, that of u, is replaced by its halves: r is n with
\* them.  The faces behind the ears have the halves across the ears.
NewVertices(m) ==
    {split_new_vid(m)} \cup (IF m.free THEN {free_split_v(m, j) : j \in Sides} ELSE {})
NewEdges(m, i) ==
    {split_spine_eid(m, j) : j \in Sides}
        \cup (IF m.free THEN {free_split_e(m, j) : j \in Sides} ELSE {rib_eid(m, i)})
Replaced(r, n, m, t, i, u) ==
    LET p(j) == split_f(m, i, j)
        d == get_incident_face_data(m, u)
    IN  /\ Tables(r) /\ r.free = n.free /\ r.cap = n.cap
        /\ faces(r) = faces(n) \cup {p(0), p(1)}
        /\ vertices(r) = vertices(n) \cup NewVertices(m)
        /\ edges(r) = edges(n) \cup NewEdges(m, i)
        /\ \A j \in Sides : /\ r.fv[p(j)] = half(m, n, t, d, i, j).fv
                            /\ r.fe[p(j)] = half(m, n, t, d, i, j).fe
                            /\ r.ff[p(j)] = half(m, n, t, d, i, j).ff
        /\ \A f \in faces(n) :
              /\ r.fv[f] = n.fv[f] /\ r.fe[f] = n.fe[f]
              /\ \A l \in Locals :
                    r.ff[f][l] = IF f = behind(m, u, 0) /\ l = glue(m, u, 0) THEN p(0)
                                 ELSE IF f = behind(m, u, 1) /\ l = glue(m, u, 1) THEN p(1)
                                 ELSE n.ff[f][l]
        /\ \A j \in Sides : /\ r.ef[split_spine_eid(m, j)] = p(j) /\ r.ef[ear(m, u, j)] = p(j)
                            /\ m.free => r.ef[free_split_e(m, j)] = p(j)
                            /\ m.free => r.vf[free_split_v(m, j)] = p(j)
                            /\ r.vf[spine_vid(m, t, j)] = p(j)
        /\ ~m.free => r.ef[rib_eid(m, i)] = p(0)
        /\ r.vf[m.fv[u.f][u.e]] = p(0)
        /\ r.vf[split_new_vid(m)] = IF m.free THEN p(1) ELSE p(0)
        /\ \A e \in edges(n) : e \notin NewEdges(m, i) /\ e # ear(m, u, 0) /\ e # ear(m, u, 1)
                                  => r.ef[e] = n.ef[e]
        /\ \A v \in vertices(n) :
              v \notin NewVertices(m) /\ v # m.fv[u.f][u.e] /\ v # spine_vid(m, t, 0)
                  /\ v # spine_vid(m, t, 1) => r.vf[v] = n.vf[v]

\* Before: the i-th face is as it was, and its ears too.
Before(n, m, i, u) ==
    /\ Tables(n)
    /\ faces(m) \subseteq faces(n) /\ edges(m) \subseteq edges(n) /\ vertices(m) \subseteq vertices(n)
    /\ n.fv[u.f] = m.fv[u.f] /\ n.fe[u.f] = m.fe[u.f] /\ n.ff[u.f] = m.ff[u.f]
    /\ \A j \in Sides : behind(m, u, j) # Null =>
          /\ index(n.ff[behind(m, u, j)], u.f) = glue(m, u, j)
          /\ n.fe[behind(m, u, j)][glue(m, u, j)] = ear(m, u, j)
    /\ split_f(m, i, 0) \notin faces(n) /\ split_f(m, i, 1) \notin faces(n)

\* The ids that are requested are new and differ.
LEMMA NewIds ==
    ASSUME NEW m, Fields(m), Typed(m), NEW i \in {1, 2}
    PROVE  /\ \A j \in Sides :
                 /\ split_f(m, i, j) \in Nat /\ split_f(m, i, j) \notin faces(m)
                 /\ split_spine_eid(m, j) \in Nat /\ split_spine_eid(m, j) \notin edges(m)
                 /\ free_split_v(m, j) \in Nat /\ free_split_v(m, j) \notin vertices(m)
                 /\ free_split_e(m, j) \in Nat /\ free_split_e(m, j) \notin edges(m)
                 /\ free_split_v(m, j) # split_new_vid(m)
                 /\ \A l \in Sides : /\ split_spine_eid(m, j) # rib_eid(m, i)
                                     /\ split_spine_eid(m, j) # free_split_e(m, l)
           /\ split_new_vid(m) \in Nat /\ split_new_vid(m) \notin vertices(m)
           /\ rib_eid(m, i) \in Nat /\ rib_eid(m, i) \notin edges(m)
           /\ split_f(m, i, 0) # split_f(m, i, 1)
           /\ split_spine_eid(m, 0) # split_spine_eid(m, 1)
           /\ free_split_v(m, 0) # free_split_v(m, 1)
           /\ free_split_e(m, 0) # free_split_e(m, 1)
<1>1. /\ m.cap.v \in Nat /\ m.cap.e \in Nat /\ m.cap.f \in Nat
      /\ \A f \in faces(m) : f < m.cap.f
      /\ \A e \in edges(m) : e < m.cap.e
      /\ \A v \in vertices(m) : v < m.cap.v
  BY DEF Fields, Typed
<1>2. \A j \in Sides : j = 0 \/ j = 1
  BY DEF Sides
<1>3. \A j \in Sides : /\ split_f(m, i, j) \in Nat /\ split_f(m, i, j) >= m.cap.f
                       /\ split_spine_eid(m, j) \in Nat /\ split_spine_eid(m, j) >= m.cap.e
                       /\ free_split_v(m, j) \in Nat /\ free_split_v(m, j) >= m.cap.v
                       /\ free_split_e(m, j) \in Nat /\ free_split_e(m, j) >= m.cap.e
  BY <1>1, <1>2 DEF split_f, split_spine_eid, free_split_v, free_split_e
<1>4. /\ split_new_vid(m) \in Nat /\ split_new_vid(m) >= m.cap.v
      /\ rib_eid(m, i) \in Nat /\ rib_eid(m, i) >= m.cap.e
  BY <1>1 DEF split_new_vid, rib_eid
<1>5. \A j \in Sides : /\ free_split_v(m, j) # split_new_vid(m)
                       /\ \A l \in Sides : /\ split_spine_eid(m, j) # rib_eid(m, i)
                                           /\ split_spine_eid(m, j) # free_split_e(m, l)
  BY <1>1, <1>2 DEF free_split_v, split_new_vid, split_spine_eid, rib_eid, free_split_e
<1>6. /\ split_f(m, i, 0) # split_f(m, i, 1)
      /\ split_spine_eid(m, 0) # split_spine_eid(m, 1)
      /\ free_split_v(m, 0) # free_split_v(m, 1)
      /\ free_split_e(m, 0) # free_split_e(m, 1)
  BY <1>1 DEF split_f, split_spine_eid, free_split_v, free_split_e
<1>7. /\ \A x \in Nat : x >= m.cap.f => x \notin faces(m)
      /\ \A x \in Nat : x >= m.cap.e => x \notin edges(m)
      /\ \A x \in Nat : x >= m.cap.v => x \notin vertices(m)
  BY <1>1
<1> QED
  BY <1>3, <1>4, <1>5, <1>6, <1>7

\* g is f with y at x.
IsPut(g, f, S, x, y) ==
    /\ g \in [S \cup {x} -> Int] /\ g[x] = y
    /\ \A z \in S : z # x => g[z] = f[z]

\* put changes a function at one argument, or adds it.
LEMMA PutIs ==
    ASSUME NEW S, NEW f, f \in [S -> Int], NEW x, NEW y, y \in Int
    PROVE  IsPut(put(f, x, y), f, S, x, y)
BY DEF put, IsPut

\* replace_incident_face puts two halves in the place of an incident face.
LEMMA ReplaceFace ==
    ASSUME NEW m, Manifold(m), NEW t \in Tuples(m), NEW i \in 1 .. Len(Fan(m, t)),
           NEW u, u = Fan(m, t)[i], NEW n, Before(n, m, i, u), n.free = m.free
    PROVE  Replaced(replace_incident_face(m, t, n, get_incident_face_data(m, u), i), n, m, t, i, u)
<1> DEFINE d == get_incident_face_data(m, u)
           p(j) == split_f(m, i, j)
           h(j) == half(m, n, t, d, i, j)
           s(j) == split_spine_eid(m, j)
           v(j) == spine_vid(m, t, j)
           k(j) == IF behind(m, u, j) = Null THEN 0 ELSE glue(m, u, j)
           r0 == with_half(m, t, n, d, i, n, 0)
           r1 == with_half(m, t, n, d, i, r0, 1)
<1>1. /\ u \in Tuples(m) /\ id_edge(m, u) = id_edge(m, t) /\ i \in {1, 2}
      /\ \A j \in Sides : m.fv[u.f][pos(u, j)] = spine_vid(m, t, j)
  BY Incident DEF IsFan
<1>2. /\ u.f \in faces(m) /\ u.e \in Locals
      /\ \A j \in Sides : pos(u, j) \in Locals /\ 1 - j \in Sides /\ 1 - (1 - j) = j
      /\ 0 \in Sides /\ 1 \in Sides
  BY <1>1, Places DEF Sides
<1>3. /\ d.f = u.f /\ d.opp = m.fv[u.f][u.e]
      /\ \A j \in Sides : d.ears[j].f = behind(m, u, j) /\ d.ears[j].e = ear(m, u, j)
  BY <1>1, FaceData DEF behind, ear
<1> HIDE DEF d
<1>4. \A j \in Sides : /\ behind(m, u, j) \in faces(m) \cup {Null} /\ ear(m, u, j) \in edges(m)
                       /\ v(j) \in vertices(m)
                       /\ behind(m, u, j) # Null => glue(m, u, j) \in Locals
  <2> SUFFICES ASSUME NEW j \in Sides
               PROVE  /\ behind(m, u, j) \in faces(m) \cup {Null} /\ ear(m, u, j) \in edges(m)
                      /\ v(j) \in vertices(m)
                      /\ behind(m, u, j) # Null => glue(m, u, j) \in Locals
    OBVIOUS
  <2>1. /\ behind(m, u, j) \in faces(m) \cup {Null} /\ ear(m, u, j) \in edges(m)
        /\ behind(m, u, j) # Null => glue(m, u, j) \in Locals
    BY Ears DEF IsEar
  <2>2. v(j) \in vertices(m)
    BY <1>1, <1>2, Rows DEF Manifold
  <2> QED
    BY <2>1, <2>2
<1>5. \A j \in Sides : /\ p(j) \in Nat /\ p(j) \notin faces(n) /\ p(j) \notin faces(m)
                       /\ s(j) \in Nat /\ s(j) \notin edges(m)
                       /\ p(0) # p(1) /\ s(0) # s(1)
  BY <1>1, NewIds DEF Manifold, Before, Sides
<1>6. \A j \in Sides : /\ h(j).fv \in [Locals -> Int] /\ h(j).fe \in [Locals -> Int]
                       /\ h(j).ff \in [Locals -> Int]
  <2> SUFFICES ASSUME NEW j \in Sides
               PROVE  /\ h(j).fv \in [Locals -> Int] /\ h(j).fe \in [Locals -> Int]
                      /\ h(j).ff \in [Locals -> Int]
    OBVIOUS
  <2>1. n.fv[u.f] = m.fv[u.f] /\ n.fe[u.f] = m.fe[u.f] /\ n.ff[u.f] = m.ff[u.f]
    BY DEF Before
  <2>2. IsHalf(h(j), m, i, j, u)
    BY <2>1, HalfRows DEF d
  <2>3. \A l \in Locals : m.fv[u.f][l] \in Int /\ m.fe[u.f][l] \in Int /\ m.ff[u.f][l] \in Int
    BY <1>2, Rows DEF Manifold, Null
  <2>4. /\ free_split_v(m, j) \in Int /\ split_new_vid(m) \in Int /\ free_split_e(m, j) \in Int
        /\ rib_eid(m, i) \in Int /\ split_spine_eid(m, j) \in Int /\ split_f(m, i, 1 - j) \in Int
    <3>1. 1 - j \in Sides /\ Fields(m) /\ Typed(m)
      BY <1>2 DEF Manifold
    <3> QED
      BY <1>1, <3>1, NewIds
  <2> HIDE DEF h
  <2>5. h(j).fv \in [Locals -> Int]
    BY ONLY <2>2, <2>3, <2>4 DEF IsHalf
  <2>6. h(j).fe \in [Locals -> Int]
    BY ONLY <2>2, <2>3, <2>4 DEF IsHalf
  <2>7. h(j).ff \in [Locals -> Int]
    BY ONLY <2>2, <2>3, <2>4 DEF IsHalf
  <2> QED
    BY <2>5, <2>6, <2>7
<1>7. \A j \in Sides : k(j) \in Locals
  BY <1>4 DEF Locals
<1> HIDE DEF p, h, s, v, k
<1>8. HasHalf(r0, n, p(0), h(0), d.ears[0], s(0), v(0), k(0))
  <2>1. d.ears[0].f \in faces(n) \cup {Null} /\ d.ears[0].e \in edges(n) /\ d.ears[0].e \in Int
        /\ v(0) \in vertices(n) /\ s(0) \in Int
    BY SMTT(20), <1>2, <1>3, <1>4, <1>5, Rows DEF Before, Manifold
  <2>2. d.ears[0].f # Null => index(n.ff[d.ears[0].f], d.f) = k(0)
    BY <1>2, <1>3 DEF Before, k
  <2>3. Tables(n) /\ p(0) \in Nat /\ p(0) \notin faces(n) /\ k(0) \in Locals
        /\ h(0).fv \in [Locals -> Int] /\ h(0).fe \in [Locals -> Int] /\ h(0).ff \in [Locals -> Int]
    BY <1>2, <1>5, <1>6, <1>7 DEF Before
  <2>4. p(0) = split_f(m, i, 0) /\ h(0) = half(m, n, t, d, i, 0) /\ s(0) = split_spine_eid(m, 0)
        /\ v(0) = spine_vid(m, t, 0)
    BY DEF p, h, s, v
  <2> QED
    BY <2>1, <2>2, <2>3, <2>4, WithHalf
<1> HIDE DEF r0
<1>9. /\ Tables(r0) /\ r0.free = n.free /\ r0.cap = n.cap
      /\ faces(r0) = faces(n) \cup {p(0)} /\ edges(r0) = edges(n) \cup {s(0)}
      /\ vertices(r0) = vertices(n)
      /\ \A f \in faces(n) : f # behind(m, u, 0) => r0.ff[f] = n.ff[f]
  BY <1>2, <1>3, <1>8 DEF HasHalf
<1>10. behind(m, u, 0) # Null => behind(m, u, 1) # behind(m, u, 0)
  <2>1. pos(u, 0) # pos(u, 1) /\ pos(u, 0) \in Locals /\ pos(u, 1) \in Locals /\ 1 - 1 = 0 /\ 1 - 0 = 1
    BY <1>1, <1>2, Places
  <2>2. behind(m, u, 0) = m.ff[u.f][pos(u, 1)] /\ behind(m, u, 1) = m.ff[u.f][pos(u, 0)]
    BY <2>1 DEF behind
  <2> QED
    BY <1>2, <2>1, <2>2, MateOf
<1>11. HasHalf(r1, r0, p(1), h(1), d.ears[1], s(1), v(1), k(1))
  <2>1. d.ears[1].f \in faces(r0) \cup {Null} /\ d.ears[1].e \in edges(r0) /\ d.ears[1].e \in Int
        /\ v(1) \in vertices(r0) /\ s(1) \in Int
    BY SMTT(20), <1>2, <1>3, <1>4, <1>5, <1>9, Rows DEF Before, Manifold
  <2>2. d.ears[1].f # Null => index(r0.ff[d.ears[1].f], d.f) = k(1)
    <3>1. behind(m, u, 1) # Null => behind(m, u, 1) \in faces(n)
      BY <1>2, <1>4 DEF Before
    <3>2. behind(m, u, 1) # Null => r0.ff[behind(m, u, 1)] = n.ff[behind(m, u, 1)]
      BY <1>9, <1>10, <3>1
    <3> QED
      BY <1>2, <1>3, <3>2 DEF Before, k
  <2>3. Tables(r0) /\ p(1) \in Nat /\ p(1) \notin faces(r0) /\ k(1) \in Locals
        /\ h(1).fv \in [Locals -> Int] /\ h(1).fe \in [Locals -> Int] /\ h(1).ff \in [Locals -> Int]
    BY <1>2, <1>5, <1>6, <1>7, <1>9
  <2>4. p(1) = split_f(m, i, 1) /\ h(1) = half(m, n, t, d, i, 1) /\ s(1) = split_spine_eid(m, 1)
        /\ v(1) = spine_vid(m, t, 1)
    BY DEF p, h, s, v
  <2> QED
    BY <2>1, <2>2, <2>3, <2>4, WithHalf
<1> HIDE DEF r1
<1>12. /\ Tables(r1) /\ r1.free = n.free /\ r1.cap = n.cap
       /\ faces(r1) = faces(n) \cup {p(0), p(1)} /\ edges(r1) = edges(n) \cup {s(0), s(1)}
       /\ vertices(r1) = vertices(n)
  BY <1>9, <1>11 DEF HasHalf
<1>13. \A j \in Sides : r1.fv[p(j)] = h(j).fv /\ r1.fe[p(j)] = h(j).fe /\ r1.ff[p(j)] = h(j).ff
  <2>1. r1.fv[p(1)] = h(1).fv /\ r1.fe[p(1)] = h(1).fe /\ r1.ff[p(1)] = h(1).ff
    BY <1>11 DEF HasHalf
  <2>2. r0.fv[p(0)] = h(0).fv /\ r0.fe[p(0)] = h(0).fe /\ r0.ff[p(0)] = h(0).ff
    BY <1>8 DEF HasHalf
  <2>3. p(0) \in faces(r0) /\ p(0) # behind(m, u, 1)
    <3>1. p(0) \in Nat /\ p(0) \notin faces(m) /\ Null \notin Nat
      BY <1>2, <1>5 DEF Null
    <3> QED
      BY <1>2, <1>4, <1>9, <3>1
  <2>4. r1.fv[p(0)] = r0.fv[p(0)] /\ r1.fe[p(0)] = r0.fe[p(0)] /\ r1.ff[p(0)] = r0.ff[p(0)]
    BY <1>2, <1>3, <1>11, <2>3 DEF HasHalf
  <2> QED
    BY <2>1, <2>2, <2>4 DEF Sides
<1>14. ASSUME NEW f \in faces(n)
       PROVE  /\ r1.fv[f] = n.fv[f] /\ r1.fe[f] = n.fe[f]
              /\ \A l \in Locals :
                    r1.ff[f][l] = IF f = behind(m, u, 0) /\ l = glue(m, u, 0) THEN p(0)
                                  ELSE IF f = behind(m, u, 1) /\ l = glue(m, u, 1) THEN p(1)
                                  ELSE n.ff[f][l]
  <2>1. f \in faces(r0) /\ f \in faces(r1) /\ f # Null
    BY <1>9, <1>12 DEF Before, Tables, Null
  <2>2. r1.fv[f] = n.fv[f]
    BY <1>8, <1>11, <2>1 DEF HasHalf
  <2>3. \A j \in Sides : f = behind(m, u, j) => k(j) = glue(m, u, j) /\ n.fe[f][k(j)] = ear(m, u, j)
    BY <2>1 DEF Before, k
  <2>4. \A l \in Locals : /\ r0.fe[f][l] = n.fe[f][l]
                           /\ r0.ff[f][l] = IF f = behind(m, u, 0) /\ l = glue(m, u, 0) THEN p(0)
                                            ELSE n.ff[f][l]
    BY <1>2, <1>3, <1>8, <2>3 DEF HasHalf
  <2>5. \A l \in Locals : /\ r1.fe[f][l] = n.fe[f][l]
                           /\ r1.ff[f][l] = IF f = behind(m, u, 1) /\ l = glue(m, u, 1) THEN p(1)
                                            ELSE r0.ff[f][l]
    BY <1>2, <1>3, <1>11, <2>1, <2>3, <2>4 DEF HasHalf
  <2>6. r1.fe[f] \in [Locals -> Int] /\ n.fe[f] \in [Locals -> Int]
    BY <1>12, <2>1 DEF Before, Tables
  <2>7. r1.fe[f] = n.fe[f]
    BY <2>5, <2>6
  <2> QED
    BY <1>10, <2>1, <2>2, <2>4, <2>5, <2>7
<1>15. /\ \A j \in Sides : r1.ef[s(j)] = p(j) /\ r1.ef[ear(m, u, j)] = p(j)
                            /\ r1.vf[v(j)] = p(j)
       /\ \A e \in edges(n) : /\ e # s(0) /\ e # s(1) /\ e # ear(m, u, 0) /\ e # ear(m, u, 1)
                                  => r1.ef[e] = n.ef[e]
       /\ \A x \in vertices(n) : x # v(0) /\ x # v(1) => r1.vf[x] = n.vf[x]
  <2>1. ear(m, u, 0) # ear(m, u, 1) /\ v(0) # v(1)
    <3>1. pos(u, 0) # pos(u, 1) /\ pos(u, 0) \in Locals /\ pos(u, 1) \in Locals
      BY <1>1, <1>2, Places
    <3>2. ear(m, u, 0) = m.fe[u.f][pos(u, 1)] /\ ear(m, u, 1) = m.fe[u.f][pos(u, 0)]
      BY DEF ear
    <3> QED
      BY <1>2, <3>1, <3>2, EdgeOnce, IncidentAll DEF v
  <2>2. \A j \in Sides : ear(m, u, j) \in edges(n) /\ ear(m, u, j) # s(0) /\ ear(m, u, j) # s(1)
                         /\ v(j) \in vertices(n)
    BY <1>2, <1>4, <1>5 DEF Before
  <2>3. /\ r0.ef[s(0)] = p(0) /\ r0.ef[ear(m, u, 0)] = p(0) /\ r0.vf[v(0)] = p(0)
        /\ \A e \in edges(n) : e # s(0) /\ e # ear(m, u, 0) => r0.ef[e] = n.ef[e]
        /\ \A x \in vertices(n) : x # v(0) => r0.vf[x] = n.vf[x]
    BY <1>2, <1>3, <1>8, <2>2 DEF HasHalf
  <2>4. /\ r1.ef[s(1)] = p(1) /\ r1.ef[ear(m, u, 1)] = p(1) /\ r1.vf[v(1)] = p(1)
        /\ \A e \in edges(r0) : e # s(1) /\ e # ear(m, u, 1) => r1.ef[e] = r0.ef[e]
        /\ \A x \in vertices(r0) : x # v(1) => r1.vf[x] = r0.vf[x]
    BY <1>2, <1>3, <1>9, <1>11, <2>2 DEF HasHalf
  <2>5. /\ r1.ef[s(0)] = p(0) /\ r1.ef[ear(m, u, 0)] = p(0) /\ r1.vf[v(0)] = p(0)
    BY <1>2, <1>5, <1>9, <2>1, <2>2, <2>3, <2>4
  <2> QED
    BY <1>9, <2>3, <2>4, <2>5 DEF Sides
<1> DEFINE o == m.fv[u.f][u.e]
           vf1 == [r1.vf EXCEPT ![o] = p(0)]
           q == replace_incident_face(m, t, n, d, i)
<1>16. o \in vertices(m) /\ o \in vertices(r1) /\ o # v(0) /\ o # v(1)
  <2>1. o \in vertices(m)
    BY <1>2, Rows DEF Manifold
  <2>2. pos(u, 0) # u.e /\ pos(u, 1) # u.e
    BY <1>1, <1>2, Places
  <2>3. v(0) = m.fv[u.f][pos(u, 0)] /\ v(1) = m.fv[u.f][pos(u, 1)]
    BY <1>1, <1>2 DEF v
  <2> QED
    BY <1>2, <1>12, <2>1, <2>2, <2>3 DEF Before, Manifold, Corners
<1>17. /\ vf1 \in [vertices(n) -> Int] /\ vf1[o] = p(0)
       /\ \A x \in vertices(n) : x # o => vf1[x] = r1.vf[x]
  <2>1. p(0) \in Int
    BY <1>5 DEF Sides
  <2>2. r1.vf \in [vertices(n) -> Int] /\ o \in vertices(n)
    BY <1>2, <1>12, <1>16 DEF Tables
  <2> HIDE DEF o, r1
  <2> QED
    BY ONLY <2>1, <2>2
<1>18. /\ p(0) \in Int /\ p(1) \in Int /\ DOMAIN r1.ef = edges(n) \cup {s(0), s(1)}
  BY <1>2, <1>5, <1>12 DEF edges
<1> DEFINE ef2 == IF m.free THEN put(put(r1.ef, free_split_e(m, 0), p(0)), free_split_e(m, 1), p(1))
                  ELSE put(r1.ef, rib_eid(m, i), p(0))
           vf2 == IF m.free THEN put(put(put(vf1, free_split_v(m, 0), p(0)), free_split_v(m, 1), p(1)),
                                     split_new_vid(m), p(1))
                  ELSE put(vf1, split_new_vid(m), p(0))
<1>19. q = [r1 EXCEPT !.vf = vf2, !.ef = ef2]
  <2>1. r1 = [a \in Attributes |-> r1[a]]
    BY <1>12 DEF Tables, Plain
  <2>2. q = IF m.free
            THEN [[r1 EXCEPT !.vf[o] = p(0)] EXCEPT
                !.ef = put(put(@, free_split_e(m, 0), p(0)), free_split_e(m, 1), p(1)),
                !.vf = put(put(put(@, free_split_v(m, 0), p(0)), free_split_v(m, 1), p(1)),
                           split_new_vid(m), p(1))]
            ELSE [[r1 EXCEPT !.vf[o] = p(0)] EXCEPT !.ef = put(@, rib_eid(m, i), p(0)),
                              !.vf = put(@, split_new_vid(m), p(0))]
    BY <1>3, ZenonT(40) DEF replace_incident_face, with_half, r0, r1, p
  <2>3. [r1 EXCEPT !.vf[o] = p(0)] = [r1 EXCEPT !.vf = vf1]
    BY <2>1 DEF Attributes
  <2> HIDE DEF q, vf1
  <2> QED
    BY <2>1, <2>2, <2>3 DEF Attributes
<1> HIDE DEF q, vf1
<1>20. /\ Plain(q) /\ q.free = n.free /\ q.cap = n.cap /\ q.fv = r1.fv /\ q.fe = r1.fe
       /\ q.ff = r1.ff /\ q.ef = ef2 /\ q.vf = vf2
  <2>1. r1 = [a \in Attributes |-> r1[a]]
    BY <1>12 DEF Tables, Plain
  <2> HIDE DEF ef2, vf2
  <2> QED
    BY <1>12, <1>19, <2>1 DEF Attributes, Plain
<1>22. \A j \in Sides : /\ free_split_v(m, j) \in Nat /\ free_split_e(m, j) \in Nat
                        /\ free_split_v(m, j) # split_new_vid(m)
                        /\ free_split_v(m, 0) # free_split_v(m, 1)
                        /\ free_split_e(m, 0) # free_split_e(m, 1)
                        /\ \A l \in Sides : s(j) # free_split_e(m, l) /\ s(j) # rib_eid(m, i)
                        /\ free_split_e(m, j) \notin edges(m) /\ free_split_v(m, j) \notin vertices(m)
  BY <1>1, NewIds DEF Manifold, s
<1>23. /\ rib_eid(m, i) \notin edges(m) /\ split_new_vid(m) \notin vertices(m)
  BY <1>1, NewIds DEF Manifold
<1>24. \A j \in Sides : ear(m, u, j) \in edges(n) /\ ear(m, u, j) # s(0) /\ ear(m, u, j) # s(1)
                        /\ v(j) \in vertices(n) /\ ear(m, u, j) \in edges(m) /\ v(j) \in vertices(m)
  BY <1>2, <1>4, <1>5 DEF Before
<1>25. r1.ef \in [edges(n) \cup {s(0), s(1)} -> Int] /\ vf1 \in [vertices(n) -> Int]
  BY <1>12, <1>17 DEF Tables
<1>26. /\ ef2 \in [edges(n) \cup NewEdges(m, i) -> Int]
       /\ \A j \in Sides : /\ ef2[s(j)] = p(j) /\ ef2[ear(m, u, j)] = p(j)
                           /\ m.free => ef2[free_split_e(m, j)] = p(j)
       /\ ~m.free => ef2[rib_eid(m, i)] = p(0)
       /\ \A e \in edges(n) : e \notin NewEdges(m, i) /\ e # ear(m, u, 0) /\ e # ear(m, u, 1)
                                  => ef2[e] = n.ef[e]
  <2>1. CASE m.free
    <3> DEFINE x(j) == free_split_e(m, j)
               g == put(r1.ef, x(0), p(0))
    <3>1. NewEdges(m, i) = {s(0), s(1), x(0), x(1)}
      BY <2>1 DEF NewEdges, Sides, s
    <3>2. ef2 = put(g, x(1), p(1))
      BY <2>1
    <3>3. /\ x(0) # x(1)
          /\ \A j \in Sides : /\ s(j) # x(0) /\ s(j) # x(1)
                              /\ ear(m, u, j) # x(0) /\ ear(m, u, j) # x(1)
      BY <1>2, <1>22, <1>24
    <3> HIDE DEF x, ef2
    <3>4. /\ g \in [edges(n) \cup {s(0), s(1)} \cup {x(0)} -> Int] /\ g[x(0)] = p(0)
          /\ \A z \in edges(n) \cup {s(0), s(1)} : z # x(0) => g[z] = r1.ef[z]
      <4>1. IsPut(g, r1.ef, edges(n) \cup {s(0), s(1)}, x(0), p(0))
        BY <1>18, <1>25, PutIs
      <4> QED
        BY <4>1 DEF IsPut
    <3> HIDE DEF g
    <3>5. /\ ef2 \in [edges(n) \cup {s(0), s(1)} \cup {x(0)} \cup {x(1)} -> Int] /\ ef2[x(1)] = p(1)
          /\ \A z \in edges(n) \cup {s(0), s(1)} \cup {x(0)} : z # x(1) => ef2[z] = g[z]
      <4>1. IsPut(ef2, g, edges(n) \cup {s(0), s(1)} \cup {x(0)}, x(1), p(1))
        BY <1>18, <3>2, <3>4, PutIs
      <4> QED
        BY <4>1 DEF IsPut
    <3>6. ef2 \in [edges(n) \cup NewEdges(m, i) -> Int]
      <4>1. edges(n) \cup {s(0), s(1)} \cup {x(0)} \cup {x(1)} = edges(n) \cup NewEdges(m, i)
        BY <3>1
      <4> QED
        BY <3>5, <4>1
    <3>7. \A j \in Sides : /\ ef2[s(j)] = p(j) /\ ef2[ear(m, u, j)] = p(j)
                           /\ ef2[x(j)] = p(j)
      <4>1. s(0) \in {s(0), s(1)} /\ s(1) \in {s(0), s(1)}
        OBVIOUS
      <4>2. \A j \in Sides : j = 0 \/ j = 1
        BY DEF Sides
      <4> QED
        BY <1>15, <1>24, <3>3, <3>4, <3>5, <4>1, <4>2
    <3>8. \A e \in edges(n) : e \notin NewEdges(m, i) /\ e # ear(m, u, 0) /\ e # ear(m, u, 1)
                                  => ef2[e] = n.ef[e]
      BY <1>15, <3>1, <3>4, <3>5
    <3> QED
      BY <2>1, <3>6, <3>7, <3>8 DEF x
  <2>2. CASE ~m.free
    <3> DEFINE x == rib_eid(m, i)
    <3>1. NewEdges(m, i) = {s(0), s(1), x}
      BY <2>2 DEF NewEdges, Sides, s
    <3>2. ef2 = put(r1.ef, x, p(0))
      BY <2>2
    <3>3. \A j \in Sides : s(j) # x /\ ear(m, u, j) # x
      BY <1>22, <1>23, <1>24
    <3> HIDE DEF x, ef2
    <3>4. /\ ef2 \in [edges(n) \cup {s(0), s(1)} \cup {x} -> Int] /\ ef2[x] = p(0)
          /\ \A z \in edges(n) \cup {s(0), s(1)} : z # x => ef2[z] = r1.ef[z]
      <4>1. IsPut(ef2, r1.ef, edges(n) \cup {s(0), s(1)}, x, p(0))
        BY <1>18, <1>25, <3>2, PutIs
      <4> QED
        BY <4>1 DEF IsPut
    <3>5. ef2 \in [edges(n) \cup NewEdges(m, i) -> Int]
      <4>1. edges(n) \cup {s(0), s(1)} \cup {x} = edges(n) \cup NewEdges(m, i)
        BY <3>1
      <4> QED
        BY <3>4, <4>1
    <3>6. \A j \in Sides : ef2[s(j)] = p(j) /\ ef2[ear(m, u, j)] = p(j)
      BY <1>15, <1>24, <3>3, <3>4 DEF Sides
    <3>7. \A e \in edges(n) : e \notin NewEdges(m, i) /\ e # ear(m, u, 0) /\ e # ear(m, u, 1)
                                  => ef2[e] = n.ef[e]
      BY <1>15, <3>1, <3>4
    <3> QED
      BY <2>2, <3>4, <3>5, <3>6, <3>7 DEF x
  <2> QED
    BY <2>1, <2>2
<1>27. /\ vf2 \in [vertices(n) \cup NewVertices(m) -> Int]
       /\ \A j \in Sides : m.free => vf2[free_split_v(m, j)] = p(j)
       /\ vf2[split_new_vid(m)] = IF m.free THEN p(1) ELSE p(0)
       /\ \A x \in vertices(n) : x \notin NewVertices(m) => vf2[x] = vf1[x]
  <2> DEFINE y == split_new_vid(m)
  <2>1. CASE m.free
    <3> DEFINE x(j) == free_split_v(m, j)
               g == put(vf1, x(0), p(0))
               g2 == put(g, x(1), p(1))
    <3>1. NewVertices(m) = {y, x(0), x(1)}
      BY <2>1 DEF NewVertices, Sides
    <3>2. vf2 = put(g2, y, p(1))
      BY <2>1
    <3>3. x(0) # x(1) /\ x(0) # y /\ x(1) # y
      BY <1>2, <1>22
    <3> HIDE DEF x, vf2, y
    <3>4. /\ g \in [vertices(n) \cup {x(0)} -> Int] /\ g[x(0)] = p(0)
          /\ \A z \in vertices(n) : z # x(0) => g[z] = vf1[z]
      <4>1. IsPut(g, vf1, vertices(n), x(0), p(0))
        BY <1>18, <1>25, PutIs
      <4> QED
        BY <4>1 DEF IsPut
    <3> HIDE DEF g
    <3>5. /\ g2 \in [vertices(n) \cup {x(0)} \cup {x(1)} -> Int] /\ g2[x(1)] = p(1)
          /\ \A z \in vertices(n) \cup {x(0)} : z # x(1) => g2[z] = g[z]
      <4>1. IsPut(g2, g, vertices(n) \cup {x(0)}, x(1), p(1))
        BY <1>18, <3>4, PutIs
      <4> QED
        BY <4>1 DEF IsPut
    <3> HIDE DEF g2
    <3>6. /\ vf2 \in [vertices(n) \cup {x(0)} \cup {x(1)} \cup {y} -> Int] /\ vf2[y] = p(1)
          /\ \A z \in vertices(n) \cup {x(0)} \cup {x(1)} : z # y => vf2[z] = g2[z]
      <4>1. IsPut(vf2, g2, vertices(n) \cup {x(0)} \cup {x(1)}, y, p(1))
        BY <1>18, <3>2, <3>5, PutIs
      <4> QED
        BY <4>1 DEF IsPut
    <3>7. vf2 \in [vertices(n) \cup NewVertices(m) -> Int]
      <4>1. vertices(n) \cup {x(0)} \cup {x(1)} \cup {y} = vertices(n) \cup NewVertices(m)
        BY <3>1
      <4> QED
        BY <3>6, <4>1
    <3>8. vf2[x(0)] = p(0) /\ vf2[x(1)] = p(1)
      BY <3>3, <3>4, <3>5, <3>6
    <3>9. \A z \in vertices(n) : z \notin NewVertices(m) => vf2[z] = vf1[z]
      BY <3>1, <3>4, <3>5, <3>6
    <3> QED
      BY <2>1, <3>6, <3>7, <3>8, <3>9 DEF x, y, Sides
  <2>2. CASE ~m.free
    <3>1. NewVertices(m) = {y}
      BY <2>2 DEF NewVertices
    <3>2. vf2 = put(vf1, y, p(0))
      BY <2>2
    <3> HIDE DEF y, vf2
    <3>3. /\ vf2 \in [vertices(n) \cup {y} -> Int] /\ vf2[y] = p(0)
          /\ \A z \in vertices(n) : z # y => vf2[z] = vf1[z]
      <4>1. IsPut(vf2, vf1, vertices(n), y, p(0))
        BY <1>18, <1>25, <3>2, PutIs
      <4> QED
        BY <4>1 DEF IsPut
    <3> QED
      BY <2>2, <3>1, <3>3 DEF y
  <2> QED
    BY <2>1, <2>2
<1> HIDE DEF ef2, vf2
<1>28. Tables(q) /\ faces(q) = faces(n) \cup {p(0), p(1)}
       /\ edges(q) = edges(n) \cup NewEdges(m, i) /\ vertices(q) = vertices(n) \cup NewVertices(m)
  <2>1. edges(q) = edges(n) \cup NewEdges(m, i) /\ vertices(q) = vertices(n) \cup NewVertices(m)
    BY <1>20, <1>26, <1>27 DEF edges, vertices
  <2>2. faces(q) = faces(r1)
    BY <1>20 DEF faces
  <2> QED
    BY <1>12, <1>20, <1>26, <1>27, <2>1, <2>2 DEF Tables
<1>29. \A f \in faces(n) :
              /\ q.fv[f] = n.fv[f] /\ q.fe[f] = n.fe[f]
              /\ \A l \in Locals :
                    q.ff[f][l] = IF f = behind(m, u, 0) /\ l = glue(m, u, 0) THEN p(0)
                                 ELSE IF f = behind(m, u, 1) /\ l = glue(m, u, 1) THEN p(1)
                                 ELSE n.ff[f][l]
  BY <1>14, <1>20
<1>30. /\ q.vf[o] = p(0) /\ \A j \in Sides : q.vf[v(j)] = p(j)
       /\ \A x \in vertices(n) : x \notin NewVertices(m) /\ x # o /\ x # v(0) /\ x # v(1)
                                    => q.vf[x] = n.vf[x]
  <2>1. \A x \in vertices(m) : x \in vertices(n) /\ x \notin NewVertices(m)
    <3>1. \A x \in NewVertices(m) : x \notin vertices(m)
      BY <1>22, <1>23 DEF NewVertices
    <3> QED
      BY <3>1 DEF Before
  <2>2. \A x \in vertices(n) : x \notin NewVertices(m) => q.vf[x] = vf1[x]
    BY <1>20, <1>27
  <2>3. q.vf[o] = p(0)
    BY <1>16, <1>17, <2>1, <2>2
  <2>4. \A j \in Sides : v(j) # o /\ v(j) \in vertices(m)
    BY <1>4, <1>16 DEF Sides
  <2>5. \A j \in Sides : q.vf[v(j)] = p(j)
    BY <1>15, <1>17, <2>1, <2>2, <2>4
  <2>6. \A x \in vertices(n) : x \notin NewVertices(m) /\ x # o /\ x # v(0) /\ x # v(1)
                                    => q.vf[x] = n.vf[x]
    BY <1>15, <1>17, <2>2
  <2> QED
    BY <2>3, <2>5, <2>6, Zenon
<1>31. Replaced(q, n, m, t, i, u)
  <2> HIDE DEF o
  <2> QED
    BY SMTT(20), <1>13, <1>20, <1>26, <1>27, <1>28, <1>29, <1>30 DEF Replaced, d, h, p, s, v, o
<1> QED
  BY <1>31 DEF q, d

\* What Replaced says of the faces that were there.
LEMMA ReplacedRows ==
    ASSUME NEW r, NEW n, NEW m, NEW t, NEW i, NEW u, Replaced(r, n, m, t, i, u)
    PROVE  /\ Tables(r) /\ r.free = n.free /\ r.cap = n.cap
           /\ faces(r) = faces(n) \cup {split_f(m, i, 0), split_f(m, i, 1)}
           /\ vertices(r) = vertices(n) \cup NewVertices(m)
           /\ edges(r) = edges(n) \cup NewEdges(m, i)
           /\ \A f \in faces(n) :
                 /\ r.fv[f] = n.fv[f] /\ r.fe[f] = n.fe[f]
                 /\ \A l \in Locals :
                      r.ff[f][l] = IF f = behind(m, u, 0) /\ l = glue(m, u, 0) THEN split_f(m, i, 0)
                                   ELSE IF f = behind(m, u, 1) /\ l = glue(m, u, 1)
                                        THEN split_f(m, i, 1)
                                   ELSE n.ff[f][l]
BY DEF Replaced

\* The mesh as it is when the first incident face is replaced.
LEMMA FirstBefore ==
    ASSUME NEW m, Manifold(m), NEW t \in Tuples(m), NEW i \in 1 .. Len(Fan(m, t))
    PROVE  Before(m, m, i, Fan(m, t)[i])
<1> DEFINE u == Fan(m, t)[i]
<1>1. Tables(m)
  BY ManifoldTables DEF Manifold
<1>2. \A j \in Sides : behind(m, u, j) # Null => /\ index(m.ff[behind(m, u, j)], u.f) = glue(m, u, j)
                                          /\ m.fe[behind(m, u, j)][glue(m, u, j)] = ear(m, u, j)
  <2>1. \A j \in Sides : IsEar(m, t, u, j)
    BY Ears
  <2> HIDE DEF u
  <2> QED
    BY <2>1 DEF IsEar, glue
<1>3. i \in {1, 2} /\ 0 \in Sides /\ 1 \in Sides
  BY Incident DEF IsFan, Sides
<1>4. split_f(m, i, 0) \notin faces(m) /\ split_f(m, i, 1) \notin faces(m)
  BY <1>3, NewIds DEF Manifold
<1> QED
  BY <1>1, <1>2, <1>4 DEF Before

\* The second incident face is as it was when the first is replaced.
LEMMA SecondBefore ==
    ASSUME NEW m, Manifold(m), NEW t \in Tuples(m), Len(Fan(m, t)) = 2,
           NEW n, Replaced(n, m, m, t, 1, Fan(m, t)[1])
    PROVE  Before(n, m, 2, Fan(m, t)[2])
<1> DEFINE u == Fan(m, t)[1]
           w == Fan(m, t)[2]
           p(j) == split_f(m, 1, j)
<1>0. 1 \in 1 .. Len(Fan(m, t)) /\ 2 \in 1 .. Len(Fan(m, t)) /\ 0 \in Sides /\ 1 \in Sides
  BY DEF Sides
<1>1. /\ Tables(n)
      /\ faces(n) = faces(m) \cup {p(0), p(1)}
      /\ vertices(n) = vertices(m) \cup NewVertices(m)
      /\ edges(n) = edges(m) \cup NewEdges(m, 1)
      /\ \A f \in faces(m) :
            /\ n.fv[f] = m.fv[f] /\ n.fe[f] = m.fe[f]
            /\ \A l \in Locals :
                  n.ff[f][l] = IF f = behind(m, u, 0) /\ l = glue(m, u, 0) THEN p(0)
                               ELSE IF f = behind(m, u, 1) /\ l = glue(m, u, 1) THEN p(1)
                               ELSE m.ff[f][l]
  BY ReplacedRows
<1>2. /\ u.f \in faces(m) /\ w.f \in faces(m) /\ w.f # u.f /\ w.f \in Gone(m, t)
  <2>1. IsFan(m, t, Fan(m, t))
    BY Incident
  <2>2. /\ u \in Tuples(m) /\ w \in Tuples(m) /\ w.f # u.f /\ 2 \in DOMAIN Fan(m, t)
    BY <1>0, <2>1 DEF IsFan
  <2> QED
    BY <2>2 DEF Gone, Tuples
<1>3. \A j \in Sides : p(j) \in Nat /\ p(j) \notin faces(m)
  BY NewIds DEF Manifold
<1>4. \A j \in Sides : behind(m, u, j) # Null =>
         /\ behind(m, u, j) \in faces(m) /\ behind(m, u, j) \notin Gone(m, t)
         /\ glue(m, u, j) \in Locals /\ m.ff[behind(m, u, j)][glue(m, u, j)] = u.f
  <2>1. \A j \in Sides : IsEar(m, t, u, j)
    BY <1>0, Ears
  <2> HIDE DEF u
  <2> QED
    BY <2>1 DEF IsEar
<1>5. \A j \in Sides : behind(m, w, j) # Null =>
         /\ behind(m, w, j) \in faces(m)
         /\ glue(m, w, j) \in Locals /\ m.ff[behind(m, w, j)][glue(m, w, j)] = w.f
         /\ m.fe[behind(m, w, j)][glue(m, w, j)] = ear(m, w, j)
         /\ \A k \in Locals : m.ff[behind(m, w, j)][k] = w.f => k = glue(m, w, j)
  <2>1. \A j \in Sides : IsEar(m, t, w, j)
    BY <1>0, Ears
  <2> HIDE DEF w
  <2> QED
    BY <2>1 DEF IsEar
<1> HIDE DEF u, w, p
<1>6. n.fv[w.f] = m.fv[w.f] /\ n.fe[w.f] = m.fe[w.f] /\ n.ff[w.f] = m.ff[w.f]
  <2>1. Null \notin faces(m)
    BY Rows DEF Manifold
  <2>2. \A l \in Locals : n.ff[w.f][l] = m.ff[w.f][l]
    BY <1>0, <1>1, <1>2, <1>4, <2>1
  <2>3. n.ff[w.f] \in [Locals -> Int] /\ m.ff[w.f] \in [Locals -> Int]
    BY <1>1, <1>2, ManifoldTables DEF Tables, Manifold
  <2> QED
    BY <1>1, <1>2, <2>2, <2>3
<1>7. ASSUME NEW j \in Sides, behind(m, w, j) # Null
      PROVE  /\ index(n.ff[behind(m, w, j)], w.f) = glue(m, w, j)
             /\ n.fe[behind(m, w, j)][glue(m, w, j)] = ear(m, w, j)
  <2> DEFINE B == behind(m, w, j)
             g == glue(m, w, j)
  <2>1. B \in faces(m) /\ B # Null /\ g \in Locals /\ m.ff[B][g] = w.f /\ m.fe[B][g] = ear(m, w, j)
        /\ \A k \in Locals : m.ff[B][k] = w.f => k = g
    BY <1>5, <1>7
  <2> HIDE DEF B, g
  <2>2. n.ff[B][g] = w.f
    BY <1>0, <1>1, <1>2, <1>4, <2>1
  <2>3. \A k \in Locals : n.ff[B][k] = w.f => k = g
    BY <1>0, <1>1, <1>2, <1>3, <2>1
  <2>4. index(n.ff[B], w.f) = g
    BY <2>1, <2>2, <2>3, IndexIs
  <2> QED
    BY <1>1, <2>1, <2>4 DEF B, g
<1>8. /\ split_f(m, 2, 0) \notin faces(n) /\ split_f(m, 2, 1) \notin faces(n)
  <2>1. split_f(m, 2, 0) \notin faces(m) /\ split_f(m, 2, 1) \notin faces(m)
    BY <1>0, NewIds DEF Manifold
  <2>2. /\ split_f(m, 2, 0) # p(0) /\ split_f(m, 2, 0) # p(1)
        /\ split_f(m, 2, 1) # p(0) /\ split_f(m, 2, 1) # p(1)
    BY DEF split_f, p, Manifold, Fields
  <2> QED
    BY <1>1, <2>1, <2>2
<1> QED
  BY <1>1, <1>6, <1>7, <1>8 DEF Before, w

\* The corners opposite the edge of t differ.
LEMMA OppsDiffer ==
    ASSUME NEW m, Manifold(m), NEW t \in Tuples(m), Len(Fan(m, t)) = 2
    PROVE  LET U == Fan(m, t) IN m.fv[U[1].f][U[1].e] # m.fv[U[2].f][U[2].e]
<1> DEFINE u == Fan(m, t)[1]
           w == Fan(m, t)[2]
<1>1. /\ u \in Tuples(m) /\ w \in Tuples(m) /\ u.f # w.f
      /\ \A j \in Sides : m.fv[u.f][pos(u, j)] = m.fv[w.f][pos(w, j)]
  <2>1. IsFan(m, t, Fan(m, t)) /\ 1 \in 1 .. Len(Fan(m, t)) /\ 2 \in 1 .. Len(Fan(m, t))
    BY Incident
  <2> QED
    BY <2>1 DEF IsFan
<1> HIDE DEF u, w
<1>2. /\ u.f \in faces(m) /\ w.f \in faces(m)
      /\ Locals = {u.e, pos(u, 0), pos(u, 1)}
      /\ pos(w, 0) \in Locals /\ pos(w, 1) \in Locals /\ w.e \in Locals
      /\ 0 \in Sides /\ 1 \in Sides
  <2>1. 0 \in Sides /\ 1 \in Sides /\ 1 - 0 = 1
    BY DEF Sides
  <2> QED
    BY <1>1, <2>1, Places
<1>3. ASSUME m.fv[u.f][u.e] = m.fv[w.f][w.e]
      PROVE  FALSE
  <2>1. \A k \in Locals : \E l \in Locals : m.fv[u.f][k] = m.fv[w.f][l]
    <3>1. m.fv[u.f][pos(u, 0)] = m.fv[w.f][pos(w, 0)] /\ m.fv[u.f][pos(u, 1)] = m.fv[w.f][pos(w, 1)]
      BY <1>1, <1>2
    <3> QED
      BY <1>2, <1>3, <3>1
  <2>2. \A f, g \in faces(m) :
          (\A k \in Locals : \E l \in Locals : m.fv[f][k] = m.fv[g][l]) => f = g
    BY DEF Manifold, Corners
  <2>3. (\A k \in Locals : \E l \in Locals : m.fv[u.f][k] = m.fv[w.f][l]) => u.f = w.f
    BY ONLY <1>2, <2>2, Zenon
  <2> QED
    BY ONLY <1>1, <2>1, <2>3
<1> QED
  BY <1>3 DEF u, w

-----------------------------------------------------------------------------
(* The tables that split_edge leaves.                                      *)

\* The half j of the i-th incident face u: its corners, its edges and the faces
\* across them, the face across the half of the operating edge being s.
AtHalf(r, m, i, j, u, s) ==
    LET p == split_f(m, i, j)
    IN  \A k \in Locals :
          /\ r.fv[p][k] =
                IF k = pos(u, 1 - j) THEN (IF m.free THEN free_split_v(m, j) ELSE split_new_vid(m))
                ELSE IF m.free /\ j = 1 /\ k = u.e THEN split_new_vid(m)
                ELSE m.fv[u.f][k]
          /\ r.fe[p][k] =
                IF k = pos(u, j) THEN (IF m.free THEN free_split_e(m, j) ELSE rib_eid(m, i))
                ELSE IF k = u.e THEN split_spine_eid(m, j) ELSE m.fe[u.f][k]
          /\ r.ff[p][k] = IF k = pos(u, j) /\ ~m.free THEN split_f(m, i, 1 - j)
                          ELSE IF k = u.e THEN s ELSE m.ff[u.f][k]

\* A face that stays: across an edge there is a half where a face went.
AtKept(r, m, t, f) ==
    LET U == Fan(m, t)
        glued_at(i, j, l) == f = behind(m, U[i], j) /\ l = glue(m, U[i], j)
    IN  /\ r.fv[f] = m.fv[f] /\ r.fe[f] = m.fe[f]
        /\ \A l \in Locals :
              /\ \A i \in 1 .. Len(U), j \in Sides :
                    glued_at(i, j, l) => r.ff[f][l] = split_f(m, i, j)
              /\ (\A i \in 1 .. Len(U), j \in Sides : ~glued_at(i, j, l))
                    => r.ff[f][l] = m.ff[f][l]

\* The faces that the tables of edges and vertices name.
SplitNames(r, m, t) ==
    LET U == Fan(m, t)
        I == 1 .. Len(U)
        N(i, j) == split_f(m, i, j)
        opp(i) == m.fv[U[i].f][U[i].e]
    IN  /\ \A j \in Sides : /\ \E i \in I : r.ef[split_spine_eid(m, j)] = N(i, j)
                            /\ \E i \in I : r.vf[spine_vid(m, t, j)] = N(i, j)
                            /\ m.free => r.ef[free_split_e(m, j)] = N(1, j)
                            /\ m.free => r.vf[free_split_v(m, j)] = N(1, j)
        /\ \A i \in I : /\ \A j \in Sides : r.ef[ear(m, U[i], j)] = N(i, j)
                        /\ ~m.free => r.ef[rib_eid(m, i)] = N(i, 0)
                        /\ r.vf[opp(i)] = N(i, 0)
        /\ m.free => r.vf[split_new_vid(m)] = N(1, 1)
        /\ ~m.free => \E i \in I : r.vf[split_new_vid(m)] = N(i, 0)
        /\ \A e \in edges(m) \ {id_edge(m, t)} :
              (\A i \in I, j \in Sides : e # ear(m, U[i], j)) => r.ef[e] = m.ef[e]
        /\ \A v \in vertices(m) :
              (\A j \in Sides : v # spine_vid(m, t, j)) /\ (\A i \in I : v # opp(i))
                  => r.vf[v] = m.vf[v]

\* joined: the halves of the two faces are across the halves of the edge.
SplitRows(r, m, t, joined) ==
    LET U == Fan(m, t)
        opposite(i, j) == IF ~joined THEN m.ff[U[i].f][U[i].e]
                          ELSE IF Len(U) = 1 THEN Null ELSE split_f(m, 3 - i, j)
    IN  /\ Tables(r) /\ r.free = m.free
        /\ vertices(r) = vertices(m) \cup NewVertices(m)
        /\ \A f \in faces(m) \ Gone(m, t) : AtKept(r, m, t, f)
        /\ \A i \in 1 .. Len(U), j \in Sides :
              AtHalf(r, m, i, j, U[i], opposite(i, j))
        /\ SplitNames(r, m, t)

Halves(m, t) == {f \in Nat : \E i \in 1 .. Len(Fan(m, t)), j \in Sides : f = split_f(m, i, j)}
SplitEdges(m, t) == {e \in Nat : \E i \in 1 .. Len(Fan(m, t)) : e \in NewEdges(m, i)}

\* Before the simplices of the split edge are deleted.
AllReplaced(r, m, t, joined) ==
    /\ SplitRows(r, m, t, joined)
    /\ faces(r) = faces(m) \cup Halves(m, t)
    /\ edges(r) = edges(m) \cup SplitEdges(m, t)

SplitTables(r, m, t) ==
    /\ SplitRows(r, m, t, TRUE)
    /\ faces(r) = (faces(m) \ Gone(m, t)) \cup Halves(m, t)
    /\ edges(r) = (edges(m) \ {id_edge(m, t)}) \cup SplitEdges(m, t)
    /\ r.cap = requested(m, t)

\* The halves that replace_incident_face leaves are those of AtHalf.
LEMMA ReplacedHalf ==
    ASSUME NEW m, Manifold(m), NEW t \in Tuples(m), NEW i \in 1 .. Len(Fan(m, t)),
           NEW u, u = Fan(m, t)[i], NEW n, Before(n, m, i, u),
           NEW r, Replaced(r, n, m, t, i, u), NEW j \in Sides
    PROVE  AtHalf(r, m, i, j, u, m.ff[u.f][u.e])
<1> DEFINE h == half(m, n, t, get_incident_face_data(m, u), i, j)
           p == split_f(m, i, j)
<1>1. IsHalf(h, m, i, j, u)
  BY HalfRows DEF Before
<1>2. r.fv[p] = h.fv /\ r.fe[p] = h.fe /\ r.ff[p] = h.ff
  BY DEF Replaced
<1> HIDE DEF h, p
<1>3. u \in Tuples(m)
  BY Incident DEF IsFan
<1>4. pos(u, j) # u.e
  BY <1>3, Places
<1> QED
  BY ONLY <1>1, <1>2, <1>4 DEF IsHalf, AtHalf, p

\* All faces at a boundary edge are replaced once its one face is.
LEMMA OneReplaced ==
    ASSUME NEW m, Manifold(m), NEW t \in Tuples(m), Len(Fan(m, t)) = 1,
           NEW r, Replaced(r, m, m, t, 1, Fan(m, t)[1])
    PROVE  AllReplaced(r, m, t, TRUE)
<1> DEFINE U == Fan(m, t)
           u == U[1]
<1>0. 1 .. Len(U) = {1} /\ Sides = {0, 1} /\ u.f \in faces(m) /\ m.ff[u.f][u.e] = Null
  <2>1. 1 .. Len(U) = {1}
    OBVIOUS
  <2>2. IsFan(m, t, U)
    BY Incident
  <2>3. u \in Tuples(m) /\ m.ff[u.f][u.e] = Null
    BY <2>1, <2>2 DEF IsFan
  <2> QED
    BY <2>1, <2>3 DEF Sides, Tuples
<1>1. Before(m, m, 1, u)
  BY <1>0, FirstBefore
<1> HIDE DEF u
<1>2. \A j \in Sides : AtHalf(r, m, 1, j, u, Null)
  BY <1>0, <1>1, ReplacedHalf DEF u
<1>3. /\ faces(r) = faces(m) \cup Halves(m, t) /\ edges(r) = edges(m) \cup SplitEdges(m, t)
      /\ vertices(r) = vertices(m) \cup NewVertices(m) /\ Tables(r) /\ r.free = m.free
  <2>1. Halves(m, t) = {split_f(m, 1, 0), split_f(m, 1, 1)}
    <3>1. \A j \in Sides : split_f(m, 1, j) \in Nat
      BY NewIds DEF Manifold
    <3> QED
      BY <1>0, <3>1 DEF Halves
  <2>2. SplitEdges(m, t) = NewEdges(m, 1)
    <3>1. NewEdges(m, 1) \subseteq Nat
      BY NewIds DEF NewEdges, Manifold
    <3> QED
      BY <1>0, <3>1 DEF SplitEdges
  <2> QED
    BY <2>1, <2>2, ReplacedRows DEF u
<1>4. ASSUME NEW f \in faces(m) \ Gone(m, t)
      PROVE  AtKept(r, m, t, f)
  <2>1. /\ r.fv[f] = m.fv[f] /\ r.fe[f] = m.fe[f]
        /\ \A l \in Locals :
              r.ff[f][l] = IF f = behind(m, u, 0) /\ l = glue(m, u, 0) THEN split_f(m, 1, 0)
                           ELSE IF f = behind(m, u, 1) /\ l = glue(m, u, 1) THEN split_f(m, 1, 1)
                           ELSE m.ff[f][l]
    BY ReplacedRows DEF u
  <2>2. f = behind(m, u, 0) => f # behind(m, u, 1)
    <3>1. f # Null
      BY Rows DEF Manifold
    <3>2. pos(u, 0) # pos(u, 1) /\ pos(u, 0) \in Locals /\ pos(u, 1) \in Locals
      <4>1. u \in Tuples(m) /\ 0 \in Sides /\ 1 \in Sides /\ 1 - 0 = 1
        BY <1>0, Incident DEF IsFan, u, Sides
      <4> QED
        BY <4>1, Places
    <3>3. behind(m, u, 0) = m.ff[u.f][pos(u, 1)] /\ behind(m, u, 1) = m.ff[u.f][pos(u, 0)]
      BY DEF behind
    <3> QED
      BY <1>0, <3>1, <3>2, <3>3, MateOf
  <2> QED
    BY <1>0, <2>1, <2>2 DEF AtKept, u
<1>5. SplitNames(r, m, t)
  <2> DEFINE N(j) == split_f(m, 1, j)
             opp == m.fv[u.f][u.e]
  <2>1. /\ \A j \in Sides : /\ r.ef[split_spine_eid(m, j)] = N(j) /\ r.ef[ear(m, u, j)] = N(j)
                            /\ m.free => r.ef[free_split_e(m, j)] = N(j)
                            /\ m.free => r.vf[free_split_v(m, j)] = N(j)
                            /\ r.vf[spine_vid(m, t, j)] = N(j)
        /\ ~m.free => r.ef[rib_eid(m, 1)] = N(0)
        /\ r.vf[opp] = N(0)
        /\ r.vf[split_new_vid(m)] = IF m.free THEN N(1) ELSE N(0)
        /\ \A e \in edges(m) : e \notin NewEdges(m, 1) /\ e # ear(m, u, 0) /\ e # ear(m, u, 1)
                                  => r.ef[e] = m.ef[e]
        /\ \A v \in vertices(m) :
              v \notin NewVertices(m) /\ v # opp /\ v # spine_vid(m, t, 0)
                  /\ v # spine_vid(m, t, 1) => r.vf[v] = m.vf[v]
    BY DEF Replaced, u
  <2>2. /\ \A e \in NewEdges(m, 1) : e \notin edges(m)
        /\ \A v \in NewVertices(m) : v \notin vertices(m)
    BY NewIds DEF NewEdges, NewVertices, Manifold
  <2>3. 0 \in Sides /\ 1 \in Sides
    BY DEF Sides
  <2> HIDE DEF N, opp
  <2> QED
    BY <1>0, <2>1, <2>2, <2>3 DEF SplitNames, u, N, opp
<1> QED
  BY <1>0, <1>2, <1>3, <1>4, <1>5 DEF AllReplaced, SplitRows, u

\* The faces that go keep their rows until they are deleted.
LEMMA GoneRows ==
    ASSUME NEW m, Manifold(m), NEW t \in Tuples(m), NEW i \in 1 .. Len(Fan(m, t)),
           NEW n, Tables(n), faces(m) \subseteq faces(n),
           NEW r, Replaced(r, n, m, t, i, Fan(m, t)[i]),
           NEW g \in Gone(m, t), n.ff[g] = m.ff[g]
    PROVE  r.ff[g] = m.ff[g]
<1> DEFINE u == Fan(m, t)[i]
<1>1. g \in faces(m) /\ g # Null /\ 0 \in Sides /\ 1 \in Sides
  <2>1. g \in faces(m)
    BY Incident DEF IsFan, Gone, Tuples
  <2> QED
    BY <2>1, Rows DEF Manifold, Sides
<1>2. \A j \in Sides : behind(m, u, j) # Null => behind(m, u, j) \notin Gone(m, t)
  <2>1. \A j \in Sides : IsEar(m, t, u, j)
    BY Ears
  <2> HIDE DEF u
  <2> QED
    BY <2>1 DEF IsEar
<1>3. \A l \in Locals : r.ff[g][l] = IF g = behind(m, u, 0) /\ l = glue(m, u, 0) THEN split_f(m, i, 0)
                                   ELSE IF g = behind(m, u, 1) /\ l = glue(m, u, 1)
                                        THEN split_f(m, i, 1)
                                   ELSE n.ff[g][l]
  BY <1>1, ReplacedRows
<1>4. \A l \in Locals : r.ff[g][l] = n.ff[g][l]
  BY <1>1, <1>2, <1>3
<1>5. Tables(r) /\ faces(r) = faces(n) \cup {split_f(m, i, 0), split_f(m, i, 1)}
  BY ReplacedRows
<1>6. r.ff[g] \in [Locals -> Int] /\ n.ff[g] \in [Locals -> Int]
  BY <1>1, <1>5 DEF Tables
<1> QED
  BY <1>4, <1>6

\* Both incident faces are replaced; the halves name the faces that were across
\* the edge.
BothReplaced(r, m, t) ==
    AllReplaced(r, m, t, FALSE) /\ \A g \in Gone(m, t) : r.ff[g] = m.ff[g]

\* All faces at an inner edge are replaced after the second of them, which leaves
\* the halves of the first as they are.
LEMMA TwoReplaced ==
    ASSUME NEW m, Manifold(m), NEW t \in Tuples(m), Len(Fan(m, t)) = 2,
           NEW n, Replaced(n, m, m, t, 1, Fan(m, t)[1]),
           NEW r, Replaced(r, n, m, t, 2, Fan(m, t)[2])
    PROVE  BothReplaced(r, m, t)
<1> DEFINE U == Fan(m, t)
           u == U[1]
           w == U[2]
           p(j) == split_f(m, 1, j)
           q(j) == split_f(m, 2, j)
<1>0. /\ 1 .. Len(U) = {1, 2} /\ Sides = {0, 1} /\ 1 \in 1 .. Len(U) /\ 2 \in 1 .. Len(U)
      /\ u \in Tuples(m) /\ w \in Tuples(m) /\ ~m.free /\ 1 - 0 = 1 /\ 1 - 1 = 0
  <2>1. 1 .. Len(U) = {1, 2}
    OBVIOUS
  <2>2. IsFan(m, t, U)
    BY Incident
  <2> QED
    BY <2>1, <2>2 DEF IsFan, Sides
<1>1. Before(m, m, 1, u) /\ Before(n, m, 2, w)
  BY <1>0, FirstBefore, SecondBefore
<1>2. /\ Tables(n) /\ n.free = m.free
      /\ faces(n) = faces(m) \cup {p(0), p(1)}
      /\ vertices(n) = vertices(m) \cup NewVertices(m)
      /\ edges(n) = edges(m) \cup NewEdges(m, 1)
      /\ \A f \in faces(m) :
            /\ n.fv[f] = m.fv[f] /\ n.fe[f] = m.fe[f]
            /\ \A l \in Locals :
                  n.ff[f][l] = IF f = behind(m, u, 0) /\ l = glue(m, u, 0) THEN p(0)
                               ELSE IF f = behind(m, u, 1) /\ l = glue(m, u, 1) THEN p(1)
                               ELSE m.ff[f][l]
  BY ReplacedRows
<1>3. /\ Tables(r) /\ r.free = m.free
      /\ faces(r) = faces(n) \cup {q(0), q(1)}
      /\ vertices(r) = vertices(m) \cup NewVertices(m)
      /\ edges(r) = edges(n) \cup NewEdges(m, 2)
      /\ \A f \in faces(n) :
            /\ r.fv[f] = n.fv[f] /\ r.fe[f] = n.fe[f]
            /\ \A l \in Locals :
                  r.ff[f][l] = IF f = behind(m, w, 0) /\ l = glue(m, w, 0) THEN q(0)
                               ELSE IF f = behind(m, w, 1) /\ l = glue(m, w, 1) THEN q(1)
                               ELSE n.ff[f][l]
  <2>1. vertices(n) \cup NewVertices(m) = vertices(m) \cup NewVertices(m)
    BY <1>2
  <2> QED
    BY <1>2, <2>1, ReplacedRows
<1>4. \A j \in Sides : /\ p(j) \in Nat /\ p(j) \notin faces(m) /\ p(j) \in faces(n)
                       /\ q(j) \in Nat /\ q(j) \notin faces(m)
  BY <1>0, <1>2, NewIds DEF Manifold
<1>5. \A j \in Sides : IsEar(m, t, u, j) /\ IsEar(m, t, w, j)
  BY <1>0, Ears
<1>6. faces(r) = faces(m) \cup Halves(m, t) /\ edges(r) = edges(m) \cup SplitEdges(m, t)
  <2>1. Halves(m, t) = {p(0), p(1)} \cup {q(0), q(1)}
    BY <1>0, <1>4 DEF Halves
  <2>2. SplitEdges(m, t) = NewEdges(m, 1) \cup NewEdges(m, 2)
    <3>1. NewEdges(m, 1) \subseteq Nat /\ NewEdges(m, 2) \subseteq Nat
      BY NewIds DEF NewEdges, Manifold
    <3> QED
      BY <1>0, <3>1 DEF SplitEdges
  <2> QED
    BY <1>2, <1>3, <2>1, <2>2
<1>7. \A g \in Gone(m, t) : r.ff[g] = m.ff[g]
  <2> SUFFICES ASSUME NEW g \in Gone(m, t) PROVE r.ff[g] = m.ff[g]
    OBVIOUS
  <2>1. Tables(m) /\ faces(m) \subseteq faces(m) /\ faces(m) \subseteq faces(n)
    BY <1>2, ManifoldTables DEF Manifold
  <2>2. n.ff[g] = m.ff[g]
    <3>1. Replaced(n, m, m, t, 1, Fan(m, t)[1]) /\ m.ff[g] = m.ff[g] /\ 1 \in 1 .. Len(Fan(m, t))
      BY <1>0
    <3>2. Manifold(m) /\ t \in Tuples(m) /\ g \in Gone(m, t)
      OBVIOUS
    <3> QED
      BY ONLY <2>1, <3>1, <3>2, GoneRows
  <2> QED
    BY <1>0, <1>2, <2>1, <2>2, GoneRows
<1>8. \A j \in Sides : AtHalf(r, m, 2, j, w, m.ff[w.f][w.e])
  BY <1>0, <1>1, ReplacedHalf
<1>9. \A j \in Sides : AtHalf(n, m, 1, j, u, m.ff[u.f][u.e])
  BY <1>0, <1>1, ReplacedHalf
<1> HIDE DEF u, w
<1>10. \A j \in Sides : AtHalf(r, m, 1, j, u, m.ff[u.f][u.e])
  <2> SUFFICES ASSUME NEW j \in Sides PROVE AtHalf(r, m, 1, j, u, m.ff[u.f][u.e])
    OBVIOUS
  <2>1. \A l \in Sides : p(j) # behind(m, w, l)
    <3>1. Null \notin Nat
      BY DEF Null
    <3> QED
      BY <1>4, <1>5, <3>1 DEF IsEar
  <2>2. r.fv[p(j)] = n.fv[p(j)] /\ r.fe[p(j)] = n.fe[p(j)]
        /\ \A l \in Locals : r.ff[p(j)][l] = n.ff[p(j)][l]
    BY <1>0, <1>3, <1>4, <2>1
  <2>3. AtHalf(n, m, 1, j, u, m.ff[u.f][u.e])
    BY <1>9
  <2> QED
    BY <2>2, <2>3 DEF AtHalf
<1>11. ASSUME NEW f \in faces(m) \ Gone(m, t)
       PROVE  AtKept(r, m, t, f)
  <2>0. f # Null /\ f \in faces(n) /\ f \in faces(m)
    BY <1>2, Rows DEF Manifold
  <2>1. /\ r.fv[f] = m.fv[f] /\ r.fe[f] = m.fe[f]
        /\ \A l \in Locals :
              r.ff[f][l] = IF f = behind(m, w, 0) /\ l = glue(m, w, 0) THEN q(0)
                           ELSE IF f = behind(m, w, 1) /\ l = glue(m, w, 1) THEN q(1)
                           ELSE IF f = behind(m, u, 0) /\ l = glue(m, u, 0) THEN p(0)
                           ELSE IF f = behind(m, u, 1) /\ l = glue(m, u, 1) THEN p(1)
                           ELSE m.ff[f][l]
    BY <1>2, <1>3, <2>0
  \* A local edge of f is at one ear only: the faces behind it name the face
  \* that goes.
  <2>2. /\ u.f # w.f
        /\ f = behind(m, u, 0) => f # behind(m, u, 1)
        /\ f = behind(m, w, 0) => f # behind(m, w, 1)
    <3>1. \A x \in Tuples(m) : x.f \in faces(m) => (f = behind(m, x, 0) => f # behind(m, x, 1))
      <4> SUFFICES ASSUME NEW x \in Tuples(m), x.f \in faces(m), f = behind(m, x, 0),
                          f = behind(m, x, 1)
                   PROVE  FALSE
        OBVIOUS
      <4>1. pos(x, 0) # pos(x, 1) /\ pos(x, 0) \in Locals /\ pos(x, 1) \in Locals
        BY <1>0, Places
      <4>2. m.ff[x.f][pos(x, 1)] = f /\ m.ff[x.f][pos(x, 0)] = f
        BY <1>0 DEF behind
      <4> QED
        BY <2>0, <4>1, <4>2, MateOf
    <3>2. u.f # w.f
      BY Incident DEF IsFan, u, w
    <3> QED
      BY <1>0, <1>5, <3>1, <3>2 DEF IsEar
  <2>3. ASSUME NEW a \in {u, w}, NEW b \in {u, w}, NEW j \in Sides, NEW k \in Sides,
               f = behind(m, a, j), f = behind(m, b, k), glue(m, a, j) = glue(m, b, k)
        PROVE  a = b /\ j = k
    <3>1. \A c \in {u, w}, l \in Sides : f = behind(m, c, l) => m.ff[f][glue(m, c, l)] = c.f
      BY <1>5, <2>0 DEF IsEar
    <3>2. a.f = b.f
      BY <2>3, <3>1
    <3>3. a = b
      BY <2>2, <3>2
    <3>4. j = 0 \/ j = 1
      BY <1>0
    <3>5. k = 0 \/ k = 1
      BY <1>0
    <3> QED
      BY <2>2, <2>3, <3>3, <3>4, <3>5
  <2>4. \A l \in Locals :
           /\ \A i \in {1, 2}, j \in Sides :
                 f = behind(m, U[i], j) /\ l = glue(m, U[i], j) => r.ff[f][l] = split_f(m, i, j)
           /\ (\A i \in {1, 2}, j \in Sides : ~(f = behind(m, U[i], j) /\ l = glue(m, U[i], j)))
                 => r.ff[f][l] = m.ff[f][l]
    <3> SUFFICES ASSUME NEW l \in Locals
                 PROVE  /\ \A i \in {1, 2}, j \in Sides :
                             f = behind(m, U[i], j) /\ l = glue(m, U[i], j)
                                => r.ff[f][l] = split_f(m, i, j)
                        /\ (\A i \in {1, 2}, j \in Sides :
                              ~(f = behind(m, U[i], j) /\ l = glue(m, U[i], j)))
                              => r.ff[f][l] = m.ff[f][l]
      OBVIOUS
    <3>1. u # w
      BY <2>2
    <3> QED
      BY <1>0, <2>1, <2>3, <3>1 DEF u, w
  <2> QED
    BY <1>0, <2>1, <2>4 DEF AtKept
<1>12. SplitNames(r, m, t)
  <2> DEFINE o == m.fv[u.f][u.e]
             x == m.fv[w.f][w.e]
  <2>1. /\ \A j \in Sides : /\ n.ef[split_spine_eid(m, j)] = p(j) /\ n.ef[ear(m, u, j)] = p(j)
                            /\ n.vf[spine_vid(m, t, j)] = p(j)
        /\ n.ef[rib_eid(m, 1)] = p(0)
        /\ n.vf[o] = p(0)
        /\ \A e \in edges(m) : e \notin NewEdges(m, 1) /\ e # ear(m, u, 0) /\ e # ear(m, u, 1)
                                  => n.ef[e] = m.ef[e]
        /\ \A v \in vertices(m) :
              v \notin NewVertices(m) /\ v # o /\ v # spine_vid(m, t, 0)
                  /\ v # spine_vid(m, t, 1) => n.vf[v] = m.vf[v]
    BY <1>0 DEF Replaced, u
  <2>2. /\ \A j \in Sides : /\ r.ef[split_spine_eid(m, j)] = q(j) /\ r.ef[ear(m, w, j)] = q(j)
                            /\ r.vf[spine_vid(m, t, j)] = q(j)
        /\ r.ef[rib_eid(m, 2)] = q(0)
        /\ r.vf[x] = q(0)
        /\ r.vf[split_new_vid(m)] = q(0)
        /\ \A e \in edges(n) : e \notin NewEdges(m, 2) /\ e # ear(m, w, 0) /\ e # ear(m, w, 1)
                                  => r.ef[e] = n.ef[e]
        /\ \A v \in vertices(n) :
              v \notin NewVertices(m) /\ v # x /\ v # spine_vid(m, t, 0)
                  /\ v # spine_vid(m, t, 1) => r.vf[v] = n.vf[v]
    BY <1>0 DEF Replaced, w
  <2>3. /\ \A i \in {1, 2} : \A e \in NewEdges(m, i) : e \notin edges(m)
        /\ \A v \in NewVertices(m) : v \notin vertices(m)
        /\ rib_eid(m, 1) \in NewEdges(m, 1) /\ rib_eid(m, 1) \notin NewEdges(m, 2)
    <3>1. \A i \in {1, 2} : \A e \in NewEdges(m, i) : e \notin edges(m)
      BY <1>0, NewIds DEF NewEdges, Manifold
    <3>2. \A v \in NewVertices(m) : v \notin vertices(m)
      BY NewIds DEF NewVertices, Manifold
    <3>3. rib_eid(m, 1) \in NewEdges(m, 1) /\ rib_eid(m, 1) \notin NewEdges(m, 2)
      <4>1. NewEdges(m, 1) = {split_spine_eid(m, 0), split_spine_eid(m, 1), rib_eid(m, 1)}
            /\ NewEdges(m, 2) = {split_spine_eid(m, 0), split_spine_eid(m, 1), rib_eid(m, 2)}
        BY <1>0 DEF NewEdges
      <4>2. m.cap.e \in Nat
        BY DEF Manifold, Fields
      <4> QED
        BY <4>1, <4>2 DEF rib_eid, split_spine_eid
    <3> QED
      BY <3>1, <3>2, <3>3
  <2>4. o # x /\ o \in vertices(m) /\ x \in vertices(m)
    <3>1. o # x
      BY OppsDiffer DEF u, w
    <3>2. u.e \in Locals /\ w.e \in Locals /\ u.f \in faces(m) /\ w.f \in faces(m)
      BY <1>0 DEF Tuples
    <3> QED
      BY <3>1, <3>2, Rows DEF Manifold
  <2>5. \A j \in Sides : spine_vid(m, t, j) # o
    <3>1. \A j \in Sides : spine_vid(m, t, j) = m.fv[u.f][pos(u, j)]
      BY <1>0, Incident DEF IsFan, u
    <3>2. \A j \in Sides : pos(u, j) \in Locals /\ pos(u, j) # u.e
      BY <1>0, Places
    <3>3. u.e \in Locals /\ u.f \in faces(m)
      BY <1>0 DEF Tuples
    <3> QED
      BY <3>1, <3>2, <3>3 DEF Manifold, Corners
  <2>6. \A j, k \in Sides : ear(m, u, j) # ear(m, w, k)
    <3>1. \A j, k \in Sides : m.fe[U[1].f][pos(U[1], 1 - j)] = m.fe[U[2].f][pos(U[2], 1 - k)] => 1 = 2
      BY SMTT(20), <1>0, EarsDiffer
    <3> QED
      BY <3>1 DEF ear, u, w
  <2>7. r.vf[o] = p(0)
    <3>1. o \in vertices(n) /\ o \notin NewVertices(m)
      BY <1>2, <2>3, <2>4
    <3> QED
      BY <1>0, <2>1, <2>2, <2>4, <2>5, <3>1
  <2>8. \A j \in Sides : r.ef[ear(m, u, j)] = p(j)
    <3>1. \A j \in Sides : ear(m, u, j) \in edges(n) /\ ear(m, u, j) \notin NewEdges(m, 2)
      BY <1>2, <1>5, <2>3 DEF IsEar
    <3> QED
      BY <1>0, <2>1, <2>2, <2>6, <3>1
  <2>9. r.ef[rib_eid(m, 1)] = p(0)
    <3>1. rib_eid(m, 1) \in edges(n) /\ \A j \in Sides : rib_eid(m, 1) # ear(m, w, j)
      BY <1>2, <1>5, <2>3 DEF IsEar
    <3> QED
      BY <1>0, <2>1, <2>2, <2>3, <3>1
  <2>10. \A e \in edges(m) : (\A j \in Sides : e # ear(m, u, j) /\ e # ear(m, w, j))
                                => r.ef[e] = m.ef[e]
    BY <1>0, <1>2, <2>1, <2>2, <2>3
  <2>11. \A v \in vertices(m) : (\A j \in Sides : v # spine_vid(m, t, j)) /\ v # o /\ v # x
                                => r.vf[v] = m.vf[v]
    BY <1>0, <1>2, <2>1, <2>2, <2>3
  <2> HIDE DEF p, q, o, x
  <2>12. \A i \in {1, 2} : /\ \A j \in Sides : r.ef[ear(m, U[i], j)] = split_f(m, i, j)
                           /\ r.ef[rib_eid(m, i)] = split_f(m, i, 0)
                           /\ r.vf[m.fv[U[i].f][U[i].e]] = split_f(m, i, 0)
    BY <2>2, <2>7, <2>8, <2>9 DEF p, q, o, x, u, w
  <2>13. \A e \in edges(m) \ {id_edge(m, t)} :
            (\A i \in {1, 2}, j \in Sides : e # ear(m, U[i], j)) => r.ef[e] = m.ef[e]
    BY <2>10 DEF u, w
  <2>14. \A v \in vertices(m) :
            (\A j \in Sides : v # spine_vid(m, t, j)) /\ (\A i \in {1, 2} : v # m.fv[U[i].f][U[i].e])
                => r.vf[v] = m.vf[v]
    BY <2>11 DEF u, w, o, x
  <2>15. \A j \in Sides : /\ \E i \in {1, 2} : r.ef[split_spine_eid(m, j)] = split_f(m, i, j)
                          /\ \E i \in {1, 2} : r.vf[spine_vid(m, t, j)] = split_f(m, i, j)
    BY <2>2 DEF q
  <2>16. \E i \in {1, 2} : r.vf[split_new_vid(m)] = split_f(m, i, 0)
    BY <2>2 DEF q
  <2>17. ~m.free /\ 1 .. Len(U) = {1, 2}
    BY <1>0
  <2> HIDE DEF U
  <2>18. /\ \A e \in edges(m) \ {id_edge(m, t)} :
               (\A i \in 1 .. Len(U), j \in Sides : e # ear(m, U[i], j)) => r.ef[e] = m.ef[e]
         /\ \A v \in vertices(m) :
               (\A j \in Sides : v # spine_vid(m, t, j))
                    /\ (\A i \in 1 .. Len(U) : v # m.fv[U[i].f][U[i].e])
                  => r.vf[v] = m.vf[v]
    BY ONLY <2>13, <2>14, <2>17
  <2>19. /\ \A j \in Sides :
               /\ \E i \in 1 .. Len(U) : r.ef[split_spine_eid(m, j)] = split_f(m, i, j)
               /\ \E i \in 1 .. Len(U) : r.vf[spine_vid(m, t, j)] = split_f(m, i, j)
         /\ \E i \in 1 .. Len(U) : r.vf[split_new_vid(m)] = split_f(m, i, 0)
    BY ONLY <2>15, <2>16, <2>17
  <2>20. \A i \in 1 .. Len(U) : /\ \A j \in Sides : r.ef[ear(m, U[i], j)] = split_f(m, i, j)
                                /\ r.ef[rib_eid(m, i)] = split_f(m, i, 0)
                                /\ r.vf[m.fv[U[i].f][U[i].e]] = split_f(m, i, 0)
    BY ONLY <2>12, <2>17
  <2> QED
    BY ONLY <2>17, <2>18, <2>19, <2>20, Zenon DEF SplitNames, U
<1>13. \A i \in {1, 2}, j \in Sides : AtHalf(r, m, i, j, U[i], m.ff[U[i].f][U[i].e])
  BY <1>8, <1>10 DEF u, w
<1>14. SplitRows(r, m, t, FALSE)
  BY <1>0, <1>3, <1>11, <1>12, <1>13 DEF SplitRows
<1> QED
  BY <1>6, <1>7, <1>14 DEF AllReplaced, BothReplaced

\* r is n but for the faces across the local edges k of a and c, l of b and d.
Joined(r, n, a, b, c, d, k, l) ==
    /\ Tables(r) /\ r.free = n.free /\ r.cap = n.cap /\ r.fv = n.fv /\ r.fe = n.fe
    /\ r.vf = n.vf /\ r.ef = n.ef /\ faces(r) = faces(n)
    /\ \A f \in faces(n), i \in Locals :
          r.ff[f][i] = IF f = a /\ i = k THEN b ELSE IF f = b /\ i = l THEN a
                       ELSE IF f = c /\ i = k THEN d ELSE IF f = d /\ i = l THEN c
                       ELSE n.ff[f][i]

\* One write to the table of neighbours.
Written(r, n, a, k, b) ==
    /\ Tables(r) /\ r.free = n.free /\ r.cap = n.cap /\ r.fv = n.fv /\ r.fe = n.fe
    /\ r.vf = n.vf /\ r.ef = n.ef /\ faces(r) = faces(n)
    /\ \A f \in faces(n), i \in Locals : r.ff[f][i] = IF f = a /\ i = k THEN b ELSE n.ff[f][i]

\* One write to the table of neighbours changes one place of it.
LEMMA OneWrite ==
    ASSUME NEW n, Tables(n), NEW a, a \in faces(n), NEW k, k \in Locals, NEW b, b \in Nat
    PROVE  Written([n EXCEPT !.ff[a][k] = b], n, a, k, b)
<1> DEFINE r == [n EXCEPT !.ff[a][k] = b]
           g == [n.ff EXCEPT ![a][k] = b]
<1>1. n = [x \in Attributes |-> n[x]]
  BY DEF Tables, Plain
<1>2. r = [n EXCEPT !.ff = g]
  BY <1>1 DEF Attributes
<1> HIDE DEF r, g
<1>3. /\ Plain(r) /\ r.free = n.free /\ r.cap = n.cap /\ r.fv = n.fv /\ r.fe = n.fe
      /\ r.vf = n.vf /\ r.ef = n.ef /\ r.ff = g
  BY <1>1, <1>2 DEF Attributes, Plain
<1>4. n.ff \in [faces(n) -> [Locals -> Int]]
  BY DEF Tables
<1>5. /\ g \in [faces(n) -> [Locals -> Int]]
      /\ \A f \in faces(n), i \in Locals : g[f][i] = IF f = a /\ i = k THEN b ELSE n.ff[f][i]
  BY <1>4 DEF g
<1>6. faces(r) = faces(n) /\ vertices(r) = vertices(n) /\ edges(r) = edges(n)
  BY <1>3 DEF faces, vertices, edges
<1>7. Written(r, n, a, k, b)
  BY <1>3, <1>5, <1>6 DEF Tables, Written
<1> QED
  BY <1>7 DEF r

\* connect_faces_across_spine joins two pairs of faces, each to the other.
LEMMA FourWrites ==
    ASSUME NEW n, Tables(n), NEW a \in faces(n), NEW b \in faces(n), NEW c \in faces(n),
           NEW d \in faces(n), a # b, a # c, a # d, b # c, b # d, c # d,
           NEW k \in Locals, NEW l \in Locals
    PROVE  Joined([n EXCEPT !.ff[a][k] = b, !.ff[b][l] = a, !.ff[c][k] = d, !.ff[d][l] = c],
                  n, a, b, c, d, k, l)
<1> DEFINE r1 == [n EXCEPT !.ff[a][k] = b]
           r2 == [r1 EXCEPT !.ff[b][l] = a]
           r3 == [r2 EXCEPT !.ff[c][k] = d]
           r4 == [r3 EXCEPT !.ff[d][l] = c]
<1>1. [n EXCEPT !.ff[a][k] = b, !.ff[b][l] = a, !.ff[c][k] = d, !.ff[d][l] = c] = r4
  OBVIOUS
<1> HIDE DEF r4
<1>2. a \in Nat /\ b \in Nat /\ c \in Nat /\ d \in Nat
  BY DEF Tables
<1>3. Written(r1, n, a, k, b)
  BY <1>2, OneWrite
<1> HIDE DEF r1
<1>4. Written(r2, r1, b, l, a)
  <2>1. Tables(r1) /\ b \in faces(r1)
    BY <1>3 DEF Written
  <2> QED
    BY <1>2, <2>1, OneWrite
<1> HIDE DEF r2
<1>5. Written(r3, r2, c, k, d)
  <2>1. Tables(r2) /\ c \in faces(r2)
    BY <1>3, <1>4 DEF Written
  <2> QED
    BY <1>2, <2>1, OneWrite
<1> HIDE DEF r3
<1>6. Written(r4, r3, d, l, c)
  <2>1. Tables(r3) /\ d \in faces(r3)
    BY <1>3, <1>4, <1>5 DEF Written
  <2> QED
    BY <1>2, <2>1, OneWrite DEF r4
<1>7. \A f \in faces(n), i \in Locals :
          r4.ff[f][i] = IF f = a /\ i = k THEN b ELSE IF f = b /\ i = l THEN a
                        ELSE IF f = c /\ i = k THEN d ELSE IF f = d /\ i = l THEN c
                        ELSE n.ff[f][i]
  BY <1>3, <1>4, <1>5, <1>6 DEF Written
<1>8. Joined(r4, n, a, b, c, d, k, l)
  BY <1>3, <1>4, <1>5, <1>6, <1>7 DEF Written, Joined
<1> QED
  BY <1>1, <1>8

\* The deletion of vertices, edges and faces.
Removed(r, n, V, E, F) ==
    /\ Tables(r) /\ r.free = n.free /\ r.cap = n.cap
    /\ vertices(r) = vertices(n) \ V
    /\ faces(r) = faces(n) \ F /\ edges(r) = edges(n) \ E
    /\ \A f \in faces(n) \ F : r.fv[f] = n.fv[f] /\ r.fe[f] = n.fe[f] /\ r.ff[f] = n.ff[f]
    /\ \A e \in edges(n) \ E : r.ef[e] = n.ef[e]
    /\ \A v \in vertices(n) \ V : r.vf[v] = n.vf[v]
\* The deletion of faces and edges.
Deleted(r, n, E, F) == Removed(r, n, {}, E, F) /\ r.vf = n.vf

IsRestricted(g, f, S, X, T) == g \in [S \ T -> X] /\ \A x \in S \ T : g[x] = f[x]

\* Restrict keeps the values of a function at the arguments that stay.
LEMMA RestrictIs ==
    ASSUME NEW S, NEW X, NEW f, f \in [S -> X], NEW T
    PROVE  IsRestricted(Restrict(f, DOMAIN f \ T), f, S, X, T)
BY DEF Restrict, IsRestricted

\* delete_simplices drops the rows of what it deletes and keeps all others.
LEMMA RemoveSimplices ==
    ASSUME NEW n, Tables(n), NEW V, NEW E, NEW F
    PROVE  Removed(delete_simplices(n, V, E, F), n, V, E, F)
<1> DEFINE r == delete_simplices(n, V, E, F)
<1>1. n = [x \in Attributes |-> n[x]]
  BY DEF Tables, Plain
<1>2. r = [n EXCEPT !.vf = Restrict(n.vf, DOMAIN n.vf \ V), !.ef = Restrict(n.ef, DOMAIN n.ef \ E),
              !.fv = Restrict(n.fv, DOMAIN n.fv \ F), !.fe = Restrict(n.fe, DOMAIN n.fe \ F),
              !.ff = Restrict(n.ff, DOMAIN n.ff \ F)]
  BY <1>1 DEF delete_simplices, Attributes
<1> HIDE DEF r
<1>3. /\ Plain(r) /\ r.free = n.free /\ r.cap = n.cap
      /\ r.vf = Restrict(n.vf, DOMAIN n.vf \ V) /\ r.ef = Restrict(n.ef, DOMAIN n.ef \ E)
      /\ r.fv = Restrict(n.fv, DOMAIN n.fv \ F) /\ r.fe = Restrict(n.fe, DOMAIN n.fe \ F)
      /\ r.ff = Restrict(n.ff, DOMAIN n.ff \ F)
  BY <1>1, <1>2 DEF Attributes, Plain
<1>4. /\ n.fe \in [faces(n) -> [Locals -> Int]] /\ n.ff \in [faces(n) -> [Locals -> Int]]
      /\ n.fv \in [faces(n) -> [Locals -> Int]] /\ n.vf \in [vertices(n) -> Int]
      /\ n.ef \in [edges(n) -> Int] /\ faces(n) \subseteq Nat
  BY DEF Tables
<1>5. /\ IsRestricted(r.fv, n.fv, faces(n), [Locals -> Int], F)
      /\ IsRestricted(r.fe, n.fe, faces(n), [Locals -> Int], F)
      /\ IsRestricted(r.ff, n.ff, faces(n), [Locals -> Int], F)
      /\ IsRestricted(r.ef, n.ef, edges(n), Int, E)
      /\ IsRestricted(r.vf, n.vf, vertices(n), Int, V)
  <2>1. IsRestricted(r.fv, n.fv, faces(n), [Locals -> Int], F)
    BY <1>3, <1>4, RestrictIs
  <2>2. IsRestricted(r.fe, n.fe, faces(n), [Locals -> Int], F)
    BY <1>3, <1>4, RestrictIs
  <2>3. IsRestricted(r.ff, n.ff, faces(n), [Locals -> Int], F)
    BY <1>3, <1>4, RestrictIs
  <2>4. IsRestricted(r.ef, n.ef, edges(n), Int, E)
    BY <1>3, <1>4, RestrictIs
  <2>5. IsRestricted(r.vf, n.vf, vertices(n), Int, V)
    BY <1>3, <1>4, RestrictIs
  <2> QED
    BY <2>1, <2>2, <2>3, <2>4, <2>5
<1>6. /\ r.fv \in [faces(n) \ F -> [Locals -> Int]] /\ r.fe \in [faces(n) \ F -> [Locals -> Int]]
      /\ r.ff \in [faces(n) \ F -> [Locals -> Int]] /\ r.ef \in [edges(n) \ E -> Int]
      /\ r.vf \in [vertices(n) \ V -> Int]
      /\ \A f \in faces(n) \ F : r.fv[f] = n.fv[f] /\ r.fe[f] = n.fe[f] /\ r.ff[f] = n.ff[f]
      /\ \A e \in edges(n) \ E : r.ef[e] = n.ef[e]
      /\ \A v \in vertices(n) \ V : r.vf[v] = n.vf[v]
  BY <1>5 DEF IsRestricted
<1>7. /\ faces(r) = faces(n) \ F /\ edges(r) = edges(n) \ E /\ vertices(r) = vertices(n) \ V
  BY <1>6 DEF faces, edges, vertices
<1>8. Removed(r, n, V, E, F)
  <2>1. Tables(r)
    BY <1>3, <1>4, <1>6, <1>7 DEF Tables
  <2> QED
    BY <1>3, <1>6, <1>7, <2>1 DEF Removed
<1> QED
  BY <1>8 DEF r

\* The same where no vertex is deleted, as after a split.
LEMMA DeleteSimplices ==
    ASSUME NEW n, Tables(n), NEW E, NEW F
    PROVE  Deleted(delete_simplices(n, {}, E, F), n, E, F)
<1> DEFINE r == delete_simplices(n, {}, E, F)
<1>1. Removed(r, n, {}, E, F)
  BY RemoveSimplices
<1> HIDE DEF r
<1>2. r.vf = n.vf
  <2>1. r.vf \in [vertices(r) -> Int] /\ n.vf \in [vertices(n) -> Int]
    BY <1>1 DEF Removed, Tables
  <2>2. vertices(r) = vertices(n) /\ \A v \in vertices(n) : r.vf[v] = n.vf[v]
    BY <1>1 DEF Removed
  <2> QED
    BY <2>1, <2>2
<1> QED
  BY <1>1, <1>2 DEF Deleted, r

\* The halves are joined across the halves of the edge.
LEMMA JoinHalves ==
    ASSUME NEW m, Manifold(m), NEW t \in Tuples(m), Len(Fan(m, t)) = 2,
           NEW n, AllReplaced(n, m, t, FALSE),
           NEW r, Joined(r, n, split_f(m, 1, 0), split_f(m, 2, 0), split_f(m, 1, 1),
                         split_f(m, 2, 1), Fan(m, t)[1].e, Fan(m, t)[2].e)
    PROVE  AllReplaced(r, m, t, TRUE)
<1> DEFINE U == Fan(m, t)
           N(i, j) == split_f(m, i, j)
<1>0. /\ 1 .. Len(U) = {1, 2} /\ Sides = {0, 1} /\ U[1] \in Tuples(m) /\ U[2] \in Tuples(m)
      /\ 3 - 1 = 2 /\ 3 - 2 = 1
  <2>1. 1 .. Len(U) = {1, 2} /\ 1 \in 1 .. Len(U) /\ 2 \in 1 .. Len(U)
    OBVIOUS
  <2>2. IsFan(m, t, U)
    BY Incident
  <2> QED
    BY <2>1, <2>2 DEF IsFan, Sides
<1>1. /\ \A i \in {1, 2}, j \in Sides : N(i, j) \in faces(n) /\ N(i, j) \notin faces(m)
      /\ N(1, 0) # N(1, 1) /\ N(1, 0) # N(2, 0) /\ N(1, 0) # N(2, 1)
      /\ N(1, 1) # N(2, 0) /\ N(1, 1) # N(2, 1) /\ N(2, 0) # N(2, 1)
  <2>1. \A i \in {1, 2}, j \in Sides : N(i, j) \in Nat /\ N(i, j) \notin faces(m)
    BY NewIds DEF Manifold
  <2>2. \A i \in {1, 2}, j \in Sides : N(i, j) \in faces(n)
    BY <1>0, <2>1 DEF AllReplaced, Halves
  <2>3. m.cap.f \in Nat
    BY DEF Manifold, Fields
  <2>4. /\ N(1, 0) # N(1, 1) /\ N(1, 0) # N(2, 0) /\ N(1, 0) # N(2, 1)
        /\ N(1, 1) # N(2, 0) /\ N(1, 1) # N(2, 1) /\ N(2, 0) # N(2, 1)
    BY <2>3 DEF split_f
  <2> QED
    BY <2>1, <2>2, <2>4
<1>2. /\ Tables(r) /\ r.free = n.free /\ r.cap = n.cap /\ r.fv = n.fv /\ r.fe = n.fe
      /\ r.vf = n.vf /\ r.ef = n.ef /\ faces(r) = faces(n)
      /\ \A f \in faces(n), k \in Locals :
          r.ff[f][k] = IF f = N(1, 0) /\ k = U[1].e THEN N(2, 0)
                       ELSE IF f = N(2, 0) /\ k = U[2].e THEN N(1, 0)
                       ELSE IF f = N(1, 1) /\ k = U[1].e THEN N(2, 1)
                       ELSE IF f = N(2, 1) /\ k = U[2].e THEN N(1, 1)
                       ELSE n.ff[f][k]
  BY DEF Joined
<1>3. /\ SplitRows(n, m, t, FALSE)
      /\ faces(n) = faces(m) \cup Halves(m, t)
      /\ edges(n) = edges(m) \cup SplitEdges(m, t)
  BY DEF AllReplaced
<1>4. vertices(r) = vertices(n) /\ edges(r) = edges(n)
  BY <1>2 DEF vertices, edges
<1>5. ASSUME NEW f \in faces(m) \ Gone(m, t)
      PROVE  AtKept(r, m, t, f)
  <2>1. AtKept(n, m, t, f)
    BY <1>3 DEF SplitRows
  <2>2. \A k \in Locals : r.ff[f][k] = n.ff[f][k]
    BY <1>0, <1>1, <1>2, <1>3
  <2> QED
    BY <1>2, <2>1, <2>2 DEF AtKept
<1>6. ASSUME NEW i \in {1, 2}, NEW j \in Sides
      PROVE  AtHalf(r, m, i, j, U[i], N(3 - i, j))
  <2>1. AtHalf(n, m, i, j, U[i], m.ff[U[i].f][U[i].e])
    BY <1>0, <1>3 DEF SplitRows
  <2>2. \A k \in Locals : r.ff[N(i, j)][k] = IF k = U[i].e THEN N(3 - i, j) ELSE n.ff[N(i, j)][k]
    BY <1>0, <1>1, <1>2
  <2>3. pos(U[i], j) # U[i].e
    BY <1>0, Places
  <2> QED
    BY <1>2, <2>1, <2>2, <2>3 DEF AtHalf
<1>7. SplitNames(r, m, t)
  <2>1. SplitNames(n, m, t)
    BY <1>3 DEF SplitRows
  <2>2. r.vf = n.vf /\ r.ef = n.ef
    BY <1>2
  <2> QED
    BY ONLY SMTT(20), <2>1, <2>2 DEF SplitNames
<1>8. SplitRows(r, m, t, TRUE)
  <2>1. /\ Tables(r) /\ r.free = m.free /\ vertices(r) = vertices(m) \cup NewVertices(m)
    BY <1>2, <1>3, <1>4 DEF SplitRows
  <2>2. \A i \in 1 .. Len(U), j \in Sides :
           AtHalf(r, m, i, j, U[i], IF ~TRUE THEN m.ff[U[i].f][U[i].e]
                                    ELSE IF Len(U) = 1 THEN Null ELSE split_f(m, 3 - i, j))
    <3>1. Len(U) # 1
      OBVIOUS
    <3>2. \A i \in 1 .. Len(U), j \in Sides : AtHalf(r, m, i, j, U[i], split_f(m, 3 - i, j))
      BY <1>0, <1>6
    <3> QED
      BY <3>1, <3>2
  <2> QED
    BY ONLY <1>5, <1>7, <2>1, <2>2 DEF SplitRows
<1> QED
  BY <1>2, <1>3, <1>4, <1>8 DEF AllReplaced

\* split_edge leaves the tables of SplitTables.
LEMMA SplitEdgeIs ==
    ASSUME NEW m, Manifold(m), NEW t \in Tuples(m)
    PROVE  SplitTables(split_edge(m, t), m, t)
<1> DEFINE U == Fan(m, t)
           d == incident_face_datas(m, t)
           one == replace_incident_face(m, t, m, d[1], 1)
           both == replace_incident_face(m, t, one, d[2], 2)
           two == connect_faces_across_spine(m, d, both)
           n == IF Len(d) = 1 THEN one ELSE two
           q == delete_simplices(n, {}, {id_edge(m, t)}, {d[i].f : i \in DOMAIN d})
           r == [q EXCEPT !.cap = requested(m, t)]
<1>1. split_edge(m, t) = r
  BY DEF split_edge
<1>2. IsFan(m, t, U)
  BY Incident
<1>3. /\ DOMAIN d = 1 .. Len(U) /\ Len(d) = Len(U)
      /\ \A i \in 1 .. Len(U) : d[i] = get_incident_face_data(m, U[i])
  BY FanData
<1> HIDE DEF d
<1>4. Len(U) \in {1, 2} /\ 1 \in 1 .. Len(U) /\ \A i \in 1 .. Len(U) : i \in {1, 2}
  <2>1. Len(U) \in {1, 2}
    BY <1>2 DEF IsFan
  <2> DEFINE k == Len(U)
  <2> HIDE DEF k
  <2>2. k = 1 \/ k = 2
    BY <2>1 DEF k
  <2>3. 1 \in 1 .. k /\ \A i \in 1 .. k : i \in {1, 2}
    BY <2>2
  <2> QED
    BY <2>1, <2>3 DEF k
<1>5. Replaced(one, m, m, t, 1, U[1])
  BY <1>3, <1>4, FirstBefore, ReplaceFace
<1> HIDE DEF one
<1>6. AllReplaced(n, m, t, TRUE)
  <2>1. CASE Len(U) = 1
    <3>1. n = one
      BY <1>3, <2>1
    <3>2. AllReplaced(one, m, t, TRUE)
      BY <1>5, <2>1, OneReplaced
    <3> QED
      BY ONLY <3>1, <3>2
  <2>2. CASE Len(U) = 2
    <3>0. 2 \in 1 .. Len(U) /\ U[1] \in Tuples(m) /\ U[2] \in Tuples(m) /\ U[1].f # U[2].f
          /\ m.ff[U[1].f][U[1].e] = U[2].f /\ m.ff[U[2].f][U[2].e] = U[1].f
      <4>1. 3 - 1 = 2 /\ 3 - 2 = 1 /\ Len(U) # 1
        BY <2>2
      <4> QED
        BY <1>2, <2>2, <4>1 DEF IsFan
    <3>1. Before(one, m, 2, U[2])
      BY <1>5, <2>2, SecondBefore
    <3>2. one.free = m.free
      BY <1>5 DEF Replaced
    <3>3. Replaced(both, one, m, t, 2, U[2])
      BY <1>3, <3>0, <3>1, <3>2, ReplaceFace
    <3> HIDE DEF both
    <3>4. AllReplaced(both, m, t, FALSE) /\ \A g \in Gone(m, t) : both.ff[g] = m.ff[g]
      <4>1. Manifold(m) /\ t \in Tuples(m) /\ Len(Fan(m, t)) = 2
            /\ Replaced(one, m, m, t, 1, Fan(m, t)[1]) /\ Replaced(both, one, m, t, 2, Fan(m, t)[2])
        BY <1>5, <2>2, <3>3
      <4>2. BothReplaced(both, m, t)
        BY ONLY <4>1, TwoReplaced
      <4> QED
        BY ONLY <4>2 DEF BothReplaced
    <3> DEFINE local(i) == index(both.ff[d[i].f], d[3 - i].f)
    <3>5. local(1) = U[1].e /\ local(2) = U[2].e
      <4>1. d[1].f = U[1].f /\ d[2].f = U[2].f /\ 3 - 1 = 2 /\ 3 - 2 = 1
        <5>1. \A u \in Tuples(m) : get_incident_face_data(m, u).f = u.f
          BY DEF get_incident_face_data
        <5>2. d[1] = get_incident_face_data(m, U[1]) /\ d[2] = get_incident_face_data(m, U[2])
          BY <1>3, <1>4, <3>0
        <5> QED
          BY <1>3, <1>4, <3>0, <5>1, <5>2
      <4>2. both.ff[U[1].f] = m.ff[U[1].f] /\ both.ff[U[2].f] = m.ff[U[2].f]
        BY <1>2, <1>4, <3>0, <3>4 DEF IsFan, Gone
      <4>3. \A f \in faces(m), k \in Locals : m.ff[f][k] # Null => index(m.ff[f], m.ff[f][k]) = k
        <5> SUFFICES ASSUME NEW f \in faces(m), NEW k \in Locals, m.ff[f][k] # Null
                     PROVE  index(m.ff[f], m.ff[f][k]) = k
          OBVIOUS
        <5>1. \A j \in Locals : m.ff[f][j] = m.ff[f][k] => j = k
          BY MateOf
        <5> QED
          BY <5>1, IndexIs
      <4>4. U[1].f \in faces(m) /\ U[2].f \in faces(m) /\ U[1].e \in Locals /\ U[2].e \in Locals
            /\ U[1].f # Null /\ U[2].f # Null
        BY <3>0, Rows DEF Tuples, Manifold
      <4> QED
        BY <3>0, <4>1, <4>2, <4>3, <4>4
    <3>6. two = [both EXCEPT !.ff[split_f(m, 1, 0)][U[1].e] = split_f(m, 2, 0),
                             !.ff[split_f(m, 2, 0)][U[2].e] = split_f(m, 1, 0),
                             !.ff[split_f(m, 1, 1)][U[1].e] = split_f(m, 2, 1),
                             !.ff[split_f(m, 2, 1)][U[2].e] = split_f(m, 1, 1)]
      <4>1. two = [both EXCEPT !.ff[split_f(m, 1, 0)][local(1)] = split_f(m, 2, 0),
                             !.ff[split_f(m, 2, 0)][local(2)] = split_f(m, 1, 0),
                             !.ff[split_f(m, 1, 1)][local(1)] = split_f(m, 2, 1),
                             !.ff[split_f(m, 2, 1)][local(2)] = split_f(m, 1, 1)]
        BY DEF connect_faces_across_spine
      <4> HIDE DEF local, two
      <4> QED
        BY <3>5, <4>1
    <3>7. Joined(two, both, split_f(m, 1, 0), split_f(m, 2, 0), split_f(m, 1, 1),
                 split_f(m, 2, 1), U[1].e, U[2].e)
      <4>1. Tables(both)
        BY <3>4 DEF AllReplaced, SplitRows
      <4>2. \A i \in {1, 2}, j \in Sides : split_f(m, i, j) \in faces(both)
        <5>1. \A i \in {1, 2}, j \in Sides : split_f(m, i, j) \in Nat
          BY NewIds DEF Manifold
        <5>2. 1 .. Len(U) = {1, 2}
          BY <2>2
        <5> QED
          BY <3>4, <5>1, <5>2 DEF AllReplaced, Halves
      <4>3. /\ split_f(m, 1, 0) # split_f(m, 1, 1) /\ split_f(m, 1, 0) # split_f(m, 2, 0)
            /\ split_f(m, 1, 0) # split_f(m, 2, 1) /\ split_f(m, 1, 1) # split_f(m, 2, 0)
            /\ split_f(m, 1, 1) # split_f(m, 2, 1) /\ split_f(m, 2, 0) # split_f(m, 2, 1)
        BY DEF split_f, Manifold, Fields
      <4>4. U[1].e \in Locals /\ U[2].e \in Locals /\ 0 \in Sides /\ 1 \in Sides
        BY <3>0 DEF Tuples, Sides
      <4> HIDE DEF two
      <4> QED
        BY <3>6, <4>1, <4>2, <4>3, <4>4, FourWrites
    <3> HIDE DEF two
    <3>8. AllReplaced(two, m, t, TRUE)
      BY <2>2, <3>4, <3>7, JoinHalves
    <3>9. n = two
      BY <1>3, <2>2
    <3> QED
      BY ONLY <3>8, <3>9
  <2>3. Len(U) = 1 \/ Len(U) = 2
    BY <1>4
  <2> QED
    BY ONLY <2>1, <2>2, <2>3
<1> HIDE DEF n
<1>7. {d[i].f : i \in DOMAIN d} = Gone(m, t)
  <2>1. \A i \in 1 .. Len(U) : d[i].f = U[i].f
    BY <1>3 DEF get_incident_face_data
  <2>2. DOMAIN U = 1 .. Len(U)
    BY <1>2 DEF IsFan
  <2> QED
    BY <1>3, <2>1, <2>2 DEF Gone
<1>8. Deleted(q, n, {id_edge(m, t)}, Gone(m, t))
  BY <1>6, <1>7, DeleteSimplices DEF AllReplaced, SplitRows
<1> HIDE DEF q
<1>9. /\ Tables(r) /\ r.free = q.free /\ r.cap = requested(m, t) /\ r.fv = q.fv /\ r.fe = q.fe
      /\ r.ff = q.ff /\ r.vf = q.vf /\ r.ef = q.ef
  <2>1. Tables(q)
    BY <1>8 DEF Deleted, Removed
  <2>2. q = [x \in Attributes |-> q[x]]
    BY <2>1 DEF Tables, Plain
  <2>3. /\ Plain(r) /\ r.free = q.free /\ r.cap = requested(m, t) /\ r.fv = q.fv /\ r.fe = q.fe
        /\ r.ff = q.ff /\ r.vf = q.vf /\ r.ef = q.ef
    BY <2>2 DEF Attributes, Plain
  <2> HIDE DEF r
  <2>4. faces(r) = faces(q) /\ edges(r) = edges(q) /\ vertices(r) = vertices(q)
    BY <2>3 DEF faces, edges, vertices
  <2>5. Tables(r)
    BY <2>1, <2>3, <2>4 DEF Tables
  <2> QED
    BY <2>3, <2>5
<1> HIDE DEF r
<1>10. SplitTables(r, m, t)
  <2>1. \A f \in (faces(m) \ Gone(m, t)) \cup Halves(m, t) :
           f \in faces(n) \ Gone(m, t) /\ r.fv[f] = n.fv[f] /\ r.fe[f] = n.fe[f] /\ r.ff[f] = n.ff[f]
    <3>1. \A f \in Halves(m, t) : f \notin Gone(m, t)
      <4>1. \A f \in Gone(m, t) : f \in faces(m)
        BY <1>2 DEF IsFan, Gone, Tuples
      <4>2. \A f \in Halves(m, t) : f \notin faces(m)
        <5>1. \A i \in 1 .. Len(U) : i \in {1, 2}
          BY <1>4
        <5> QED
          BY <5>1, NewIds DEF Manifold, Halves
      <4> QED
        BY <4>1, <4>2
    <3> QED
      BY <1>6, <1>8, <1>9, <3>1 DEF AllReplaced, Deleted, Removed
  <2>2. faces(r) = (faces(m) \ Gone(m, t)) \cup Halves(m, t)
    BY <1>6, <1>8, <1>9, <2>1 DEF AllReplaced, Deleted, Removed, faces
  <2>3. edges(r) = (edges(m) \ {id_edge(m, t)}) \cup SplitEdges(m, t) /\ vertices(r) = vertices(n)
    <3>1. \A i \in 1 .. Len(U) : i \in {1, 2}
      BY <1>4
    <3>2. \A e \in SplitEdges(m, t) : e \notin edges(m)
      BY <3>1, NewIds DEF SplitEdges, NewEdges, Manifold
    <3>3. id_edge(m, t) \in edges(m)
      BY Rows DEF Manifold, id_edge, Tuples
    <3> QED
      BY <1>6, <1>8, <1>9, <3>2, <3>3 DEF AllReplaced, Deleted, Removed, edges, vertices
  <2>4. SplitRows(n, m, t, TRUE)
    BY <1>6 DEF AllReplaced
  <2>5. \A f \in faces(m) \ Gone(m, t) : AtKept(r, m, t, f)
    BY <2>1, <2>4 DEF SplitRows, AtKept
  <2>6. \A i \in 1 .. Len(U), j \in Sides :
           AtHalf(r, m, i, j, U[i], IF Len(U) = 1 THEN Null ELSE split_f(m, 3 - i, j))
    <3>1. \A i \in 1 .. Len(U), j \in Sides : split_f(m, i, j) \in Halves(m, t)
      <4>1. \A i \in 1 .. Len(U) : i \in {1, 2}
        BY <1>4
      <4> QED
        BY <4>1, NewIds DEF Manifold, Halves
    <3>2. \A i \in 1 .. Len(U), j \in Sides :
             AtHalf(n, m, i, j, U[i], IF Len(U) = 1 THEN Null ELSE split_f(m, 3 - i, j))
      BY <2>4 DEF SplitRows
    <3> QED
      BY <2>1, <3>1, <3>2 DEF AtHalf
  <2>7. SplitNames(r, m, t)
    <3>1. r.vf = n.vf /\ \A e \in edges(n) \ {id_edge(m, t)} : r.ef[e] = n.ef[e]
      BY <1>8, <1>9 DEF Deleted, Removed
    <3>2. SplitNames(n, m, t)
      BY <2>4 DEF SplitRows
    <3>3. id_edge(m, t) \in edges(m)
      BY Rows DEF Manifold, id_edge, Tuples
    <3>4. \A i \in 1 .. Len(U), j \in Sides :
             ear(m, U[i], j) \in edges(n) \ {id_edge(m, t)}
      BY <1>6, Ears DEF IsEar, AllReplaced
    <3>5. \A i \in 1 .. Len(U) : \A e \in NewEdges(m, i) : e \in edges(n) \ {id_edge(m, t)}
      <4>1. \A i \in 1 .. Len(U) : i \in {1, 2}
        BY <1>4
      <4>2. \A i \in 1 .. Len(U) : \A e \in NewEdges(m, i) : e \in Nat /\ e \notin edges(m)
        BY <4>1, NewIds DEF NewEdges, Manifold
      <4> QED
        BY <1>6, <3>3, <4>2 DEF AllReplaced, SplitEdges
    <3>6. \A i \in 1 .. Len(U), j \in Sides :
             /\ split_spine_eid(m, j) \in NewEdges(m, i)
             /\ m.free => free_split_e(m, j) \in NewEdges(m, i)
             /\ ~m.free => rib_eid(m, i) \in NewEdges(m, i)
      BY DEF NewEdges
    <3>7. \A j \in Sides : \E i \in 1 .. Len(U) : r.ef[split_spine_eid(m, j)] = split_f(m, i, j)
      <4> SUFFICES ASSUME NEW j \in Sides
                   PROVE  \E i \in 1 .. Len(U) : r.ef[split_spine_eid(m, j)] = split_f(m, i, j)
        OBVIOUS
      <4>1. split_spine_eid(m, j) \in edges(n) \ {id_edge(m, t)}
        BY <1>4, <3>5, <3>6
      <4> QED
        BY <3>1, <3>2, <4>1 DEF SplitNames
    <3>8. \A j \in Sides : m.free => r.ef[free_split_e(m, j)] = split_f(m, 1, j)
      <4> SUFFICES ASSUME NEW j \in Sides, m.free
                   PROVE  r.ef[free_split_e(m, j)] = split_f(m, 1, j)
        OBVIOUS
      <4>1. free_split_e(m, j) \in edges(n) \ {id_edge(m, t)}
        BY <1>4, <3>5, <3>6
      <4> QED
        BY <3>1, <3>2, <4>1 DEF SplitNames
    <3>9. \A i \in 1 .. Len(U) :
             /\ \A j \in Sides : r.ef[ear(m, U[i], j)] = split_f(m, i, j)
             /\ ~m.free => r.ef[rib_eid(m, i)] = split_f(m, i, 0)
      <4> SUFFICES ASSUME NEW i \in 1 .. Len(U)
                   PROVE  /\ \A j \in Sides : r.ef[ear(m, U[i], j)] = split_f(m, i, j)
                          /\ ~m.free => r.ef[rib_eid(m, i)] = split_f(m, i, 0)
        OBVIOUS
      <4>1. ~m.free => rib_eid(m, i) \in edges(n) \ {id_edge(m, t)}
        <5>1. 0 \in Sides
          BY DEF Sides
        <5> QED
          BY <3>5, <3>6, <5>1
      <4> QED
        BY <3>1, <3>2, <3>4, <4>1 DEF SplitNames
    <3>10. \A e \in edges(m) \ {id_edge(m, t)} : r.ef[e] = n.ef[e]
      BY <1>6, <3>1 DEF AllReplaced
    <3> DEFINE opp(i) == m.fv[U[i].f][U[i].e]
    <3>11. /\ \A j \in Sides : \E i \in 1 .. Len(U) : n.vf[spine_vid(m, t, j)] = split_f(m, i, j)
           /\ \A j \in Sides : m.free => n.vf[free_split_v(m, j)] = split_f(m, 1, j)
           /\ \A i \in 1 .. Len(U) : n.vf[opp(i)] = split_f(m, i, 0)
           /\ m.free => n.vf[split_new_vid(m)] = split_f(m, 1, 1)
           /\ ~m.free => \E i \in 1 .. Len(U) : n.vf[split_new_vid(m)] = split_f(m, i, 0)
           /\ \A v \in vertices(m) :
                 (\A j \in Sides : v # spine_vid(m, t, j)) /\ (\A i \in 1 .. Len(U) : v # opp(i))
                     => n.vf[v] = m.vf[v]
      BY <3>2 DEF SplitNames
    <3>12. \A e \in edges(m) \ {id_edge(m, t)} :
              (\A i \in 1 .. Len(U), j \in Sides : e # ear(m, U[i], j)) => r.ef[e] = m.ef[e]
      BY <3>2, <3>10 DEF SplitNames
    <3>13. \A j \in Sides : \E i \in 1 .. Len(U) : r.vf[spine_vid(m, t, j)] = split_f(m, i, j)
      BY ONLY <3>1, <3>11
    <3>14. \A j \in Sides : m.free => r.vf[free_split_v(m, j)] = split_f(m, 1, j)
      BY ONLY <3>1, <3>11
    <3>15. \A i \in 1 .. Len(U) : r.vf[opp(i)] = split_f(m, i, 0)
      BY ONLY <3>1, <3>11
    <3>16. /\ m.free => r.vf[split_new_vid(m)] = split_f(m, 1, 1)
           /\ ~m.free => \E i \in 1 .. Len(U) : r.vf[split_new_vid(m)] = split_f(m, i, 0)
      BY ONLY <3>1, <3>11
    <3>17. \A v \in vertices(m) :
              (\A j \in Sides : v # spine_vid(m, t, j)) /\ (\A i \in 1 .. Len(U) : v # opp(i))
                  => r.vf[v] = m.vf[v]
      BY ONLY <3>1, <3>11
    <3> HIDE DEF U
    <3>18. U = Fan(m, t)
      BY DEF U
    <3>19. \A j \in Sides :
              /\ \E i \in 1 .. Len(Fan(m, t)) : r.ef[split_spine_eid(m, j)] = split_f(m, i, j)
              /\ \E i \in 1 .. Len(Fan(m, t)) : r.vf[spine_vid(m, t, j)] = split_f(m, i, j)
              /\ m.free => r.ef[free_split_e(m, j)] = split_f(m, 1, j)
              /\ m.free => r.vf[free_split_v(m, j)] = split_f(m, 1, j)
      BY ONLY <3>18, <3>7, <3>8, <3>13, <3>14
    <3>20. \A i \in 1 .. Len(Fan(m, t)) :
              /\ \A j \in Sides : r.ef[ear(m, Fan(m, t)[i], j)] = split_f(m, i, j)
              /\ ~m.free => r.ef[rib_eid(m, i)] = split_f(m, i, 0)
              /\ r.vf[m.fv[Fan(m, t)[i].f][Fan(m, t)[i].e]] = split_f(m, i, 0)
      BY ONLY <3>18, <3>9, <3>15
    <3>21. \A v \in vertices(m) :
              (\A j \in Sides : v # spine_vid(m, t, j)) /\ (\A i \in 1 .. Len(Fan(m, t)) : v # m.fv[Fan(m, t)[i].f][Fan(m, t)[i].e])
                  => r.vf[v] = m.vf[v]
      BY ONLY <3>17, <3>18
    <3>22. \A e \in edges(m) \ {id_edge(m, t)} :
              (\A i \in 1 .. Len(Fan(m, t)), j \in Sides : e # ear(m, Fan(m, t)[i], j)) => r.ef[e] = m.ef[e]
      BY ONLY <3>12, <3>18
    <3>23. ~m.free => \E i \in 1 .. Len(Fan(m, t)) : r.vf[split_new_vid(m)] = split_f(m, i, 0)
      BY ONLY <3>16, <3>18
    <3> QED
      BY ONLY <3>16, <3>19, <3>20, <3>21, <3>22, <3>23 DEF SplitNames
  <2>8. r.free = m.free
    BY <1>8, <1>9, <2>4 DEF SplitRows, Deleted, Removed
  <2> QED
    BY <1>9, <2>2, <2>3, <2>4, <2>5, <2>6, <2>7, <2>8 DEF SplitTables, SplitRows
<1> QED
  BY <1>1, <1>10

-----------------------------------------------------------------------------
(* The faces of a vertex, by the vertices they share with each other.      *)

MeetClosed(m, v, S) ==
    \A f \in S, g \in star(m, v), k, l \in Locals :
        m.fv[f][k] = m.fv[g][l] /\ m.fv[f][k] # v => g \in S

\* Faces of v that share another vertex share the edge to it.
LEMMA MeetAcross ==
    ASSUME NEW m, Corners(m), EdgesAgree(m), Mates(m), NEW v,
           NEW f \in star(m, v), NEW g \in star(m, v), NEW k \in Locals, NEW l \in Locals,
           m.fv[f][k] = m.fv[g][l], m.fv[f][k] # v
    PROVE  f = g \/ \E i \in Locals : m.fv[f][i] # v /\ m.ff[f][i] = g
<1>1. PICK i \in Locals : m.fv[f][i] = v
  BY DEF star
<1>2. PICK j \in Locals : m.fv[g][j] = v
  BY DEF star
<1>3. f \in faces(m) /\ g \in faces(m)
  BY DEF star
<1>4. PICK p \in Locals : p # i /\ p # k /\ ends(m, f, p) = {v, m.fv[f][k]}
  <2>1. PICK c \in Locals : c # i /\ c # k
    BY <1>1, Between
  <2>2. ends(m, f, c) = {m.fv[f][i], m.fv[f][k]}
    BY <1>1, <2>1, EndsPair
  <2> QED
    BY <1>1, <2>1, <2>2
<1>5. PICK q \in Locals : ends(m, g, q) = {v, m.fv[f][k]}
  <2>1. PICK c \in Locals : c # j /\ c # l
    BY <1>2, Between
  <2>2. ends(m, g, c) = {m.fv[g][j], m.fv[g][l]}
    BY <1>2, <2>1, EndsPair
  <2> QED
    BY <1>2, <2>1, <2>2
<1>6. m.fe[f][p] = m.fe[g][q]
  <2>1. ends(m, f, p) = ends(m, g, q)
    BY <1>4, <1>5
  <2> QED
    BY <1>3, <2>1 DEF EdgesAgree
<1>7. f = g \/ m.ff[f][p] = g
  BY <1>3, <1>6 DEF Mates
<1>8. m.fv[f][p] # v
  BY <1>1, <1>3, <1>4 DEF Corners
<1> QED
  BY <1>7, <1>8

\* The face across an edge at v is one that shares another vertex.
LEMMA AcrossMeets ==
    ASSUME NEW m, Fields(m), Typed(m), Corners(m), EdgesAgree(m), Across(m), NEW v,
           NEW f \in star(m, v), NEW i \in Locals, m.fv[f][i] # v, m.ff[f][i] # Null
    PROVE  /\ m.ff[f][i] \in star(m, v)
           /\ \E k, l \in Locals : m.fv[f][k] = m.fv[m.ff[f][i]][l] /\ m.fv[f][k] # v
<1> DEFINE g == m.ff[f][i]
<1>1. f \in faces(m) /\ \E a \in Locals : m.fv[f][a] = v
  BY DEF star
<1>2. PICK a \in Locals : m.fv[f][a] = v
  BY <1>1
<1>3. PICK b \in Locals : b # i /\ b # a
  BY <1>2, Between
<1>4. ends(m, f, i) = {v, m.fv[f][b]} /\ m.fv[f][b] # v
  <2>1. a # i
    BY <1>2
  <2>2. ends(m, f, i) = {m.fv[f][a], m.fv[f][b]}
    BY <1>3, <2>1, EndsPair
  <2> QED
    BY <1>1, <1>2, <1>3, <2>2 DEF Corners
<1>5. g \in faces(m) /\ \E j \in Locals : m.fe[g][j] = m.fe[f][i]
  BY <1>1, Rows DEF Across
<1>6. PICK j \in Locals : ends(m, g, j) = {v, m.fv[f][b]}
  BY <1>1, <1>4, <1>5 DEF EdgesAgree
<1>7. (\E l \in Locals : m.fv[g][l] = v) /\ \E l \in Locals : m.fv[g][l] = m.fv[f][b]
  BY <1>6 DEF ends
<1> QED
  BY <1>3, <1>4, <1>5, <1>7 DEF star

\* Around a vertex, closed under neighbours is closed under a common second vertex.
LEMMA ClosedMeets ==
    ASSUME NEW m, Fields(m), Typed(m), Corners(m), EdgesAgree(m), Mates(m), Across(m),
           NEW v, NEW S \in SUBSET star(m, v)
    PROVE  Closed(m, v, S) <=> MeetClosed(m, v, S)
<1>1. ASSUME Closed(m, v, S), NEW f \in S, NEW g \in star(m, v), NEW k \in Locals,
             NEW l \in Locals, m.fv[f][k] = m.fv[g][l], m.fv[f][k] # v
      PROVE  g \in S
  <2>1. f = g \/ \E i \in Locals : m.fv[f][i] # v /\ m.ff[f][i] = g
    BY <1>1, MeetAcross
  <2>2. g # Null
    BY Rows DEF star
  <2> QED
    BY <1>1, <2>1, <2>2 DEF Closed
<1>2. ASSUME MeetClosed(m, v, S), NEW f \in S, NEW i \in Locals, m.fv[f][i] # v,
             m.ff[f][i] # Null
      PROVE  m.ff[f][i] \in S
  <2>1. /\ m.ff[f][i] \in star(m, v)
        /\ \E k, l \in Locals : m.fv[f][k] = m.fv[m.ff[f][i]][l] /\ m.fv[f][k] # v
    BY <1>2, AcrossMeets
  <2> QED
    BY <1>2, <2>1 DEF MeetClosed
<1> QED
  BY <1>1, <1>2 DEF Closed, MeetClosed

\* The faces of a vertex, in these terms.
MeetStars(m) ==
    \A v \in vertices(m) : \A S \in SUBSET star(m, v) :
        S # {} /\ MeetClosed(m, v, S) => S = star(m, v)

\* So the connectedness of stars can be said of vertices alone.
LEMMA StarsMeet ==
    ASSUME NEW m, Fields(m), Typed(m), Corners(m), EdgesAgree(m), Mates(m), Across(m)
    PROVE  Stars(m) <=> MeetStars(m)
<1>1. \A v : \A S \in SUBSET star(m, v) : Closed(m, v, S) <=> MeetClosed(m, v, S)
  BY ClosedMeets
<1> QED
  BY <1>1 DEF Stars, MeetStars

-----------------------------------------------------------------------------
(* Around the edge of t.                                                   *)

\* The face u.f of the fan, its places and its ears.
IsWedge(m, t, u) ==
    /\ u \in Tuples(m) /\ u.f \in faces(m) /\ u.f \in Gone(m, t) /\ u.e \in Locals
    /\ m.fe[u.f][u.e] = id_edge(m, t)
    /\ \A j \in Sides :
          /\ pos(u, j) \in Locals /\ pos(u, j) # u.e /\ pos(u, j) # pos(u, 1 - j)
          /\ Locals = {u.e, pos(u, j), pos(u, 1 - j)}
          /\ m.fv[u.f][pos(u, j)] = spine_vid(m, t, j)
          /\ m.fv[u.f][u.e] # spine_vid(m, t, j)
          /\ IsEar(m, t, u, j)

\* Every incident face is a wedge at the edge.
LEMMA Wedges ==
    ASSUME NEW m, Manifold(m), NEW t \in Tuples(m)
    PROVE  \A i \in 1 .. Len(Fan(m, t)) : IsWedge(m, t, Fan(m, t)[i])
<1> DEFINE U == Fan(m, t)
<1>1. IsFan(m, t, U)
  BY Incident
<1> SUFFICES ASSUME NEW i \in 1 .. Len(U)
             PROVE  IsWedge(m, t, U[i])
  OBVIOUS
<1> DEFINE u == U[i]
<1>2. /\ u \in Tuples(m) /\ id_edge(m, u) = id_edge(m, t)
      /\ \A j \in Sides : m.fv[u.f][pos(u, j)] = spine_vid(m, t, j)
      /\ u.f \in Gone(m, t)
  BY <1>1 DEF IsFan, Gone
<1>3. \A j \in Sides : IsEar(m, t, u, j)
  BY Ears
<1> HIDE DEF u
<1>4. /\ u.f \in faces(m) /\ u.e \in Locals
      /\ \A j \in Sides : /\ pos(u, j) \in Locals /\ pos(u, j) # u.e /\ pos(u, j) # pos(u, 1 - j)
                          /\ Locals = {u.e, pos(u, j), pos(u, 1 - j)}
  BY <1>2, Places
<1>5. \A j \in Sides : m.fv[u.f][u.e] # spine_vid(m, t, j)
  <2>1. \A a, b \in Locals : m.fv[u.f][a] = m.fv[u.f][b] => a = b
    BY <1>4 DEF Manifold, Corners
  <2> QED
    BY <1>2, <1>4, <2>1
<1>6. m.fe[u.f][u.e] = id_edge(m, t)
  BY <1>2 DEF id_edge
<1>7. IsWedge(m, t, u)
  BY ONLY <1>2, <1>3, <1>4, <1>5, <1>6 DEF IsWedge
<1> QED
  BY <1>7 DEF u

\* A face that stays has what goes across an edge only where it is behind an
\* ear, and has the edge of the ear only there.
LEMMA BehindEars ==
    ASSUME NEW m, Manifold(m), NEW t \in Tuples(m),
           NEW f \in faces(m) \ Gone(m, t), NEW k \in Locals
    PROVE  /\ m.ff[f][k] \in Gone(m, t) =>
                \E i \in 1 .. Len(Fan(m, t)), j \in Sides :
                   m.ff[f][k] = Fan(m, t)[i].f /\ m.fe[f][k] = ear(m, Fan(m, t)[i], j)
           /\ \A i \in 1 .. Len(Fan(m, t)), j \in Sides :
                m.fe[f][k] = ear(m, Fan(m, t)[i], j) <=>
                   f = behind(m, Fan(m, t)[i], j) /\ k = glue(m, Fan(m, t)[i], j)
           /\ m.fe[f][k] # id_edge(m, t)
<1> DEFINE U == Fan(m, t)
<1>1. IsFan(m, t, U) /\ \A i \in 1 .. Len(U) : IsWedge(m, t, U[i])
  BY Incident, Wedges
<1> HIDE DEF U
<1>2. ASSUME m.ff[f][k] \in Gone(m, t)
      PROVE  \E i \in 1 .. Len(U), j \in Sides :
                m.ff[f][k] = U[i].f /\ m.fe[f][k] = ear(m, U[i], j)
  <2>1. PICK i \in 1 .. Len(U) : m.ff[f][k] = U[i].f
    BY <1>1, <1>2 DEF IsFan, Gone, U
  <2>2. m.ff[f][k] # Null
    <3>1. U[i].f \in faces(m)
      BY <1>1 DEF IsWedge
    <3> QED
      BY <2>1, <3>1, Rows DEF Manifold
  <2>3. PICK l \in Locals : m.fe[U[i].f][l] = m.fe[f][k] /\ m.ff[U[i].f][l] = f
    BY <2>1, <2>2, MateOf
  <2>4. l # U[i].e
    <3>1. m.ff[U[i].f][U[i].e] = IF Len(U) = 1 THEN Null ELSE U[3 - i].f
      BY <1>1 DEF IsFan
    <3>2. f # Null
      BY Rows DEF Manifold
    <3>3. Len(U) # 1 => U[3 - i].f \in Gone(m, t)
      <4>1. Len(U) # 1 => 3 - i \in 1 .. Len(U)
        BY <1>1 DEF IsFan
      <4> QED
        BY <1>1, <4>1 DEF IsWedge
    <3> QED
      BY <2>3, <3>1, <3>2, <3>3
  <2>5. PICK j \in Sides : l = pos(U[i], 1 - j)
    <3>1. U[i] \in Tuples(m)
      BY <1>1 DEF IsWedge
    <3> QED
      BY <2>4, <3>1, EarOrSpine
  <2> QED
    BY <2>1, <2>3, <2>5 DEF ear
<1>3. ASSUME NEW i \in 1 .. Len(U), NEW j \in Sides
      PROVE  m.fe[f][k] = ear(m, U[i], j) <=> f = behind(m, U[i], j) /\ k = glue(m, U[i], j)
  <2> DEFINE u == U[i]
  <2>1. IsWedge(m, t, u) /\ IsEar(m, t, u, j)
    BY <1>1 DEF IsWedge
  <2> HIDE DEF u
  <2>2. f # Null /\ 1 - j \in Sides
    BY Rows DEF Manifold, Sides
  <2>3. ASSUME m.fe[f][k] = ear(m, u, j)
        PROVE  f = behind(m, u, j) /\ k = glue(m, u, j)
    <3>1. f # u.f /\ u.f \in faces(m) /\ pos(u, 1 - j) \in Locals
      BY <2>1, <2>2 DEF IsWedge
    <3>2. m.fe[u.f][pos(u, 1 - j)] = m.fe[f][k]
      BY <2>3 DEF ear
    <3>3. m.ff[u.f][pos(u, 1 - j)] = f
      BY <3>1, <3>2 DEF Manifold, Mates
    <3> QED
      BY <2>1, <2>2, <2>3, <3>3 DEF behind, IsEar
  <2>4. ASSUME f = behind(m, u, j), k = glue(m, u, j)
        PROVE  m.fe[f][k] = ear(m, u, j)
    BY <2>1, <2>2, <2>4 DEF IsEar
  <2> QED
    BY <2>3, <2>4 DEF u
<1>4. m.fe[f][k] # id_edge(m, t)
  <2>1. m.fe[f][k] = id_edge(m, t) => \E i \in 1 .. Len(U) : f = U[i].f
    BY IncidentAll DEF U
  <2>2. \A i \in 1 .. Len(U) : U[i].f \in Gone(m, t)
    BY <1>1 DEF IsWedge
  <2> QED
    BY <2>1, <2>2
<1> QED
  BY <1>2, <1>3, <1>4 DEF U

-----------------------------------------------------------------------------
(* The mesh r that the split of an edge of a mesh m leaves that is not free. *)

\* The half p at end j of the face of u, beside the half q at the other end,
\* with s across the half of the operating edge.
IsHalfFace(r, m, t, i, j, u, s) ==
    LET p == split_f(m, i, j)
    IN  /\ p \in faces(r) /\ p \notin faces(m)
        /\ r.fv[p][pos(u, j)] = spine_vid(m, t, j)
        /\ r.fv[p][pos(u, 1 - j)] = split_new_vid(m)
        /\ r.fv[p][u.e] = m.fv[u.f][u.e]
        /\ r.fe[p][pos(u, 1 - j)] = ear(m, u, j)
        /\ r.fe[p][u.e] = split_spine_eid(m, j)
        /\ r.fe[p][pos(u, j)] = rib_eid(m, i)
        /\ r.ff[p][pos(u, 1 - j)] = behind(m, u, j)
        /\ r.ff[p][u.e] = s
        /\ r.ff[p][pos(u, j)] = split_f(m, i, 1 - j)

\* What is new has ids of its own.
DistinctIds(m, t, U) ==
    /\ \A i, k \in 1 .. Len(U), j, l \in Sides :
          split_f(m, i, j) = split_f(m, k, l) => i = k /\ j = l
    /\ \A i, k \in 1 .. Len(U), j, l \in Sides :
          /\ split_spine_eid(m, j) = split_spine_eid(m, l) => j = l
          /\ rib_eid(m, i) = rib_eid(m, k) => i = k
          /\ split_spine_eid(m, j) # rib_eid(m, i)
          /\ split_spine_eid(m, j) \notin edges(m) /\ rib_eid(m, i) \notin edges(m)
    /\ split_new_vid(m) \notin vertices(m)
    /\ \A i, k \in 1 .. Len(U) :
          m.fv[U[i].f][U[i].e] = m.fv[U[k].f][U[k].e] => i = k
    /\ spine_vid(m, t, 0) # spine_vid(m, t, 1)

\* All of it: the faces that stay, and the halves.
IsSplit(r, m, t, U) ==
    /\ ~m.free /\ ~r.free /\ t \in Tuples(m) /\ U = Fan(m, t) /\ IsFan(m, t, U)
    /\ \A i \in 1 .. Len(U) : IsWedge(m, t, U[i])
    /\ \A f \in faces(m) \ Gone(m, t) : f \in faces(r) /\ AtKept(r, m, t, f)
    /\ \A i \in 1 .. Len(U), j \in Sides :
          IsHalfFace(r, m, t, i, j, U[i], IF Len(U) = 1 THEN Null ELSE split_f(m, 3 - i, j))
    /\ \A f \in faces(r) : \/ f \in faces(m) \ Gone(m, t)
                           \/ \E i \in 1 .. Len(U), j \in Sides : f = split_f(m, i, j)
    /\ DistinctIds(m, t, U)

\* The tables after a split are those of IsSplit.
LEMMA SplitFacts ==
    ASSUME NEW m, Manifold(m), ~m.free, NEW t \in Tuples(m), NEW r, SplitTables(r, m, t)
    PROVE  IsSplit(r, m, t, Fan(m, t))
<1> DEFINE U == Fan(m, t)
           N(i, j) == split_f(m, i, j)
<1>1. /\ IsFan(m, t, U) /\ \A i \in 1 .. Len(U) : IsWedge(m, t, U[i])
  BY Incident, Wedges
<1>2. /\ Len(U) \in {1, 2} /\ \A i \in 1 .. Len(U) : i \in {1, 2}
  BY <1>1 DEF IsFan
<1>3. /\ faces(r) = (faces(m) \ Gone(m, t)) \cup Halves(m, t) /\ r.free = m.free
      /\ \A f \in faces(m) \ Gone(m, t) : AtKept(r, m, t, f)
      /\ \A i \in 1 .. Len(U), j \in Sides :
            AtHalf(r, m, i, j, U[i], IF Len(U) = 1 THEN Null ELSE N(3 - i, j))
  BY DEF SplitTables, SplitRows
<1>4. \A i \in 1 .. Len(U), j \in Sides :
         N(i, j) \in Nat /\ N(i, j) \notin faces(m) /\ N(i, j) \in faces(r)
         /\ split_spine_eid(m, j) # rib_eid(m, i)
         /\ split_spine_eid(m, j) \notin edges(m) /\ rib_eid(m, i) \notin edges(m)
  <2> SUFFICES ASSUME NEW i \in 1 .. Len(U), NEW j \in Sides
               PROVE  N(i, j) \in Nat /\ N(i, j) \notin faces(m) /\ N(i, j) \in faces(r)
                      /\ split_spine_eid(m, j) # rib_eid(m, i)
                      /\ split_spine_eid(m, j) \notin edges(m) /\ rib_eid(m, i) \notin edges(m)
    OBVIOUS
  <2>1. i \in {1, 2}
    BY <1>2
  <2>2. N(i, j) \in Nat /\ N(i, j) \notin faces(m)
        /\ split_spine_eid(m, j) # rib_eid(m, i)
        /\ split_spine_eid(m, j) \notin edges(m) /\ rib_eid(m, i) \notin edges(m)
    BY <2>1, NewIds DEF Manifold
  <2> QED
    BY <1>3, <2>2 DEF Halves
<1>5. m.cap.f \in Nat /\ m.cap.e \in Nat
  BY DEF Manifold, Fields
<1>6. \A i, k \in 1 .. Len(U), j, l \in Sides :
         /\ N(i, j) = N(k, l) => i = k /\ j = l
         /\ split_spine_eid(m, j) = split_spine_eid(m, l) => j = l
         /\ rib_eid(m, i) = rib_eid(m, k) => i = k
  <2> SUFFICES ASSUME NEW i \in 1 .. Len(U), NEW k \in 1 .. Len(U), NEW j \in Sides, NEW l \in Sides
               PROVE  /\ N(i, j) = N(k, l) => i = k /\ j = l
                      /\ split_spine_eid(m, j) = split_spine_eid(m, l) => j = l
                      /\ rib_eid(m, i) = rib_eid(m, k) => i = k
    OBVIOUS
  <2>1. i \in {1, 2} /\ k \in {1, 2} /\ j \in {0, 1} /\ l \in {0, 1}
    BY <1>2 DEF Sides
  <2> DEFINE a == m.cap.f
             b == m.cap.e
  <2>2. /\ N(i, j) = a + 2 * (i - 1) + j /\ N(k, l) = a + 2 * (k - 1) + l
        /\ split_spine_eid(m, j) = b + j /\ split_spine_eid(m, l) = b + l
        /\ rib_eid(m, i) = b + 1 + i /\ rib_eid(m, k) = b + 1 + k
    BY DEF split_f, split_spine_eid, rib_eid
  <2>3. a \in Nat /\ b \in Nat
    BY <1>5
  <2> HIDE DEF a, b, N
  <2>4. N(i, j) = N(k, l) => i = k /\ j = l
    BY ONLY <2>1, <2>2, <2>3
  <2>5. /\ split_spine_eid(m, j) = split_spine_eid(m, l) => j = l
        /\ rib_eid(m, i) = rib_eid(m, k) => i = k
    BY ONLY <2>1, <2>2, <2>3
  <2> QED
    BY ONLY <2>4, <2>5
<1>7. ASSUME NEW i \in 1 .. Len(U), NEW j \in Sides
      PROVE  IsHalfFace(r, m, t, i, j, U[i], IF Len(U) = 1 THEN Null ELSE N(3 - i, j))
  <2> DEFINE u == U[i]
             s == IF Len(U) = 1 THEN Null ELSE N(3 - i, j)
  <2>1. /\ IsWedge(m, t, u) /\ AtHalf(r, m, i, j, u, s)
        /\ N(i, j) \in faces(r) /\ N(i, j) \notin faces(m)
    BY <1>1, <1>3, <1>4
  <2> HIDE DEF u, s
  <2>2. /\ pos(u, j) \in Locals /\ pos(u, 1 - j) \in Locals /\ u.e \in Locals
        /\ pos(u, j) # u.e /\ pos(u, 1 - j) # u.e /\ pos(u, j) # pos(u, 1 - j)
        /\ m.fv[u.f][pos(u, j)] = spine_vid(m, t, j)
        /\ m.fe[u.f][u.e] = id_edge(m, t)
    <3>1. 1 - j \in Sides
      BY DEF Sides
    <3> QED
      BY <2>1, <3>1 DEF IsWedge
  <2>3. IsHalfFace(r, m, t, i, j, u, s)
    BY <2>1, <2>2 DEF AtHalf, IsHalfFace, ear, behind
  <2> QED
    BY <2>3 DEF u, s
<1>8. split_new_vid(m) \notin vertices(m)
  <2>1. 1 \in {1, 2}
    OBVIOUS
  <2> QED
    BY <2>1, NewIds DEF Manifold
<1>9. \A i, k \in 1 .. Len(U) :
         m.fv[U[i].f][U[i].e] = m.fv[U[k].f][U[k].e] => i = k
  <2>1. CASE Len(U) = 2
    <3>1. m.fv[U[1].f][U[1].e] # m.fv[U[2].f][U[2].e]
      BY <2>1, OppsDiffer
    <3> QED
      BY <1>2, <3>1
  <2>2. CASE Len(U) = 1
    BY <2>2
  <2> QED
    BY <1>2, <2>1, <2>2
<1>10. spine_vid(m, t, 0) # spine_vid(m, t, 1)
  BY IncidentAll
<1>11. \A f \in faces(r) : \/ f \in faces(m) \ Gone(m, t)
                          \/ \E i \in 1 .. Len(U), j \in Sides : f = N(i, j)
  BY <1>3 DEF Halves
<1>12. \A f \in faces(m) \ Gone(m, t) : f \in faces(r)
  BY <1>3
<1>13. ~m.free /\ ~r.free
  BY <1>3
<1>14. DistinctIds(m, t, U)
  <2> HIDE DEF U
  <2> QED
    BY <1>4, <1>6, <1>8, <1>9, <1>10 DEF DistinctIds, N
<1>15. U = Fan(m, t)
  OBVIOUS
<1> HIDE DEF U
<1>16. IsSplit(r, m, t, U)
  BY <1>1, <1>3, <1>7, <1>11, <1>12, <1>13, <1>14, <1>15 DEF IsSplit, N
<1> QED
  BY <1>15, <1>16

\* A local edge of the new mesh is one of the old mesh, half of the edge of t,
\* or a rib.
IsOld(r, m, t, U, f, k) ==
    \E g \in faces(m) :
        /\ r.fe[f][k] = m.fe[g][k] /\ ends(r, f, k) = ends(m, g, k)
        /\ r.fe[f][k] # id_edge(m, t)
        /\ \/ f = g /\ f \notin Gone(m, t)
           \/ \E i \in 1 .. Len(U), j \in Sides :
                 f = split_f(m, i, j) /\ g = U[i].f /\ k = pos(U[i], 1 - j)
IsSpine(r, m, t, U, f, k) ==
    \E i \in 1 .. Len(U), j \in Sides :
        /\ f = split_f(m, i, j) /\ k = U[i].e /\ r.fe[f][k] = split_spine_eid(m, j)
        /\ ends(r, f, k) = {spine_vid(m, t, j), split_new_vid(m)}
IsRib(r, m, t, U, f, k) ==
    \E i \in 1 .. Len(U), j \in Sides :
        /\ f = split_f(m, i, j) /\ k = pos(U[i], j) /\ r.fe[f][k] = rib_eid(m, i)
        /\ ends(r, f, k) = {split_new_vid(m), m.fv[U[i].f][U[i].e]}

\* An edge of a face after a split is an old one, a half of the spine or a rib.
LEMMA SplitSides ==
    ASSUME NEW m, Manifold(m), NEW t, NEW r, NEW U, IsSplit(r, m, t, U),
           NEW f \in faces(r), NEW k \in Locals
    PROVE  IsOld(r, m, t, U, f, k) \/ IsSpine(r, m, t, U, f, k) \/ IsRib(r, m, t, U, f, k)
<1>1. CASE f \in faces(m) \ Gone(m, t)
  <2>1. r.fv[f] = m.fv[f] /\ r.fe[f] = m.fe[f] /\ t \in Tuples(m) /\ U = Fan(m, t)
    BY <1>1 DEF IsSplit, AtKept, IsFan
  <2> QED
    BY <1>1, <2>1, BehindEars DEF IsOld, ends
<1>2. ASSUME NEW i \in 1 .. Len(U), NEW j \in Sides, f = split_f(m, i, j)
      PROVE  IsOld(r, m, t, U, f, k) \/ IsSpine(r, m, t, U, f, k) \/ IsRib(r, m, t, U, f, k)
  <2> DEFINE u == U[i]
             s == IF Len(U) = 1 THEN Null ELSE split_f(m, 3 - i, j)
  <2>1. IsWedge(m, t, u) /\ IsHalfFace(r, m, t, i, j, u, s)
    BY DEF IsSplit
  <2> HIDE DEF u, s
  <2>2. /\ pos(u, j) \in Locals /\ pos(u, 1 - j) \in Locals /\ u.e \in Locals
        /\ pos(u, j) # u.e /\ pos(u, 1 - j) # u.e /\ pos(u, j) # pos(u, 1 - j)
        /\ Locals = {u.e, pos(u, j), pos(u, 1 - j)} /\ u.f \in faces(m)
        /\ m.fv[u.f][pos(u, j)] = spine_vid(m, t, j)
        /\ m.fe[u.f][pos(u, 1 - j)] = ear(m, u, j) /\ ear(m, u, j) # id_edge(m, t)
    <3>1. 1 - j \in Sides
      BY DEF Sides
    <3> QED
      BY <2>1, <3>1 DEF IsWedge, IsEar, ear
  <2>3. CASE k = pos(u, 1 - j)
    <3>1. ends(r, f, k) = {r.fv[f][u.e], r.fv[f][pos(u, j)]}
      BY <2>2, <2>3, EndsPair
    <3>2. ends(m, u.f, k) = {m.fv[u.f][u.e], m.fv[u.f][pos(u, j)]}
      BY <2>2, <2>3, EndsPair
    <3>3. /\ r.fe[f][k] = m.fe[u.f][k] /\ ends(r, f, k) = ends(m, u.f, k)
          /\ r.fe[f][k] # id_edge(m, t)
      BY <1>2, <2>1, <2>2, <2>3, <3>1, <3>2 DEF IsHalfFace
    <3>4. IsOld(r, m, t, U, f, k)
      BY <1>2, <2>2, <2>3, <3>3 DEF IsOld, u
    <3> QED
      BY <3>4
  <2>4. CASE k = u.e
    <3>1. ends(r, f, k) = {r.fv[f][pos(u, j)], r.fv[f][pos(u, 1 - j)]}
      BY <2>2, <2>4, EndsPair
    <3>2. /\ r.fe[f][k] = split_spine_eid(m, j)
          /\ ends(r, f, k) = {spine_vid(m, t, j), split_new_vid(m)}
      BY <1>2, <2>1, <2>4, <3>1 DEF IsHalfFace
    <3>3. IsSpine(r, m, t, U, f, k)
      BY <1>2, <2>4, <3>2 DEF IsSpine, u
    <3> QED
      BY <3>3
  <2>5. CASE k = pos(u, j)
    <3>1. ends(r, f, k) = {r.fv[f][pos(u, 1 - j)], r.fv[f][u.e]}
      BY <2>2, <2>5, EndsPair
    <3>2. /\ r.fe[f][k] = rib_eid(m, i)
          /\ ends(r, f, k) = {split_new_vid(m), m.fv[u.f][u.e]}
      BY <1>2, <2>1, <2>5, <3>1 DEF IsHalfFace
    <3>3. IsRib(r, m, t, U, f, k)
      BY <1>2, <2>5, <3>2 DEF IsRib, u
    <3> QED
      BY <3>3
  <2> QED
    BY <2>2, <2>3, <2>4, <2>5
<1> QED
  BY <1>1, <1>2 DEF IsSplit

\* The new vertex is at no old edge and at every other one.
LEMMA OldSides ==
    ASSUME NEW m, Manifold(m), NEW t, NEW r, NEW U, IsSplit(r, m, t, U), NEW f, NEW k \in Locals,
           IsOld(r, m, t, U, f, k)
    PROVE  r.fe[f][k] \in edges(m) /\ split_new_vid(m) \notin ends(r, f, k)
<1>1. PICK g \in faces(m) : r.fe[f][k] = m.fe[g][k] /\ ends(r, f, k) = ends(m, g, k)
  BY DEF IsOld
<1>2. ends(m, g, k) \subseteq vertices(m)
  BY Rows DEF Manifold, ends
<1>3. split_new_vid(m) \notin vertices(m)
  BY DEF IsSplit, DistinctIds
<1> QED
  BY <1>1, <1>2, <1>3, Rows DEF Manifold

\* The vertices that a split is about differ from each other, and the new one is new.
LEMMA SplitVertices ==
    ASSUME NEW m, Manifold(m), NEW t, NEW r, NEW U, IsSplit(r, m, t, U)
    PROVE  /\ split_new_vid(m) \notin vertices(m)
           /\ \A j \in Sides : spine_vid(m, t, j) \in vertices(m)
           /\ \A i \in 1 .. Len(U) : m.fv[U[i].f][U[i].e] \in vertices(m)
           /\ \A i \in 1 .. Len(U), j \in Sides : m.fv[U[i].f][U[i].e] # spine_vid(m, t, j)
           /\ \A j, l \in Sides : spine_vid(m, t, j) = spine_vid(m, t, l) => j = l
           /\ 1 \in 1 .. Len(U) /\ Len(U) \in {1, 2}
<1>1. 1 \in 1 .. Len(U) /\ \A i \in 1 .. Len(U) : IsWedge(m, t, U[i])
  BY DEF IsSplit, IsFan
<1>2. \A i \in 1 .. Len(U) : /\ m.fv[U[i].f][U[i].e] \in vertices(m)
                             /\ \A j \in Sides : /\ m.fv[U[i].f][U[i].e] # spine_vid(m, t, j)
                                                 /\ spine_vid(m, t, j) \in vertices(m)
  <2> SUFFICES ASSUME NEW i \in 1 .. Len(U)
               PROVE  /\ m.fv[U[i].f][U[i].e] \in vertices(m)
                      /\ \A j \in Sides : /\ m.fv[U[i].f][U[i].e] # spine_vid(m, t, j)
                                          /\ spine_vid(m, t, j) \in vertices(m)
    OBVIOUS
  <2>1. IsWedge(m, t, U[i])
    BY <1>1
  <2> DEFINE u == U[i]
  <2> HIDE DEF u
  <2>2. /\ m.fv[u.f][u.e] \in vertices(m)
        /\ \A j \in Sides : /\ m.fv[u.f][u.e] # spine_vid(m, t, j)
                            /\ spine_vid(m, t, j) \in vertices(m)
    BY <2>1, Rows DEF IsWedge, Manifold, u
  <2> QED
    BY <2>2 DEF u
<1>3. \A j, l \in Sides : spine_vid(m, t, j) = spine_vid(m, t, l) => j = l
  BY DEF IsSplit, DistinctIds, Sides
<1> QED
  BY <1>1, <1>2, <1>3 DEF IsSplit, DistinctIds, IsFan

\* After a split, places have one edge id if and only if they have the same ends.
LEMMA SplitEdgesAgree ==
    ASSUME NEW m, Manifold(m), NEW t, NEW r, NEW U, IsSplit(r, m, t, U)
    PROVE  EdgesAgree(r)
<1> DEFINE w == split_new_vid(m)
           old(f, k) == IsOld(r, m, t, U, f, k)
           spine(f, k) == IsSpine(r, m, t, U, f, k)
           rib(f, k) == IsRib(r, m, t, U, f, k)
           agree(f, i, g, j) == r.fe[f][i] = r.fe[g][j] <=> ends(r, f, i) = ends(r, g, j)
<1>0. DistinctIds(m, t, U)
  BY DEF IsSplit
<1>1. ASSUME NEW f, NEW g, NEW i \in Locals, NEW j \in Locals, old(f, i), old(g, j)
      PROVE  agree(f, i, g, j)
  BY <1>1 DEF IsOld, Manifold, EdgesAgree
<1>2. ASSUME NEW f, NEW g, NEW i \in Locals, NEW j \in Locals, old(f, i), spine(g, j)
      PROVE  r.fe[f][i] # r.fe[g][j] /\ ends(r, f, i) # ends(r, g, j)
  <2>1. r.fe[f][i] \in edges(m) /\ w \notin ends(r, f, i)
    BY <1>2, OldSides
  <2>2. r.fe[g][j] \notin edges(m) /\ w \in ends(r, g, j)
    BY <1>0, <1>2 DEF IsSpine, DistinctIds
  <2> QED
    BY <2>1, <2>2
<1>3. ASSUME NEW f, NEW g, NEW i \in Locals, NEW j \in Locals, old(f, i), rib(g, j)
      PROVE  r.fe[f][i] # r.fe[g][j] /\ ends(r, f, i) # ends(r, g, j)
  <2>1. r.fe[f][i] \in edges(m) /\ w \notin ends(r, f, i)
    BY <1>3, OldSides
  <2>2. r.fe[g][j] \notin edges(m) /\ w \in ends(r, g, j)
    <3>1. 0 \in Sides
      BY DEF Sides
    <3> QED
      BY <1>0, <1>3, <3>1 DEF IsRib, DistinctIds
  <2> QED
    BY <2>1, <2>2
<1>4. ASSUME NEW f, NEW g, NEW i \in Locals, NEW j \in Locals, spine(f, i), spine(g, j)
      PROVE  agree(f, i, g, j)
  <2>1. PICK a \in Sides : /\ r.fe[f][i] = split_spine_eid(m, a)
                           /\ ends(r, f, i) = {spine_vid(m, t, a), w}
    BY <1>4 DEF IsSpine
  <2>2. PICK b \in Sides : /\ r.fe[g][j] = split_spine_eid(m, b)
                           /\ ends(r, g, j) = {spine_vid(m, t, b), w}
    BY <1>4 DEF IsSpine
  <2>3. split_spine_eid(m, a) = split_spine_eid(m, b) => a = b
    BY <1>0, SplitVertices DEF DistinctIds
  <2>4. /\ spine_vid(m, t, a) = spine_vid(m, t, b) => a = b
        /\ spine_vid(m, t, a) # w /\ spine_vid(m, t, b) # w
    BY SplitVertices
  <2> QED
    BY <2>1, <2>2, <2>3, <2>4
<1>5. ASSUME NEW f, NEW g, NEW i \in Locals, NEW j \in Locals, spine(f, i), rib(g, j)
      PROVE  r.fe[f][i] # r.fe[g][j] /\ ends(r, f, i) # ends(r, g, j)
  <2>1. PICK a \in Sides : /\ r.fe[f][i] = split_spine_eid(m, a)
                           /\ ends(r, f, i) = {spine_vid(m, t, a), w}
    BY <1>5 DEF IsSpine
  <2>2. PICK b \in 1 .. Len(U) : /\ r.fe[g][j] = rib_eid(m, b)
                                 /\ ends(r, g, j) = {w, m.fv[U[b].f][U[b].e]}
    BY <1>5 DEF IsRib
  <2>3. split_spine_eid(m, a) # rib_eid(m, b)
    BY <1>0 DEF DistinctIds
  <2>4. /\ spine_vid(m, t, a) # m.fv[U[b].f][U[b].e]
        /\ spine_vid(m, t, a) # w /\ m.fv[U[b].f][U[b].e] # w
    BY SplitVertices
  <2> QED
    BY <2>1, <2>2, <2>3, <2>4
<1>6. ASSUME NEW f, NEW g, NEW i \in Locals, NEW j \in Locals, rib(f, i), rib(g, j)
      PROVE  agree(f, i, g, j)
  <2>1. PICK a \in 1 .. Len(U) : /\ r.fe[f][i] = rib_eid(m, a)
                                 /\ ends(r, f, i) = {w, m.fv[U[a].f][U[a].e]}
    BY <1>6 DEF IsRib
  <2>2. PICK b \in 1 .. Len(U) : /\ r.fe[g][j] = rib_eid(m, b)
                                 /\ ends(r, g, j) = {w, m.fv[U[b].f][U[b].e]}
    BY <1>6 DEF IsRib
  <2>3. rib_eid(m, a) = rib_eid(m, b) => a = b
    <3>1. 0 \in Sides
      BY DEF Sides
    <3> QED
      BY <1>0, <3>1 DEF DistinctIds
  <2>4. /\ m.fv[U[a].f][U[a].e] = m.fv[U[b].f][U[b].e] => a = b
        /\ m.fv[U[a].f][U[a].e] # w /\ m.fv[U[b].f][U[b].e] # w
    BY <1>0, SplitVertices DEF DistinctIds
  <2> QED
    BY <2>1, <2>2, <2>3, <2>4
<1>7. ASSUME NEW f \in faces(r), NEW g \in faces(r), NEW i \in Locals, NEW j \in Locals
      PROVE  agree(f, i, g, j)
  <2>1. old(f, i) \/ spine(f, i) \/ rib(f, i)
    BY SplitSides
  <2>2. old(g, j) \/ spine(g, j) \/ rib(g, j)
    BY SplitSides
  <2> HIDE DEF old, spine, rib
  <2>3. old(f, i) /\ old(g, j) => agree(f, i, g, j)
    BY ONLY <1>1, <1>7
  <2>4. spine(f, i) /\ spine(g, j) => agree(f, i, g, j)
    BY ONLY <1>4, <1>7
  <2>5. rib(f, i) /\ rib(g, j) => agree(f, i, g, j)
    BY ONLY <1>6, <1>7
  <2>6. /\ old(f, i) /\ spine(g, j) => agree(f, i, g, j)
        /\ old(g, j) /\ spine(f, i) => agree(f, i, g, j)
    BY ONLY <1>2, <1>7
  <2>7. /\ old(f, i) /\ rib(g, j) => agree(f, i, g, j)
        /\ old(g, j) /\ rib(f, i) => agree(f, i, g, j)
    BY ONLY <1>3, <1>7
  <2>8. /\ spine(f, i) /\ rib(g, j) => agree(f, i, g, j)
        /\ spine(g, j) /\ rib(f, i) => agree(f, i, g, j)
    BY ONLY <1>5, <1>7
  <2> QED
    BY ONLY <2>1, <2>2, <2>3, <2>4, <2>5, <2>6, <2>7, <2>8
<1> QED
  BY <1>7 DEF EdgesAgree

\* A face that stays keeps what is across it, unless that goes away.
LEMMA KeptAcross ==
    ASSUME NEW m, Manifold(m), NEW t, NEW r, NEW U, IsSplit(r, m, t, U),
           NEW f \in faces(m) \ Gone(m, t), NEW k \in Locals
    PROVE  /\ m.ff[f][k] \notin Gone(m, t) => r.ff[f][k] = m.ff[f][k]
           /\ \A i \in 1 .. Len(U), j \in Sides :
                 m.fe[f][k] = ear(m, U[i], j) => r.ff[f][k] = split_f(m, i, j)
           /\ m.ff[f][k] \in Gone(m, t) =>
                 \E i \in 1 .. Len(U), j \in Sides : m.fe[f][k] = ear(m, U[i], j)
<1>1. t \in Tuples(m) /\ U = Fan(m, t) /\ AtKept(r, m, t, f)
      /\ \A i \in 1 .. Len(U) : IsWedge(m, t, U[i])
  BY DEF IsSplit
<1>2. /\ m.ff[f][k] \in Gone(m, t) =>
           \E i \in 1 .. Len(U), j \in Sides :
              m.ff[f][k] = U[i].f /\ m.fe[f][k] = ear(m, U[i], j)
      /\ \A i \in 1 .. Len(U), j \in Sides :
           m.fe[f][k] = ear(m, U[i], j) <=> f = behind(m, U[i], j) /\ k = glue(m, U[i], j)
  BY <1>1, BehindEars
<1>3. ASSUME NEW i \in 1 .. Len(U), NEW j \in Sides, f = behind(m, U[i], j), k = glue(m, U[i], j)
      PROVE  m.ff[f][k] \in Gone(m, t)
  <2>1. IsEar(m, t, U[i], j)
    BY <1>1 DEF IsWedge
  <2>2. f # Null
    BY Rows DEF Manifold
  <2> QED
    BY <1>3, <2>1, <2>2 DEF IsEar
<1>4. /\ \A i \in 1 .. Len(U), j \in Sides :
            f = behind(m, U[i], j) /\ k = glue(m, U[i], j) => r.ff[f][k] = split_f(m, i, j)
      /\ (\A i \in 1 .. Len(U), j \in Sides : ~(f = behind(m, U[i], j) /\ k = glue(m, U[i], j)))
            => r.ff[f][k] = m.ff[f][k]
  BY <1>1 DEF AtKept
<1> QED
  BY <1>2, <1>3, <1>4

\* After a split, a neighbour is another face of the mesh and has the edge.
LEMMA SplitAcross ==
    ASSUME NEW m, Manifold(m), NEW t, NEW r, NEW U, IsSplit(r, m, t, U),
           NEW f \in faces(r), NEW k \in Locals, r.ff[f][k] # Null
    PROVE  /\ r.ff[f][k] \in faces(r) /\ r.ff[f][k] # f
           /\ \E j \in Locals : r.fe[r.ff[f][k]][j] = r.fe[f][k]
<1>1. CASE f \in faces(m) \ Gone(m, t)
  <2>0. r.fe[f] = m.fe[f]
    BY <1>1 DEF IsSplit, AtKept
  <2>1. CASE m.ff[f][k] \in Gone(m, t)
    <3>1. PICK i \in 1 .. Len(U), j \in Sides : m.fe[f][k] = ear(m, U[i], j)
      BY <1>1, <2>1, KeptAcross
    <3>2. r.ff[f][k] = split_f(m, i, j)
      BY <1>1, <3>1, KeptAcross
    <3>3. /\ split_f(m, i, j) \in faces(r) /\ split_f(m, i, j) \notin faces(m)
          /\ r.fe[split_f(m, i, j)][pos(U[i], 1 - j)] = ear(m, U[i], j)
      BY DEF IsSplit, IsHalfFace
    <3>4. pos(U[i], 1 - j) \in Locals
      <4>1. 1 - j \in Sides
        BY DEF Sides
      <4> QED
        BY <4>1 DEF IsSplit, IsWedge
    <3> QED
      BY <1>1, <2>0, <3>1, <3>2, <3>3, <3>4
  <2>2. CASE m.ff[f][k] \notin Gone(m, t)
    <3>1. r.ff[f][k] = m.ff[f][k]
      BY <1>1, <2>2, KeptAcross
    <3> DEFINE g == m.ff[f][k]
    <3>2. g \in faces(m) \ Gone(m, t) /\ g # f /\ \E j \in Locals : m.fe[g][j] = m.fe[f][k]
      BY <1>1, <2>2, <3>1, MateOf
    <3>3. g \in faces(r) /\ r.fe[g] = m.fe[g]
      BY <3>2 DEF IsSplit, AtKept
    <3> QED
      BY <2>0, <3>1, <3>2, <3>3
  <2> QED
    BY <2>1, <2>2
<1>2. ASSUME NEW i \in 1 .. Len(U), NEW j \in Sides, f = split_f(m, i, j)
      PROVE  /\ r.ff[f][k] \in faces(r) /\ r.ff[f][k] # f
             /\ \E l \in Locals : r.fe[r.ff[f][k]][l] = r.fe[f][k]
  <2> DEFINE u == U[i]
             s == IF Len(U) = 1 THEN Null ELSE split_f(m, 3 - i, j)
  <2>1. /\ IsWedge(m, t, u) /\ IsHalfFace(r, m, t, i, j, u, s) /\ IsEar(m, t, u, j)
        /\ 1 - j \in Sides /\ 1 - j # j
    BY SMTT(20) DEF IsSplit, IsWedge, Sides
  <2>2. CASE k = pos(u, 1 - j)
    <3> HIDE DEF u, s
    <3>1. r.ff[f][k] = behind(m, u, j) /\ r.fe[f][k] = ear(m, u, j) /\ f \notin faces(m)
      BY <1>2, <2>1, <2>2 DEF IsHalfFace
    <3> DEFINE g == behind(m, u, j)
               l == glue(m, u, j)
    <3>2. g \in faces(m) \ Gone(m, t) /\ l \in Locals /\ m.fe[g][l] = ear(m, u, j)
      BY <2>1, <3>1 DEF IsEar
    <3>3. g \in faces(r) /\ r.fe[g] = m.fe[g]
      BY <3>2 DEF IsSplit, AtKept
    <3> QED
      BY <3>1, <3>2, <3>3
  <2>3. CASE k = u.e
    <3>1. s # Null /\ r.ff[f][k] = s /\ r.fe[f][k] = split_spine_eid(m, j)
      BY <1>2, <2>1, <2>3 DEF IsHalfFace
    <3>2. Len(U) = 2 /\ 3 - i \in 1 .. Len(U) /\ 3 - i # i
      <4> DEFINE n == Len(U)
      <4>1. n # 1 /\ n \in {1, 2} /\ i \in 1 .. n
        BY <3>1, SplitVertices
      <4> HIDE DEF n
      <4>2. n = 2 /\ i \in {1, 2}
        BY <4>1
      <4> QED
        BY <4>2 DEF n
    <3> DEFINE p == split_f(m, 3 - i, j)
    <3>3. p \in faces(r) /\ r.fe[p][U[3 - i].e] = split_spine_eid(m, j) /\ U[3 - i].e \in Locals
      BY SMTT(20), <3>2 DEF IsSplit, IsHalfFace, IsWedge
    <3>4. p # f
      BY <1>2, <3>2 DEF IsSplit, DistinctIds
    <3> QED
      BY <3>1, <3>2, <3>3, <3>4
  <2>4. CASE k = pos(u, j)
    <3> DEFINE p == split_f(m, i, 1 - j)
    <3>1. r.ff[f][k] = p /\ r.fe[f][k] = rib_eid(m, i)
      BY <1>2, <2>1, <2>4 DEF IsHalfFace
    <3>2. p \in faces(r) /\ r.fe[p][pos(u, 1 - j)] = rib_eid(m, i) /\ pos(u, 1 - j) \in Locals
      <4> DEFINE x == IF Len(U) = 1 THEN Null ELSE split_f(m, 3 - i, 1 - j)
      <4>1. IsHalfFace(r, m, t, i, 1 - j, u, x)
        BY <2>1 DEF IsSplit
      <4> HIDE DEF x
      <4> QED
        BY <2>1, <4>1 DEF IsHalfFace, IsWedge
    <3>3. p # f
      BY <1>2, <2>1 DEF IsSplit, DistinctIds
    <3> QED
      BY <3>1, <3>2, <3>3
  <2>5. Locals = {u.e, pos(u, j), pos(u, 1 - j)}
    BY <2>1 DEF IsWedge
  <2> QED
    BY <2>2, <2>3, <2>4, <2>5
<1> QED
  BY <1>1, <1>2 DEF IsSplit

\* After a split, two faces at an edge, and no others, are neighbours across it.
LEMMA SplitMates ==
    ASSUME NEW m, Manifold(m), NEW t, NEW r, NEW U, IsSplit(r, m, t, U)
    PROVE  Mates(r)
<1> DEFINE N(i, j) == split_f(m, i, j)
           s(i, j) == IF Len(U) = 1 THEN Null ELSE N(3 - i, j)
<1>0. /\ DistinctIds(m, t, U) /\ U = Fan(m, t) /\ t \in Tuples(m)
      /\ \A i \in 1 .. Len(U) : IsWedge(m, t, U[i])
      /\ \A i \in 1 .. Len(U), j \in Sides : IsHalfFace(r, m, t, i, j, U[i], s(i, j))
  BY DEF IsSplit
<1>1. \A i, j \in 1 .. Len(U) : /\ U[i].f = U[j].f => i = j
                                /\ i # j => Len(U) = 2 /\ j = 3 - i
  <2> SUFFICES ASSUME NEW i \in 1 .. Len(U), NEW j \in 1 .. Len(U), i # j
               PROVE  U[i].f # U[j].f /\ Len(U) = 2 /\ j = 3 - i
    OBVIOUS
  <2>1. Len(U) \in {1, 2} /\ (Len(U) = 2 => U[1].f # U[2].f)
    BY DEF IsSplit, IsFan
  <2> DEFINE n == Len(U)
  <2> HIDE DEF n
  <2>2. n \in {1, 2} /\ i \in 1 .. n /\ j \in 1 .. n
    BY <2>1 DEF n
  <2>3. n = 2 /\ ((i = 1 /\ j = 2) \/ (i = 2 /\ j = 1))
    BY <2>2
  <2> QED
    BY <2>1, <2>3 DEF n
<1> HIDE DEF s
<1>2. ASSUME NEW f \in faces(r), NEW g \in faces(r), NEW i \in Locals, NEW j \in Locals,
             r.fe[f][i] = r.fe[g][j], IsOld(r, m, t, U, f, i), IsOld(r, m, t, U, g, j)
      PROVE  (f = g /\ i = j) \/ r.ff[f][i] = g
  <2>1. PICK x \in faces(m) :
           /\ r.fe[f][i] = m.fe[x][i]
           /\ \/ f = x /\ f \notin Gone(m, t)
              \/ \E a \in 1 .. Len(U), b \in Sides :
                    f = N(a, b) /\ x = U[a].f /\ i = pos(U[a], 1 - b)
    BY <1>2 DEF IsOld
  <2>2. PICK y \in faces(m) :
           /\ r.fe[g][j] = m.fe[y][j]
           /\ \/ g = y /\ g \notin Gone(m, t)
              \/ \E a \in 1 .. Len(U), b \in Sides :
                    g = N(a, b) /\ y = U[a].f /\ j = pos(U[a], 1 - b)
    BY <1>2 DEF IsOld
  <2>3. \A a \in 1 .. Len(U) : U[a].f \in Gone(m, t) /\ U[a].f \in faces(m)
    BY <1>0 DEF IsWedge
  <2>4. CASE x = y /\ i = j
    <3>1. CASE f = x /\ f \notin Gone(m, t)
      BY <2>2, <2>3, <2>4, <3>1
    <3>2. ASSUME NEW a \in 1 .. Len(U), NEW b \in Sides,
                 f = N(a, b), x = U[a].f, i = pos(U[a], 1 - b)
          PROVE  f = g
      <4>1. PICK c \in 1 .. Len(U), d \in Sides : g = N(c, d) /\ y = U[c].f /\ j = pos(U[c], 1 - d)
        BY <2>2, <2>3, <2>4, <3>2
      <4>2. c = a /\ pos(U[a], 1 - b) = pos(U[a], 1 - d)
        BY <1>1, <2>4, <3>2, <4>1
      <4>3. b = d
        <5>1. b # d => d = 1 - b /\ 1 - d = b
          BY DEF Sides
        <5>2. pos(U[a], b) # pos(U[a], 1 - b)
          BY <1>0 DEF IsWedge
        <5> QED
          BY <4>2, <5>1, <5>2
      <4> QED
        BY <3>2, <4>1, <4>2, <4>3
    <3> QED
      BY <2>1, <2>4, <3>1, <3>2
  <2>5. CASE ~(x = y /\ i = j)
    <3>1. m.ff[x][i] = y
      <4>1. m.fe[x][i] = m.fe[y][j]
        BY <1>2, <2>1, <2>2
      <4> QED
        BY <2>5, <4>1 DEF Manifold, Mates
    <3>2. CASE f = x /\ f \notin Gone(m, t) /\ g = y /\ g \notin Gone(m, t)
      BY <3>1, <3>2, KeptAcross
    <3>3. ASSUME f = x, f \notin Gone(m, t), NEW c \in 1 .. Len(U), NEW d \in Sides,
                 g = N(c, d), y = U[c].f, j = pos(U[c], 1 - d)
          PROVE  r.ff[f][i] = g
      <4>1. m.fe[f][i] = ear(m, U[c], d)
        BY <1>2, <2>1, <2>2, <3>3 DEF ear
      <4> QED
        BY <3>3, <4>1, KeptAcross
    <3>4. ASSUME NEW a \in 1 .. Len(U), NEW b \in Sides,
                 f = N(a, b), x = U[a].f, i = pos(U[a], 1 - b)
          PROVE  r.ff[f][i] = g
      <4> DEFINE u == U[a]
      <4>1. IsEar(m, t, u, b) /\ IsHalfFace(r, m, t, a, b, u, s(a, b))
        BY <1>0 DEF IsWedge
      <4> HIDE DEF u
      <4>2. y = behind(m, u, b)
        BY <3>1, <3>4 DEF behind, u
      <4>3. y # Null /\ y \in faces(m)
        BY Rows DEF Manifold
      <4>4. y \notin Gone(m, t)
        BY <4>1, <4>2, <4>3 DEF IsEar
      <4>5. g = y
        BY <2>2, <2>3, <4>4
      <4>6. r.ff[f][i] = behind(m, u, b)
        BY <3>4, <4>1 DEF IsHalfFace, u
      <4> QED
        BY <4>2, <4>5, <4>6
    <3> QED
      BY <2>1, <2>2, <3>2, <3>3, <3>4
  <2> QED
    BY <2>4, <2>5
<1>3. ASSUME NEW f \in faces(r), NEW g \in faces(r), NEW i \in Locals, NEW j \in Locals,
             r.fe[f][i] = r.fe[g][j], IsSpine(r, m, t, U, f, i), IsSpine(r, m, t, U, g, j)
      PROVE  (f = g /\ i = j) \/ r.ff[f][i] = g
  <2>1. PICK a \in 1 .. Len(U), b \in Sides :
           f = N(a, b) /\ i = U[a].e /\ r.fe[f][i] = split_spine_eid(m, b)
    BY <1>3 DEF IsSpine
  <2>2. PICK c \in 1 .. Len(U), d \in Sides :
           g = N(c, d) /\ j = U[c].e /\ r.fe[g][j] = split_spine_eid(m, d)
    BY <1>3 DEF IsSpine
  <2>3. b = d
    BY <1>0, <1>3, <2>1, <2>2 DEF DistinctIds
  <2>4. CASE a = c
    BY <2>1, <2>2, <2>3, <2>4
  <2>5. CASE a # c
    <3>1. Len(U) = 2 /\ c = 3 - a
      BY <1>1, <2>5
    <3>2. s(a, b) = g
      BY <2>2, <2>3, <3>1 DEF s
    <3>3. IsHalfFace(r, m, t, a, b, U[a], s(a, b))
      BY <1>0
    <3>4. r.ff[f][i] = s(a, b)
      BY <2>1, <3>3 DEF IsHalfFace
    <3> QED
      BY <3>2, <3>4
  <2> QED
    BY <2>4, <2>5
<1>4. ASSUME NEW f \in faces(r), NEW g \in faces(r), NEW i \in Locals, NEW j \in Locals,
             r.fe[f][i] = r.fe[g][j], IsRib(r, m, t, U, f, i), IsRib(r, m, t, U, g, j)
      PROVE  (f = g /\ i = j) \/ r.ff[f][i] = g
  <2>1. PICK a \in 1 .. Len(U), b \in Sides :
           f = N(a, b) /\ i = pos(U[a], b) /\ r.fe[f][i] = rib_eid(m, a)
    BY <1>4 DEF IsRib
  <2>2. PICK c \in 1 .. Len(U), d \in Sides :
           g = N(c, d) /\ j = pos(U[c], d) /\ r.fe[g][j] = rib_eid(m, c)
    BY <1>4 DEF IsRib
  <2>3. a = c
    BY <1>0, <1>4, <2>1, <2>2 DEF DistinctIds
  <2>4. CASE b = d
    BY <2>1, <2>2, <2>3, <2>4
  <2>5. CASE b # d
    <3>1. d = 1 - b
      BY <2>5 DEF Sides
    <3>3. IsHalfFace(r, m, t, a, b, U[a], s(a, b))
      BY <1>0
    <3>4. r.ff[f][i] = N(a, 1 - b)
      BY <2>1, <3>3 DEF IsHalfFace
    <3> QED
      BY <2>2, <2>3, <3>1, <3>4
  <2> QED
    BY <2>4, <2>5
<1>5. ASSUME NEW f \in faces(r), NEW i \in Locals
      PROVE  /\ IsOld(r, m, t, U, f, i) \/ IsSpine(r, m, t, U, f, i) \/ IsRib(r, m, t, U, f, i)
             /\ IsOld(r, m, t, U, f, i) => r.fe[f][i] \in edges(m)
             /\ IsSpine(r, m, t, U, f, i) =>
                  r.fe[f][i] \notin edges(m) /\ \E j \in Sides : r.fe[f][i] = split_spine_eid(m, j)
             /\ IsRib(r, m, t, U, f, i) =>
                  r.fe[f][i] \notin edges(m) /\ \A j \in Sides : r.fe[f][i] # split_spine_eid(m, j)
  <2>1. IsOld(r, m, t, U, f, i) \/ IsSpine(r, m, t, U, f, i) \/ IsRib(r, m, t, U, f, i)
    BY SplitSides
  <2>2. IsOld(r, m, t, U, f, i) => r.fe[f][i] \in edges(m)
    BY OldSides
  <2>3. IsSpine(r, m, t, U, f, i) =>
           r.fe[f][i] \notin edges(m) /\ \E j \in Sides : r.fe[f][i] = split_spine_eid(m, j)
    BY <1>0 DEF IsSpine, DistinctIds
  <2>4. IsRib(r, m, t, U, f, i) =>
           r.fe[f][i] \notin edges(m) /\ \A j \in Sides : r.fe[f][i] # split_spine_eid(m, j)
    BY <1>0 DEF IsRib, DistinctIds
  <2> QED
    BY <2>1, <2>2, <2>3, <2>4
<1>6. ASSUME NEW f \in faces(r), NEW g \in faces(r), NEW i \in Locals, NEW j \in Locals,
             r.fe[f][i] = r.fe[g][j]
      PROVE  (f = g /\ i = j) \/ r.ff[f][i] = g
  <2>1. \/ IsOld(r, m, t, U, f, i) /\ IsOld(r, m, t, U, g, j)
        \/ IsSpine(r, m, t, U, f, i) /\ IsSpine(r, m, t, U, g, j)
        \/ IsRib(r, m, t, U, f, i) /\ IsRib(r, m, t, U, g, j)
    BY ONLY <1>5, <1>6
  <2> QED
    BY ONLY <1>2, <1>3, <1>4, <1>6, <2>1
<1>7. ~r.free
  BY DEF IsSplit
<1> QED
  BY <1>6, <1>7 DEF Mates

\* The corners of a half.
LEMMA HalfCorners ==
    ASSUME NEW m, Manifold(m), NEW t, NEW r, NEW U, IsSplit(r, m, t, U),
           NEW i \in 1 .. Len(U), NEW j \in Sides
    PROVE  LET p == split_f(m, i, j)
               u == U[i]
           IN  /\ p \in faces(r) /\ p \notin faces(m)
               /\ u.e \in Locals /\ pos(u, j) \in Locals /\ pos(u, 1 - j) \in Locals
               /\ pos(u, j) # u.e /\ pos(u, 1 - j) # u.e /\ pos(u, j) # pos(u, 1 - j)
               /\ Locals = {u.e, pos(u, j), pos(u, 1 - j)}
               /\ r.fv[p][pos(u, j)] = spine_vid(m, t, j)
               /\ r.fv[p][pos(u, 1 - j)] = split_new_vid(m)
               /\ r.fv[p][u.e] = m.fv[u.f][u.e]
<1>1. 1 - j \in Sides
  BY DEF Sides
<1>2. IsWedge(m, t, U[i])
  BY DEF IsSplit
<1> DEFINE s == IF Len(U) = 1 THEN Null ELSE split_f(m, 3 - i, j)
<1>3. IsHalfFace(r, m, t, i, j, U[i], s)
  BY DEF IsSplit
<1> HIDE DEF s
<1> QED
  BY <1>1, <1>2, <1>3 DEF IsHalfFace, IsWedge

\* After a split, faces have three corners each, and no two faces have the same.
LEMMA SplitCorners ==
    ASSUME NEW m, Manifold(m), NEW t, NEW r, NEW U, IsSplit(r, m, t, U)
    PROVE  Corners(r)
<1> DEFINE N(i, j) == split_f(m, i, j)
           w == split_new_vid(m)
           v(j) == spine_vid(m, t, j)
           opp(i) == m.fv[U[i].f][U[i].e]
<1>1. \A f \in faces(r) : \/ f \in faces(m) \ Gone(m, t) /\ r.fv[f] = m.fv[f]
                          \/ \E i \in 1 .. Len(U), j \in Sides : f = N(i, j)
  BY DEF IsSplit, AtKept
<1>2. /\ w \notin vertices(m) /\ \A j \in Sides : v(j) \in vertices(m)
      /\ \A i \in 1 .. Len(U) : opp(i) \in vertices(m)
      /\ \A i \in 1 .. Len(U), j \in Sides : opp(i) # v(j)
      /\ \A j, l \in Sides : v(j) = v(l) => j = l
      /\ \A i, k \in 1 .. Len(U) : opp(i) = opp(k) => i = k
  <2>1. DistinctIds(m, t, U)
    BY DEF IsSplit
  <2>2. \A i, k \in 1 .. Len(U) : opp(i) = opp(k) => i = k
    BY <2>1 DEF DistinctIds
  <2> QED
    BY SMTT(20), <2>2, SplitVertices
<1>3. ASSUME NEW i \in 1 .. Len(U), NEW j \in Sides
      PROVE  /\ \A k, l \in Locals : r.fv[N(i, j)][k] = r.fv[N(i, j)][l] => k = l
             /\ {r.fv[N(i, j)][k] : k \in Locals} = {v(j), w, opp(i)}
  <2> DEFINE u == U[i]
             p == N(i, j)
  <2>1. /\ u.e \in Locals /\ pos(u, j) \in Locals /\ pos(u, 1 - j) \in Locals
        /\ Locals = {u.e, pos(u, j), pos(u, 1 - j)}
        /\ r.fv[p][pos(u, j)] = v(j)
        /\ r.fv[p][pos(u, 1 - j)] = w
        /\ r.fv[p][u.e] = opp(i)
    BY HalfCorners
  <2>2. v(j) # w /\ opp(i) # w /\ opp(i) # v(j)
    BY <1>2
  <2> HIDE DEF u, p, v, w, opp
  <2>3. /\ \A k, l \in Locals : r.fv[p][k] = r.fv[p][l] => k = l
        /\ {r.fv[p][k] : k \in Locals} = {v(j), w, opp(i)}
    BY <2>1, <2>2
  <2> QED
    BY <2>3 DEF p
<1>4. ASSUME NEW f \in faces(r), NEW i \in Locals, NEW j \in Locals, r.fv[f][i] = r.fv[f][j]
      PROVE  i = j
  BY <1>1, <1>3, <1>4 DEF Manifold, Corners
<1>5. ASSUME NEW f \in faces(r), NEW g \in faces(r),
             \A i \in Locals : \E j \in Locals : r.fv[f][i] = r.fv[g][j]
      PROVE  f = g
  <2>1. CASE /\ f \in faces(m) \ Gone(m, t) /\ r.fv[f] = m.fv[f]
             /\ g \in faces(m) \ Gone(m, t) /\ r.fv[g] = m.fv[g]
    BY <1>5, <2>1 DEF Manifold, Corners
  <2>2. ASSUME f \in faces(m) \ Gone(m, t), r.fv[f] = m.fv[f],
               NEW c \in 1 .. Len(U), NEW d \in Sides, g = N(c, d)
        PROVE  FALSE
    <3>1. IsWedge(m, t, U[c])
      BY DEF IsSplit
    <3>2. \A k \in Locals : m.fv[f][k] \in {v(d), opp(c)}
      <4> SUFFICES ASSUME NEW k \in Locals
                   PROVE  m.fv[f][k] \in {v(d), opp(c)}
        OBVIOUS
      <4>1. m.fv[f][k] \in {r.fv[g][l] : l \in Locals}
        BY <1>5, <2>2
      <4>2. m.fv[f][k] \in vertices(m)
        BY <2>2, Rows DEF Manifold
      <4>3. m.fv[f][k] \in {v(d), w, opp(c)}
        <5>1. {r.fv[g][l] : l \in Locals} = {v(d), w, opp(c)}
          BY ZenonT(40), <1>3, <2>2
        <5> QED
          BY <4>1, <5>1
      <4> QED
        BY <1>2, <4>2, <4>3
    <3>3. \A k \in Locals : \E l \in Locals : m.fv[f][k] = m.fv[U[c].f][l]
      BY <3>1, <3>2 DEF IsWedge
    <3>4. U[c].f \in faces(m) /\ U[c].f \in Gone(m, t)
      BY <3>1 DEF IsWedge
    <3>5. f = U[c].f
      BY <2>2, <3>3, <3>4 DEF Manifold, Corners
    <3> QED
      BY <2>2, <3>4, <3>5
  <2>3. ASSUME g \in faces(m) \ Gone(m, t), r.fv[g] = m.fv[g],
               NEW a \in 1 .. Len(U), NEW b \in Sides, f = N(a, b)
        PROVE  FALSE
    <3>1. w \in {r.fv[f][k] : k \in Locals}
      <4>1. {r.fv[N(a, b)][k] : k \in Locals} = {v(b), w, opp(a)}
        BY <1>3
      <4> QED
        BY <2>3, <4>1
    <3>2. \A k \in Locals : r.fv[g][k] \in vertices(m)
      BY <2>3, Rows DEF Manifold
    <3> QED
      BY <1>2, <1>5, <3>1, <3>2
  <2>4. ASSUME NEW a \in 1 .. Len(U), NEW b \in Sides, f = N(a, b),
               NEW c \in 1 .. Len(U), NEW d \in Sides, g = N(c, d)
        PROVE  f = g
    <3>1. {r.fv[f][k] : k \in Locals} \subseteq {r.fv[g][k] : k \in Locals}
      BY <1>5
    <3>2. v(b) \in {v(d), w, opp(c)} /\ opp(a) \in {v(d), w, opp(c)}
      <4>0. \A i \in 1 .. Len(U), j \in Sides :
               {r.fv[N(i, j)][k] : k \in Locals} = {v(j), w, opp(i)}
        BY ONLY <1>3
      <4>1. {r.fv[f][k] : k \in Locals} = {v(b), w, opp(a)}
        BY ONLY <4>0, <2>4, Zenon
      <4>2. {r.fv[g][k] : k \in Locals} = {v(d), w, opp(c)}
        BY ONLY <4>0, <2>4, Zenon
      <4> HIDE DEF v, opp, w
      <4> QED
        BY <3>1, <4>1, <4>2
    <3>3. v(b) = v(d) /\ opp(a) = opp(c)
      <4>1. v(b) # w /\ opp(a) # w
        BY ONLY <1>2
      <4>2. v(b) # opp(c) /\ opp(a) # v(d)
        BY ONLY <1>2, <4>1, <3>2
      <4> QED
        BY ONLY <3>2, <4>1, <4>2
    <3> QED
      BY <1>2, <2>4, <3>3
  <2> QED
    BY <1>1, <2>1, <2>2, <2>3, <2>4
<1> QED
  BY <1>4, <1>5 DEF Corners

\* A face of the fan has the corners and the edges of t, and those alone.
LEMMA GoneFace ==
    ASSUME NEW m, Manifold(m), NEW t \in Tuples(m), NEW f \in Gone(m, t), NEW k \in Locals
    PROVE  /\ \/ \E j \in Sides : m.fv[f][k] = spine_vid(m, t, j)
              \/ \E i \in 1 .. Len(Fan(m, t)) : m.fv[f][k] = m.fv[Fan(m, t)[i].f][Fan(m, t)[i].e]
           /\ \/ m.fe[f][k] = id_edge(m, t)
              \/ \E i \in 1 .. Len(Fan(m, t)), j \in Sides : m.fe[f][k] = ear(m, Fan(m, t)[i], j)
<1> DEFINE U == Fan(m, t)
<1>1. PICK i \in 1 .. Len(U) : f = U[i].f
  <2>1. DOMAIN U = 1 .. Len(U)
    BY Incident DEF IsFan
  <2> QED
    BY <2>1 DEF Gone
<1>2. IsWedge(m, t, U[i])
  BY Wedges
<1> HIDE DEF U
<1>3. k = U[i].e \/ \E j \in Sides : k = pos(U[i], j)
  <2>1. 0 \in Sides /\ 1 - 0 \in Sides
    BY DEF Sides
  <2> QED
    BY <1>2, <2>1 DEF IsWedge
<1>4. k = U[i].e \/ \E j \in Sides : k = pos(U[i], 1 - j)
  BY <1>2, EarOrSpine DEF IsWedge
<1>5. \/ \E j \in Sides : m.fv[f][k] = spine_vid(m, t, j)
      \/ \E a \in 1 .. Len(U) : m.fv[f][k] = m.fv[U[a].f][U[a].e]
  BY <1>1, <1>2, <1>3 DEF IsWedge
<1>6. \/ m.fe[f][k] = id_edge(m, t)
      \/ \E a \in 1 .. Len(U), j \in Sides : m.fe[f][k] = ear(m, U[a], j)
  BY <1>1, <1>2, <1>4 DEF IsWedge, ear
<1> QED
  BY <1>5, <1>6 DEF U

\* After a split, each vertex and each edge names a face that has it.
LEMMA SplitNamed ==
    ASSUME NEW m, Manifold(m), NEW t, NEW r, NEW U, IsSplit(r, m, t, U), SplitTables(r, m, t)
    PROVE  /\ \A v \in vertices(r) :
                 r.vf[v] \in faces(r) /\ \E k \in Locals : r.fv[r.vf[v]][k] = v
           /\ \A e \in edges(r) :
                 r.ef[e] \in faces(r) /\ \E k \in Locals : r.fe[r.ef[e]][k] = e
<1> DEFINE N(i, j) == split_f(m, i, j)
           I == 1 .. Len(U)
           w == split_new_vid(m)
           v(j) == spine_vid(m, t, j)
           opp(i) == m.fv[U[i].f][U[i].e]
<1>0. /\ t \in Tuples(m) /\ U = Fan(m, t) /\ ~m.free /\ 0 \in Sides /\ 1 \in Sides /\ 1 - 0 = 1
  BY DEF IsSplit, Sides
<1>1. /\ vertices(r) = vertices(m) \cup {w}
      /\ edges(r) = (edges(m) \ {id_edge(m, t)}) \cup SplitEdges(m, t)
      /\ SplitNames(r, m, t)
  BY <1>0 DEF SplitTables, SplitRows, NewVertices
<1>2. /\ \A j \in Sides : /\ \E i \in I : r.ef[split_spine_eid(m, j)] = N(i, j)
                          /\ \E i \in I : r.vf[v(j)] = N(i, j)
      /\ \A i \in I : /\ \A j \in Sides : r.ef[ear(m, U[i], j)] = N(i, j)
                      /\ r.ef[rib_eid(m, i)] = N(i, 0)
                      /\ r.vf[opp(i)] = N(i, 0)
      /\ \E i \in I : r.vf[w] = N(i, 0)
      /\ \A e \in edges(m) \ {id_edge(m, t)} :
            (\A i \in I, j \in Sides : e # ear(m, U[i], j)) => r.ef[e] = m.ef[e]
      /\ \A x \in vertices(m) :
            (\A j \in Sides : x # v(j)) /\ (\A i \in I : x # opp(i)) => r.vf[x] = m.vf[x]
  <2>1. SplitNames(r, m, t)
    BY <1>1
  <2> QED
    BY ONLY <1>0, <2>1 DEF SplitNames
<1>3. \A f \in faces(m) \ Gone(m, t) : f \in faces(r) /\ r.fv[f] = m.fv[f] /\ r.fe[f] = m.fe[f]
  BY DEF IsSplit, AtKept
<1>4. \A i \in I, j \in Sides :
         /\ N(i, j) \in faces(r)
         /\ U[i].e \in Locals /\ pos(U[i], j) \in Locals /\ pos(U[i], 1 - j) \in Locals
         /\ r.fv[N(i, j)][pos(U[i], j)] = v(j) /\ r.fv[N(i, j)][pos(U[i], 1 - j)] = w
         /\ r.fv[N(i, j)][U[i].e] = opp(i)
  BY HalfCorners
<1>5. \A i \in I, j \in Sides :
         /\ r.fe[N(i, j)][pos(U[i], 1 - j)] = ear(m, U[i], j)
         /\ r.fe[N(i, j)][U[i].e] = split_spine_eid(m, j)
         /\ r.fe[N(i, j)][pos(U[i], j)] = rib_eid(m, i)
  BY DEF IsSplit, IsHalfFace
<1>6. ASSUME NEW x \in vertices(r)
      PROVE  r.vf[x] \in faces(r) /\ \E k \in Locals : r.fv[r.vf[x]][k] = x
  <2>1. CASE x = w
    <3>1. PICK i \in I : r.vf[x] = N(i, 0)
      BY <1>2, <2>1
    <3> QED
      BY <1>0, <1>4, <2>1, <3>1
  <2>2. ASSUME NEW j \in Sides, x = v(j)
        PROVE  r.vf[x] \in faces(r) /\ \E k \in Locals : r.fv[r.vf[x]][k] = x
    <3>1. PICK i \in I : r.vf[x] = N(i, j)
      BY <1>2, <2>2
    <3> QED
      BY <1>4, <2>2, <3>1
  <2>3. ASSUME NEW i \in I, x = opp(i)
        PROVE  r.vf[x] \in faces(r) /\ \E k \in Locals : r.fv[r.vf[x]][k] = x
    <3>1. r.vf[x] = N(i, 0)
      BY <1>2, <2>3
    <3> QED
      BY <1>0, <1>4, <2>3, <3>1
  <2>4. CASE x # w /\ (\A j \in Sides : x # v(j)) /\ (\A i \in I : x # opp(i))
    <3>1. x \in vertices(m) /\ r.vf[x] = m.vf[x]
      BY <1>1, <1>2, <2>4
    <3>2. m.vf[x] \in faces(m) /\ \E k \in Locals : m.fv[m.vf[x]][k] = x
      BY <3>1, Rows DEF Manifold, Named
    <3>3. m.vf[x] \notin Gone(m, t)
      BY <1>0, <2>4, <3>2, GoneFace
    <3> QED
      BY <1>3, <3>1, <3>2, <3>3
  <2> QED
    BY <2>1, <2>2, <2>3, <2>4
<1>7. ASSUME NEW e \in edges(r)
      PROVE  r.ef[e] \in faces(r) /\ \E k \in Locals : r.fe[r.ef[e]][k] = e
  <2>1. ASSUME NEW i \in I, e = rib_eid(m, i)
        PROVE  r.ef[e] \in faces(r) /\ \E k \in Locals : r.fe[r.ef[e]][k] = e
    <3>1. r.ef[e] = N(i, 0)
      BY <1>2, <2>1
    <3> QED
      BY <1>0, <1>4, <1>5, <2>1, <3>1
  <2>2. ASSUME NEW j \in Sides, e = split_spine_eid(m, j)
        PROVE  r.ef[e] \in faces(r) /\ \E k \in Locals : r.fe[r.ef[e]][k] = e
    <3>1. PICK i \in I : r.ef[e] = N(i, j)
      BY <1>2, <2>2
    <3> QED
      BY <1>4, <1>5, <2>2, <3>1
  <2>3. ASSUME NEW i \in I, NEW j \in Sides, e = ear(m, U[i], j)
        PROVE  r.ef[e] \in faces(r) /\ \E k \in Locals : r.fe[r.ef[e]][k] = e
    <3>1. r.ef[e] = N(i, j)
      BY <1>2, <2>3
    <3> QED
      BY <1>4, <1>5, <2>3, <3>1
  <2>4. CASE e \in edges(m) \ {id_edge(m, t)} /\ \A i \in I, j \in Sides : e # ear(m, U[i], j)
    <3>1. r.ef[e] = m.ef[e]
      BY <1>2, <2>4
    <3>2. m.ef[e] \in faces(m) /\ \E k \in Locals : m.fe[m.ef[e]][k] = e
      BY <2>4, Rows DEF Manifold, Named
    <3>3. m.ef[e] \notin Gone(m, t)
      BY <1>0, <2>4, <3>2, GoneFace
    <3> QED
      BY <1>3, <3>1, <3>2, <3>3
  <2>5. \/ e \in edges(m) \ {id_edge(m, t)}
        \/ \E j \in Sides : e = split_spine_eid(m, j)
        \/ \E i \in I : e = rib_eid(m, i)
    BY <1>0, <1>1 DEF SplitEdges, NewEdges
  <2> QED
    BY <2>1, <2>2, <2>3, <2>4, <2>5
<1> QED
  BY <1>6, <1>7

Has(m, f, v) == \E k \in Locals : m.fv[f][k] = v

\* The halves of a face have its corners, but not both ends of the edge.
LEMMA HalvesHave ==
    ASSUME NEW m, Manifold(m), NEW t, NEW r, NEW U, IsSplit(r, m, t, U), NEW i \in 1 .. Len(U)
    PROVE  /\ \A v : Has(m, U[i].f, v) => \E j \in Sides : Has(r, split_f(m, i, j), v)
           /\ \A v, x : Has(m, U[i].f, v) /\ Has(m, U[i].f, x) =>
                 \/ \E j \in Sides : Has(r, split_f(m, i, j), v) /\ Has(r, split_f(m, i, j), x)
                 \/ \E f \in Sides : v = spine_vid(m, t, f) /\ x = spine_vid(m, t, 1 - f)
           /\ \A v : \A j \in Sides : Has(r, split_f(m, i, j), v) /\ v # split_new_vid(m)
                                     => Has(m, U[i].f, v)
<1> DEFINE N(j) == split_f(m, i, j)
           w == split_new_vid(m)
           v(j) == spine_vid(m, t, j)
           u == U[i]
           opp == m.fv[u.f][u.e]
<1>1. \A x : Has(m, u.f, x) <=> x = opp \/ x = v(0) \/ x = v(1)
  <2>1. IsWedge(m, t, u)
    BY DEF IsSplit
  <2>2. 0 \in Sides /\ 1 \in Sides /\ 1 - 0 = 1
    BY DEF Sides
  <2>3. /\ Locals = {u.e, pos(u, 0), pos(u, 1)} /\ m.fv[u.f][pos(u, 0)] = v(0)
        /\ m.fv[u.f][pos(u, 1)] = v(1)
    BY <2>1, <2>2 DEF IsWedge
  <2> HIDE DEF v, u
  <2> QED
    BY <2>3 DEF Has
<1>2. \A j \in Sides : \A x : Has(r, N(j), x) <=> x = v(j) \/ x = w \/ x = opp
  <2> SUFFICES ASSUME NEW j \in Sides
               PROVE  \A x : Has(r, N(j), x) <=> x = v(j) \/ x = w \/ x = opp
    OBVIOUS
  <2>1. /\ Locals = {u.e, pos(u, j), pos(u, 1 - j)}
        /\ r.fv[N(j)][pos(u, j)] = v(j) /\ r.fv[N(j)][pos(u, 1 - j)] = w
        /\ r.fv[N(j)][u.e] = opp
    BY HalfCorners
  <2> HIDE DEF N, v, u, w, opp
  <2> QED
    BY <2>1 DEF Has
<1>3. Sides = {0, 1} /\ 1 - 0 = 1 /\ 1 - 1 = 0
  BY DEF Sides
<1> HIDE DEF N, w, v, u, opp
<1>4. \A x : Has(m, u.f, x) => \E j \in Sides : Has(r, N(j), x)
  BY ONLY <1>1, <1>2, <1>3
<1>5. \A x, y : Has(m, u.f, x) /\ Has(m, u.f, y) =>
         (\E j \in Sides : Has(r, N(j), x) /\ Has(r, N(j), y))
            \/ \E j \in Sides : x = v(j) /\ y = v(1 - j)
  <2>0. SUFFICES ASSUME NEW x, NEW y, Has(m, u.f, x), Has(m, u.f, y)
               PROVE  (\E j \in Sides : Has(r, N(j), x) /\ Has(r, N(j), y))
                         \/ \E j \in Sides : x = v(j) /\ y = v(1 - j)
    OBVIOUS
  <2>1. (x = opp \/ x = v(0) \/ x = v(1)) /\ (y = opp \/ y = v(0) \/ y = v(1))
    BY ONLY <1>1, <2>0
  <2>2. /\ \A z : Has(r, N(0), z) <=> z = v(0) \/ z = w \/ z = opp
        /\ \A z : Has(r, N(1), z) <=> z = v(1) \/ z = w \/ z = opp
    BY ONLY <1>2, <1>3
  <2>3. \/ Has(r, N(0), x) /\ Has(r, N(0), y)
        \/ Has(r, N(1), x) /\ Has(r, N(1), y)
        \/ x = v(0) /\ y = v(1)
        \/ x = v(1) /\ y = v(0)
    BY ONLY <2>1, <2>2
  <2> QED
    BY ONLY <2>3, <1>3
<1>6. \A x : \A j \in Sides : Has(r, N(j), x) /\ x # w => Has(m, u.f, x)
  BY ONLY <1>1, <1>2, <1>3
<1> QED
  BY <1>4, <1>5, <1>6 DEF N, v, u, w

\* MeetClosed, of the vertices that faces have.
LEMMA MeetHas ==
    ASSUME NEW m, NEW v, NEW S \in SUBSET star(m, v)
    PROVE  /\ \A f : f \in star(m, v) <=> f \in faces(m) /\ Has(m, f, v)
           /\ MeetClosed(m, v, S) <=>
                \A f \in S, g \in star(m, v) : \A x : Has(m, f, x) /\ Has(m, g, x) /\ x # v => g \in S
BY DEF MeetClosed, star, Has

\* After a split, the faces at a vertex are still connected around it: a closed set
\* of faces would be closed before it, read with either end for the new vertex.
LEMMA SplitStars ==
    ASSUME NEW m, Manifold(m), NEW t, NEW r, NEW U, IsSplit(r, m, t, U),
           vertices(r) = vertices(m) \cup {split_new_vid(m)}
    PROVE  MeetStars(r)
<1> DEFINE N(i, j) == split_f(m, i, j)
           I == 1 .. Len(U)
           w == split_new_vid(m)
           sv(j) == spine_vid(m, t, j)
           opp(i) == m.fv[U[i].f][U[i].e]
<1>0. /\ t \in Tuples(m) /\ U = Fan(m, t)
      /\ \A i \in I : U[i].f \in faces(m) /\ U[i].f \in Gone(m, t)
      /\ \A f \in Gone(m, t) : \E i \in I : f = U[i].f
      /\ \A f \in faces(m) \ Gone(m, t) : f \in faces(r) /\ \A x : Has(r, f, x) <=> Has(m, f, x)
      /\ \A f \in faces(r) : f \in faces(m) \ Gone(m, t) \/ \E i \in I, j \in Sides : f = N(i, j)
      /\ w \notin vertices(m)
  <2>1. DOMAIN U = 1 .. Len(U) /\ U = Fan(m, t) /\ t \in Tuples(m)
    BY DEF IsSplit, IsFan
  <2>2. \A f \in Gone(m, t) : \E i \in I : f = U[i].f
    BY <2>1 DEF Gone
  <2>3. \A i \in I : U[i].f \in faces(m) /\ U[i].f \in Gone(m, t)
    BY DEF IsSplit, IsWedge
  <2>4. \A f \in faces(m) \ Gone(m, t) : f \in faces(r) /\ \A x : Has(r, f, x) <=> Has(m, f, x)
    BY DEF IsSplit, AtKept, Has
  <2> QED
    BY <2>1, <2>2, <2>3, <2>4 DEF IsSplit, DistinctIds
<1>1. \A i \in I, j \in Sides :
         /\ N(i, j) \in faces(r) /\ N(i, j) \notin faces(m)
         /\ Has(r, N(i, j), w) /\ Has(r, N(i, j), sv(j)) /\ Has(r, N(i, j), opp(i))
         /\ sv(j) # w /\ opp(i) # w
  <2> SUFFICES ASSUME NEW i \in I, NEW j \in Sides
               PROVE  /\ N(i, j) \in faces(r) /\ N(i, j) \notin faces(m)
                      /\ Has(r, N(i, j), w) /\ Has(r, N(i, j), sv(j)) /\ Has(r, N(i, j), opp(i))
                      /\ sv(j) # w /\ opp(i) # w
    OBVIOUS
  <2>1. sv(j) # w /\ opp(i) # w
    BY SplitVertices
  <2> QED
    BY <2>1, HalfCorners DEF Has
<1>2. \A i \in I :
         /\ \A v : Has(m, U[i].f, v) => \E j \in Sides : Has(r, N(i, j), v)
         /\ \A v, x : Has(m, U[i].f, v) /\ Has(m, U[i].f, x) =>
               \/ \E j \in Sides : Has(r, N(i, j), v) /\ Has(r, N(i, j), x)
               \/ \E j \in Sides : v = sv(j) /\ x = sv(1 - j)
         /\ \A v : \A j \in Sides : Has(r, N(i, j), v) /\ v # w => Has(m, U[i].f, v)
  BY HalvesHave
<1>3. \A f \in faces(m) : \A j \in Sides :
         Has(m, f, sv(j)) /\ Has(m, f, sv(1 - j)) => f \in Gone(m, t)
  <2> SUFFICES ASSUME NEW f \in faces(m), NEW j \in Sides, Has(m, f, sv(j)), Has(m, f, sv(1 - j))
               PROVE  f \in Gone(m, t)
    OBVIOUS
  <2>1. Has(m, f, sv(0)) /\ Has(m, f, sv(1))
    BY DEF Sides
  <2>2. \A k, l \in Locals : m.fv[f][k] = sv(0) /\ m.fv[f][l] = sv(1) =>
           \E i \in 1 .. Len(U) : f = U[i].f
    BY <1>0, IncidentAll
  <2> QED
    BY <1>0, <2>1, <2>2 DEF Has
<1>4. ASSUME NEW v \in vertices(r), NEW S \in SUBSET star(r, v), S # {}, MeetClosed(r, v, S)
      PROVE  S = star(r, v)
  <2>1. /\ \A f : f \in star(r, v) <=> f \in faces(r) /\ Has(r, f, v)
        /\ \A f \in S, g \in star(r, v) : \A x : Has(r, f, x) /\ Has(r, g, x) /\ x # v => g \in S
    BY <1>4, MeetHas
  <2>2. CASE v = w
    <3>1. \A f \in star(r, v) : \E i \in I, j \in Sides : f = N(i, j)
      <4> SUFFICES ASSUME NEW f \in faces(m), Has(m, f, w)
                   PROVE  FALSE
        BY <1>0, <2>1, <2>2
      <4> QED
        BY <1>0, Rows DEF Manifold, Has
    <3>2. PICK a \in I, b \in Sides : N(a, b) \in S
      BY <1>4, <3>1
    <3>3. \A c \in I : N(c, b) \in S
      BY <1>1, <2>1, <2>2, <3>2
    <3>4. \A c \in I, d \in Sides : N(c, d) \in S
      BY <1>1, <2>1, <2>2, <3>3
    <3> QED
      BY <3>1, <3>4
  <2>3. CASE v # w
    <3>0. v \in vertices(m)
      BY <2>3
    <3> DEFINE T == {g \in star(m, v) : \/ g \notin Gone(m, t) /\ g \in S
                                        \/ \E i \in I, j \in Sides : g = U[i].f /\ N(i, j) \in S}
    <3>1. \A f : f \in star(m, v) <=> f \in faces(m) /\ Has(m, f, v)
      BY DEF star, Has
    \* The halves at v share the new vertex.
    <3>2. \A a, c \in I, b, d \in Sides : N(a, b) \in S /\ N(c, d) \in star(r, v) => N(c, d) \in S
      BY <1>1, <2>1, <2>3
    <3>3. ASSUME NEW i \in I, NEW j \in Sides, N(i, j) \in S
          PROVE  U[i].f \in T
      <4>1. Has(r, N(i, j), v)
        BY <2>1, <3>3
      <4> QED
        BY <1>0, <1>2, <2>3, <3>1, <3>3, <4>1
    <3>4. ASSUME NEW f \in S, f \in faces(m)
          PROVE  f \in T
      <4>1. f \in faces(m) \ Gone(m, t)
        BY <1>0, <1>1, <2>1, <3>4
      <4> QED
        BY <1>0, <2>1, <3>1, <3>4, <4>1
    <3>5. T # {}
      BY <1>0, <1>4, <2>1, <3>3, <3>4
    <3>6. ASSUME NEW f \in T, NEW g \in star(m, v), NEW x, Has(m, f, x), Has(m, g, x), x # v
          PROVE  g \in T
      <4>1. CASE f \notin Gone(m, t) /\ f \in S /\ g \notin Gone(m, t)
        <5>1. g \in star(r, v) /\ Has(r, g, x) /\ Has(r, f, x)
          BY <1>0, <2>1, <3>1, <3>6, <4>1
        <5> QED
          BY <2>1, <3>6, <4>1, <5>1
      <4>2. ASSUME f \notin Gone(m, t), f \in S, NEW i \in I, g = U[i].f
            PROVE  g \in T
        <5>1. f \in faces(m) /\ Has(m, f, v) /\ Has(m, g, v)
          BY <3>1, <3>6
        <5>2. ~\E j \in Sides : v = sv(j) /\ x = sv(1 - j)
          BY <1>3, <3>6, <4>2, <5>1
        <5>6. Has(m, U[i].f, v) /\ Has(m, U[i].f, x)
          BY <3>6, <4>2, <5>1
        <5>3. PICK j \in Sides : Has(r, N(i, j), v) /\ Has(r, N(i, j), x)
          <6>1. \A a, b : Has(m, U[i].f, a) /\ Has(m, U[i].f, b) =>
                   (\E j \in Sides : Has(r, N(i, j), a) /\ Has(r, N(i, j), b))
                      \/ (\E j \in Sides : a = sv(j) /\ b = sv(1 - j))
            BY <1>2
          <6>2. (\E j \in Sides : Has(r, N(i, j), v) /\ Has(r, N(i, j), x))
                   \/ (\E j \in Sides : v = sv(j) /\ x = sv(1 - j))
            BY ONLY <6>1, <5>6
          <6> QED
            BY ONLY <5>2, <6>2
        <5>4. N(i, j) \in star(r, v) /\ Has(r, f, x)
          BY <1>0, <1>1, <2>1, <3>6, <4>2, <5>1, <5>3
        <5>5. N(i, j) \in S
          BY <2>1, <3>6, <4>2, <5>3, <5>4
        <5> QED
          BY <3>3, <4>2, <5>5
      <4>3. ASSUME NEW i \in I, NEW j \in Sides, f = U[i].f, N(i, j) \in S, g \notin Gone(m, t)
            PROVE  g \in T
        <5>1. g \in faces(m) /\ Has(m, f, v) /\ Has(m, g, v)
          BY <3>1, <3>6
        <5>2. ~\E b \in Sides : v = sv(b) /\ x = sv(1 - b)
          BY <1>3, <3>6, <4>3, <5>1
        <5>7. Has(m, U[i].f, v) /\ Has(m, U[i].f, x)
          BY <3>6, <4>3, <5>1
        <5>3. PICK b \in Sides : Has(r, N(i, b), v) /\ Has(r, N(i, b), x)
          <6>1. \A a, c : Has(m, U[i].f, a) /\ Has(m, U[i].f, c) =>
                   (\E d \in Sides : Has(r, N(i, d), a) /\ Has(r, N(i, d), c))
                      \/ (\E d \in Sides : a = sv(d) /\ c = sv(1 - d))
            BY <1>2
          <6>2. (\E d \in Sides : Has(r, N(i, d), v) /\ Has(r, N(i, d), x))
                   \/ (\E d \in Sides : v = sv(d) /\ x = sv(1 - d))
            BY ONLY <6>1, <5>7
          <6> QED
            BY ONLY <5>2, <6>2
        <5>4. N(i, b) \in S
          BY <1>1, <2>1, <3>2, <4>3, <5>3
        <5>5. g \in star(r, v) /\ Has(r, g, x)
          BY <1>0, <2>1, <3>6, <4>3, <5>1
        <5>6. g \in S
          BY <2>1, <3>6, <5>3, <5>4, <5>5
        <5> QED
          BY <3>4, <5>1, <5>6
      <4>4. ASSUME NEW i \in I, NEW j \in Sides, f = U[i].f, N(i, j) \in S,
                   NEW c \in I, g = U[c].f
            PROVE  g \in T
        <5>1. Has(m, g, v)
          BY <3>1
        <5>2. PICK d \in Sides : Has(r, N(c, d), v)
          BY <1>2, <4>4, <5>1
        <5>3. N(c, d) \in S
          BY <1>1, <2>1, <3>2, <4>4, <5>2
        <5> QED
          BY <3>3, <4>4, <5>3
      <4>5. \/ f \notin Gone(m, t) /\ f \in S
            \/ \E i \in I, j \in Sides : f = U[i].f /\ N(i, j) \in S
        OBVIOUS
      <4> HIDE DEF T
      <4> QED
        BY <1>0, <4>1, <4>2, <4>3, <4>4, <4>5
    <3>7. T = star(m, v)
      <4>1. T \in SUBSET star(m, v)
        OBVIOUS
      <4> HIDE DEF T
      <4>2. MeetClosed(m, v, T)
        BY <3>6, <4>1, MeetHas
      <4>3. MeetStars(m)
        BY StarsMeet DEF Manifold
      <4> QED
        BY <3>0, <3>5, <4>1, <4>2, <4>3 DEF MeetStars
    <3>8. ASSUME NEW f \in star(r, v)
          PROVE  f \in S
      <4>1. CASE f \in faces(m) \ Gone(m, t)
        <5>1. f \in T
          BY <1>0, <2>1, <3>1, <3>7, <4>1
        <5> QED
          BY <1>0, <4>1, <5>1
      <4>2. ASSUME NEW i \in I, NEW j \in Sides, f = N(i, j)
            PROVE  f \in S
        <5>1. U[i].f \in T
          <6>1. Has(m, U[i].f, v)
            BY <1>2, <2>1, <2>3, <4>2
          <6> HIDE DEF T
          <6> QED
            BY <1>0, <3>1, <3>7, <6>1
        <5>2. PICK a \in I, b \in Sides : N(a, b) \in S
          BY <1>0, <5>1
        <5> QED
          BY <3>2, <4>2, <5>2
      <4> QED
        BY <1>0, <2>1, <4>1, <4>2
    <3> QED
      BY <3>8
  <2> QED
    BY <2>2, <2>3
<1> QED
  BY <1>4 DEF MeetStars

\* The ids are below the capacities that split_edge requests.
LEMMA SplitRange ==
    ASSUME NEW m, Manifold(m), NEW t \in Tuples(m), NEW r, SplitTables(r, m, t)
    PROVE  /\ Fields(r) /\ vertices(r) \subseteq 0 .. r.cap.v - 1
           /\ edges(r) \subseteq 0 .. r.cap.e - 1 /\ faces(r) \subseteq 0 .. r.cap.f - 1
           /\ r.cap.v = m.cap.v + (IF m.free THEN 3 ELSE 1) /\ r.free = m.free
<1> DEFINE n == Len(Fan(m, t))
           cv == m.cap.v
           ce == m.cap.e
           cf == m.cap.f
<1>1. /\ m.cap \in [v : Nat, e : Nat, f : Nat] /\ m.free \in BOOLEAN
      /\ vertices(m) \subseteq 0 .. cv - 1 /\ edges(m) \subseteq 0 .. ce - 1
      /\ faces(m) \subseteq 0 .. cf - 1
  BY DEF Manifold, Fields, Typed
<1>2. cv \in Nat /\ ce \in Nat /\ cf \in Nat
  BY <1>1
<1>3. n \in {1, 2} /\ (n = 2 => ~m.free) /\ \A i \in 1 .. n : i \in {1, 2} /\ i <= n
  BY Incident DEF IsFan
<1>4. /\ Tables(r) /\ r.free = m.free /\ vertices(r) = vertices(m) \cup NewVertices(m)
      /\ faces(r) = (faces(m) \ Gone(m, t)) \cup Halves(m, t)
      /\ edges(r) = (edges(m) \ {id_edge(m, t)}) \cup SplitEdges(m, t)
      /\ r.cap = requested(m, t)
  BY DEF SplitTables, SplitRows
<1> HIDE DEF n
<1>5. r.cap = [v |-> cv + (IF m.free THEN 3 ELSE 1),
               e |-> ce + (IF m.free THEN 4 ELSE 2 + n), f |-> cf + 2 * n]
  BY <1>4 DEF requested, n, Fan
<1>6. /\ r.cap.v = cv + (IF m.free THEN 3 ELSE 1)
      /\ r.cap.e = ce + (IF m.free THEN 4 ELSE 2 + n) /\ r.cap.f = cf + 2 * n
      /\ r.cap \in [v : Nat, e : Nat, f : Nat]
  BY <1>2, <1>3, <1>5
<1>7. Fields(r)
  BY <1>1, <1>4, <1>6 DEF Fields, Tables
<1>8. \A x \in NewVertices(m) : x \in 0 .. r.cap.v - 1
  <2> HIDE DEF cv, ce, cf
  <2>1. \A x \in NewVertices(m) : x = cv \/ (m.free /\ (x = cv + 1 \/ x = cv + 2))
    <3>1. cv + 1 + 0 = cv + 1 /\ cv + 1 + 1 = cv + 2
      BY <1>2
    <3> QED
      BY <3>1 DEF NewVertices, split_new_vid, free_split_v, Sides, cv
  <2> QED
    BY <1>2, <1>6, <2>1
<1>9. \A x \in Halves(m, t) : x \in 0 .. r.cap.f - 1
  <2> SUFFICES ASSUME NEW i \in 1 .. n, NEW j \in Sides
               PROVE  split_f(m, i, j) \in 0 .. r.cap.f - 1
    BY DEF Halves, n
  <2>1. split_f(m, i, j) = cf + 2 * (i - 1) + j
    BY DEF split_f
  <2>2. i \in {1, 2} /\ i <= n /\ j \in {0, 1}
    BY <1>3 DEF Sides
  <2> HIDE DEF cv, ce, cf
  <2> QED
    BY <1>2, <1>3, <1>6, <2>1, <2>2
<1>10. \A x \in SplitEdges(m, t) : x \in 0 .. r.cap.e - 1
  <2> SUFFICES ASSUME NEW i \in 1 .. n, NEW x \in NewEdges(m, i)
               PROVE  x \in 0 .. r.cap.e - 1
    BY DEF SplitEdges, n
  <2>1. /\ x = ce + 0 \/ x = ce + 1 \/ (m.free /\ (x = ce + 2 + 0 \/ x = ce + 2 + 1))
             \/ (~m.free /\ x = ce + 1 + i)
    BY DEF NewEdges, split_spine_eid, free_split_e, rib_eid, Sides
  <2>2. i \in {1, 2} /\ i <= n
    BY <1>3
  <2> HIDE DEF cv, ce, cf
  <2> QED
    BY <1>2, <1>3, <1>6, <2>1, <2>2
<1>11. /\ \A x \in vertices(m) : x \in 0 .. r.cap.v - 1
       /\ \A x \in edges(m) : x \in 0 .. r.cap.e - 1
       /\ \A x \in faces(m) : x \in 0 .. r.cap.f - 1
  <2>1. /\ \A x \in vertices(m) : x \in 0 .. cv - 1 /\ \A y \in edges(m) : y \in 0 .. ce - 1
        /\ \A x \in faces(m) : x \in 0 .. cf - 1
    BY <1>1
  <2> HIDE DEF cv, ce, cf
  <2>2. /\ \A x \in 0 .. cv - 1 : x \in 0 .. r.cap.v - 1
        /\ \A x \in 0 .. ce - 1 : x \in 0 .. r.cap.e - 1
        /\ \A x \in 0 .. cf - 1 : x \in 0 .. r.cap.f - 1
    BY <1>2, <1>3, <1>6
  <2>3. /\ vertices(m) \subseteq 0 .. cv - 1 /\ edges(m) \subseteq 0 .. ce - 1
        /\ faces(m) \subseteq 0 .. cf - 1
    BY <1>1 DEF cv, ce, cf
  <2> QED
    BY <2>2, <2>3
<1> QED
  BY <1>4, <1>6, <1>7, <1>8, <1>9, <1>10, <1>11

\* Rows that hold active ids only.
LEMMA TypedRows ==
    ASSUME NEW r, Tables(r),
           vertices(r) \subseteq 0 .. r.cap.v - 1, edges(r) \subseteq 0 .. r.cap.e - 1,
           faces(r) \subseteq 0 .. r.cap.f - 1,
           \A f \in faces(r), k \in Locals :
              r.fv[f][k] \in vertices(r) /\ r.fe[f][k] \in edges(r)
              /\ r.ff[f][k] \in faces(r) \cup {Null},
           \A v \in vertices(r) : r.vf[v] \in faces(r),
           \A e \in edges(r) : r.ef[e] \in faces(r)
    PROVE  Typed(r)
<1>1. \A A, B : \A g \in [faces(r) -> [Locals -> A]] :
         (\A f \in faces(r), k \in Locals : g[f][k] \in B) => g \in [faces(r) -> [Locals -> B]]
  <2> SUFFICES ASSUME NEW A, NEW B, NEW g \in [faces(r) -> [Locals -> A]],
                      \A f \in faces(r), k \in Locals : g[f][k] \in B
               PROVE  g \in [faces(r) -> [Locals -> B]]
    OBVIOUS
  <2>1. \A f \in faces(r) : g[f] \in [Locals -> B]
    OBVIOUS
  <2> QED
    BY <2>1
<1>2. /\ r.fv \in [faces(r) -> [Locals -> vertices(r)]]
      /\ r.fe \in [faces(r) -> [Locals -> edges(r)]]
      /\ r.ff \in [faces(r) -> [Locals -> faces(r) \cup {Null}]]
  BY <1>1 DEF Tables
<1>3. r.vf \in [vertices(r) -> faces(r)] /\ r.ef \in [edges(r) -> faces(r)]
  BY DEF Tables
<1> QED
  BY <1>2, <1>3 DEF Typed

\* Splits keep the invariant, for surfaces.
LEMMA SplitKeepsSurface ==
    ASSUME NEW m, Manifold(m), ~m.free, NEW t \in Tuples(m), NEW r, SplitTables(r, m, t)
    PROVE  Manifold(r)
<1> DEFINE U == Fan(m, t)
           w == split_new_vid(m)
<1>1. IsSplit(r, m, t, U)
  BY SplitFacts
<1> HIDE DEF U
<1>2. /\ Tables(r) /\ Fields(r)
      /\ vertices(r) \subseteq 0 .. r.cap.v - 1 /\ edges(r) \subseteq 0 .. r.cap.e - 1
      /\ faces(r) \subseteq 0 .. r.cap.f - 1
  BY SplitRange DEF SplitTables, SplitRows
<1>3. /\ vertices(r) = vertices(m) \cup {w}
      /\ edges(r) = (edges(m) \ {id_edge(m, t)}) \cup SplitEdges(m, t)
  BY DEF SplitTables, SplitRows, NewVertices
<1>4. EdgesAgree(r) /\ Mates(r) /\ Corners(r)
  BY <1>1, SplitEdgesAgree, SplitMates, SplitCorners
<1>5. /\ \A v \in vertices(r) : r.vf[v] \in faces(r) /\ \E k \in Locals : r.fv[r.vf[v]][k] = v
      /\ \A e \in edges(r) : r.ef[e] \in faces(r) /\ \E k \in Locals : r.fe[r.ef[e]][k] = e
  BY <1>1, SplitNamed
<1>6. ASSUME NEW f \in faces(r), NEW k \in Locals
      PROVE  r.fv[f][k] \in vertices(r) /\ r.fe[f][k] \in edges(r)
             /\ r.ff[f][k] \in faces(r) \cup {Null}
  <2>1. r.ff[f][k] \in faces(r) \cup {Null}
    BY <1>1, SplitAcross
  <2>2. r.fv[f][k] \in vertices(r)
    <3>1. CASE f \in faces(m) \ Gone(m, t)
      BY <1>1, <1>3, <3>1, Rows DEF IsSplit, AtKept, Manifold
    <3>2. ASSUME NEW i \in 1 .. Len(U), NEW j \in Sides, f = split_f(m, i, j)
          PROVE  r.fv[f][k] \in vertices(r)
      <4> DEFINE u == U[i]
      <4>1. /\ Locals = {u.e, pos(u, j), pos(u, 1 - j)}
            /\ r.fv[f][pos(u, j)] = spine_vid(m, t, j)
            /\ r.fv[f][pos(u, 1 - j)] = split_new_vid(m)
            /\ r.fv[f][u.e] = m.fv[u.f][u.e]
        BY <1>1, <3>2, HalfCorners
      <4>2. spine_vid(m, t, j) \in vertices(m) /\ m.fv[u.f][u.e] \in vertices(m)
        BY <1>1, SplitVertices
      <4> HIDE DEF u
      <4> QED
        BY <1>3, <4>1, <4>2
    <3> QED
      BY <1>1, <3>1, <3>2 DEF IsSplit
  <2>3. r.fe[f][k] \in edges(r)
    <3>1. CASE IsOld(r, m, t, U, f, k)
      <4>1. r.fe[f][k] \in edges(m)
        BY <1>1, <3>1, OldSides
      <4> QED
        BY <1>3, <3>1, <4>1 DEF IsOld
    <3>2. CASE IsSpine(r, m, t, U, f, k)
      <4>1. PICK i \in 1 .. Len(U), j \in Sides : r.fe[f][k] = split_spine_eid(m, j)
        BY <3>2 DEF IsSpine
      <4>2. split_spine_eid(m, j) \in Nat
        BY NewIds DEF Manifold
      <4> QED
        BY <1>3, <4>1, <4>2 DEF SplitEdges, NewEdges, U
    <3>3. CASE IsRib(r, m, t, U, f, k)
      <4>1. PICK i \in 1 .. Len(U) : r.fe[f][k] = rib_eid(m, i)
        BY <3>3 DEF IsRib
      <4>2. rib_eid(m, i) \in Nat
        <5>1. m.cap.e \in Nat /\ i \in Nat
          BY DEF Manifold, Fields
        <5> QED
          BY <5>1 DEF rib_eid
      <4> QED
        BY <1>3, <4>1, <4>2 DEF SplitEdges, NewEdges, U
    <3> QED
      BY <1>1, <3>1, <3>2, <3>3, SplitSides
  <2> QED
    BY <2>1, <2>2, <2>3
<1>7. Typed(r)
  BY <1>2, <1>5, <1>6, TypedRows
<1>8. Across(r)
  <2>1. ~r.free
    BY <1>1 DEF IsSplit
  <2>2. \A f \in faces(r), k \in Locals : r.ff[f][k] # Null =>
           /\ r.ff[f][k] # f /\ \E j \in Locals : r.fe[r.ff[f][k]][j] = r.fe[f][k]
    BY <1>1, SplitAcross
  <2> QED
    BY <2>1, <2>2 DEF Across
<1>9. Stars(r)
  <2>1. MeetStars(r)
    BY <1>1, <1>3, SplitStars
  <2> QED
    BY <1>2, <1>4, <1>7, <1>8, <2>1, StarsMeet
<1>10. Named(r)
  BY <1>5 DEF Named
<1> QED
  BY <1>2, <1>4, <1>7, <1>8, <1>9, <1>10 DEF Manifold

-----------------------------------------------------------------------------
(* Free meshes: no two local vertices are the same, and no local edges.    *)

Apart(m) ==
    /\ m.free
    /\ \A f, g \in faces(m), i, j \in Locals :
          /\ m.fv[f][i] = m.fv[g][j] => f = g /\ i = j
          /\ m.fe[f][i] = m.fe[g][j] => f = g /\ i = j
    /\ \A f \in faces(m), i \in Locals : m.ff[f][i] = Null

\* In a free manifold no two local vertices are the same, and no two local edges.
LEMMA ManifoldApart ==
    ASSUME NEW m, Manifold(m), m.free
    PROVE  Apart(m)
<1>1. \A f \in faces(m), i \in Locals : m.ff[f][i] = Null
  BY DEF Manifold, Across
<1>2. ASSUME NEW f \in faces(m), NEW g \in faces(m), NEW i \in Locals, NEW j \in Locals,
             m.fv[f][i] = m.fv[g][j]
      PROVE  f = g /\ i = j
  <2>1. m.fv[f][i] \in vertices(m) /\ {f} \in SUBSET star(m, m.fv[f][i]) /\ g \in star(m, m.fv[f][i])
    BY <1>2, Rows DEF star, Manifold
  <2>2. Closed(m, m.fv[f][i], {f})
    BY <1>1 DEF Closed
  <2>3. {f} = star(m, m.fv[f][i])
    BY <2>1, <2>2 DEF Manifold, Stars
  <2>4. f = g
    BY <2>1, <2>3
  <2> QED
    BY <1>2, <2>4 DEF Manifold, Corners
<1>3. \A f, g \in faces(m), i, j \in Locals : m.fe[f][i] = m.fe[g][j] => f = g /\ i = j
  BY DEF Manifold, Mates
<1> QED
  BY <1>1, <1>2, <1>3 DEF Apart

\* Nothing else is asked of a free mesh.
LEMMA ApartManifold ==
    ASSUME NEW m, Fields(m), Typed(m), Named(m), Apart(m)
    PROVE  Manifold(m)
<1>1. Corners(m)
  <2>1. \A f, g \in faces(m) :
          (\A i \in Locals : \E j \in Locals : m.fv[f][i] = m.fv[g][j]) => f = g
    <3>1. 0 \in Locals
      BY DEF Locals
    <3> QED
      BY <3>1 DEF Apart
  <2> QED
    BY <2>1 DEF Corners, Apart
<1>2. ASSUME NEW f \in faces(m), NEW g \in faces(m), NEW i \in Locals, NEW j \in Locals,
             ends(m, f, i) = ends(m, g, j)
      PROVE  m.fe[f][i] = m.fe[g][j]
  <2>1. PICK l \in Locals : l # i
    BY DEF Locals
  <2>2. m.fv[f][l] \in ends(m, g, j)
    BY <1>2, <2>1 DEF ends
  <2>3. f = g
    BY <2>2 DEF ends, Apart
  <2>4. i = j
    <3>1. SUFFICES ASSUME i # j PROVE FALSE
      OBVIOUS
    <3>2. m.fv[f][j] \in ends(m, f, i)
      BY <3>1 DEF ends
    <3>3. m.fv[f][j] \notin ends(m, f, j)
      BY DEF ends, Apart
    <3> QED
      BY <1>2, <2>3, <3>2, <3>3
  <2> QED
    BY <2>3, <2>4
<1>3. EdgesAgree(m)
  <2>1. \A f, g \in faces(m), i, j \in Locals :
          m.fe[f][i] = m.fe[g][j] => ends(m, f, i) = ends(m, g, j)
    BY DEF Apart
  <2> QED
    BY <1>2, <2>1 DEF EdgesAgree
<1>4. Mates(m) /\ Across(m)
  BY DEF Apart, Mates, Across
<1>5. Stars(m)
  <2> SUFFICES ASSUME NEW v, NEW S \in SUBSET star(m, v), S # {}
               PROVE  S = star(m, v)
    BY DEF Stars
  <2>1. \A f, g \in star(m, v) : f = g
    BY DEF star, Apart
  <2> QED
    BY <2>1
<1> QED
  BY <1>1, <1>3, <1>4, <1>5 DEF Manifold

\* The split of a face of a free mesh: its corners a, b and that opposite the
\* edge, e, and what each half has there.
IsFreeSplit(r, m, t, a, b, e) ==
    LET p(j) == split_f(m, 1, j)
        v == m.fv[t.f]
        x == m.fe[t.f]
    IN  /\ a \in Locals /\ b \in Locals /\ e \in Locals /\ a # b /\ a # e /\ b # e
        /\ Locals = {a, b, e} /\ t.f \in faces(m)
        /\ p(0) # p(1) /\ p(0) \notin faces(m) /\ p(1) \notin faces(m)
        /\ faces(r) = (faces(m) \ {t.f}) \cup {p(0), p(1)}
        /\ r.fv[p(0)][a] = v[a] /\ r.fv[p(0)][e] = v[e] /\ r.fv[p(0)][b] = free_split_v(m, 0)
        /\ r.fv[p(1)][b] = v[b] /\ r.fv[p(1)][e] = split_new_vid(m)
        /\ r.fv[p(1)][a] = free_split_v(m, 1)
        /\ r.fe[p(0)][b] = x[b] /\ r.fe[p(0)][e] = split_spine_eid(m, 0)
        /\ r.fe[p(0)][a] = free_split_e(m, 0)
        /\ r.fe[p(1)][a] = x[a] /\ r.fe[p(1)][e] = split_spine_eid(m, 1)
        /\ r.fe[p(1)][b] = free_split_e(m, 1)
        /\ \A f \in faces(m) \ {t.f} : r.fv[f] = m.fv[f] /\ r.fe[f] = m.fe[f]
        /\ \A f \in faces(r), k \in Locals : r.ff[f][k] = Null

\* The tables after a split in a free mesh are those of IsFreeSplit.
LEMMA FreeSplitFacts ==
    ASSUME NEW m, Manifold(m), m.free, NEW t \in Tuples(m), NEW r, SplitTables(r, m, t)
    PROVE  IsFreeSplit(r, m, t, t.v, third(t), t.e)
<1> DEFINE U == Fan(m, t)
           p(j) == split_f(m, 1, j)
<1>1. Apart(m)
  BY ManifoldApart
<1>2. /\ DOMAIN U = 1 .. Len(U) /\ Len(U) = 1 /\ U[1] = t /\ t \in Tuples(m)
  <2>1. IsFan(m, t, U)
    BY Incident
  <2> QED
    BY <2>1 DEF IsFan
<1> HIDE DEF U
<1>3. /\ t.f \in faces(m) /\ t.v \in Locals /\ t.e \in Locals /\ third(t) \in Locals
      /\ t.v # t.e /\ t.v # third(t) /\ t.e # third(t) /\ Locals = {t.v, third(t), t.e}
      /\ pos(t, 0) = t.v /\ pos(t, 1) = third(t)
  <2>1. t.v \in Locals /\ t.e \in Locals /\ t.v # t.e /\ t.f \in faces(m)
    BY DEF Tuples
  <2> QED
    BY <2>1, ThreeLocals DEF pos
<1>4. Gone(m, t) = {t.f} /\ Halves(m, t) = {p(0), p(1)}
  <2>1. 1 .. Len(U) = {1}
    BY <1>2
  <2>2. Gone(m, t) = {t.f}
    BY <1>2, <2>1 DEF Gone, U
  <2>3. p(0) \in Nat /\ p(1) \in Nat
    BY NewIds DEF Manifold, Sides
  <2> QED
    BY <2>1, <2>2, <2>3 DEF Halves, U, Sides
<1>5. faces(r) = (faces(m) \ {t.f}) \cup {p(0), p(1)}
  BY <1>4 DEF SplitTables
<1>6. p(0) # p(1) /\ p(0) \notin faces(m) /\ p(1) \notin faces(m)
  BY NewIds DEF Manifold, Sides
<1>7. \A j \in Sides : AtHalf(r, m, 1, j, t, Null)
  BY <1>2 DEF SplitTables, SplitRows, U
<1>8. \A f \in faces(m) \ {t.f} : AtKept(r, m, t, f)
  BY <1>4 DEF SplitTables, SplitRows
<1>9. /\ 0 \in Sides /\ 1 \in Sides /\ 1 - 0 = 1 /\ 1 - 1 = 0
      /\ \A j \in Sides : j = 0 \/ j = 1
  BY DEF Sides
<1>10. /\ \A k \in Locals :
            /\ r.fv[p(0)][k] = IF k = third(t) THEN free_split_v(m, 0) ELSE m.fv[t.f][k]
            /\ r.fe[p(0)][k] = IF k = t.v THEN free_split_e(m, 0)
                               ELSE IF k = t.e THEN split_spine_eid(m, 0) ELSE m.fe[t.f][k]
            /\ r.ff[p(0)][k] = IF k = t.e THEN Null ELSE m.ff[t.f][k]
  <2>1. AtHalf(r, m, 1, 0, t, Null)
    BY <1>7, <1>9
  <2> QED
    BY <1>3, <1>9, <2>1 DEF AtHalf
<1>11. /\ \A k \in Locals :
            /\ r.fv[p(1)][k] = IF k = t.v THEN free_split_v(m, 1)
                               ELSE IF k = t.e THEN split_new_vid(m) ELSE m.fv[t.f][k]
            /\ r.fe[p(1)][k] = IF k = third(t) THEN free_split_e(m, 1)
                               ELSE IF k = t.e THEN split_spine_eid(m, 1) ELSE m.fe[t.f][k]
            /\ r.ff[p(1)][k] = IF k = t.e THEN Null ELSE m.ff[t.f][k]
  <2>1. AtHalf(r, m, 1, 1, t, Null)
    BY <1>7, <1>9
  <2> QED
    BY <1>3, <1>9, <2>1 DEF AtHalf
<1>12. \A f \in faces(m) \ {t.f} : /\ r.fv[f] = m.fv[f] /\ r.fe[f] = m.fe[f]
                                   /\ \A k \in Locals : r.ff[f][k] = Null
  <2> SUFFICES ASSUME NEW f \in faces(m) \ {t.f}
               PROVE  /\ r.fv[f] = m.fv[f] /\ r.fe[f] = m.fe[f]
                      /\ \A k \in Locals : r.ff[f][k] = Null
    OBVIOUS
  <2>1. \A j \in Sides : behind(m, t, j) = Null
    BY <1>1, <1>3, <1>9 DEF behind, Apart
  <2>2. f # Null
    BY Rows DEF Manifold
  <2>3. \A i \in 1 .. Len(U), j \in Sides : f # behind(m, U[i], j)
    BY <1>2, <2>1, <2>2
  <2> QED
    BY <1>1, <1>8, <2>3 DEF AtKept, U, Apart
<1>13. \A f \in faces(r), k \in Locals : r.ff[f][k] = Null
  <2> SUFFICES ASSUME NEW f \in faces(r), NEW k \in Locals
               PROVE  r.ff[f][k] = Null
    OBVIOUS
  <2>1. m.ff[t.f][k] = Null
    BY <1>1, <1>3 DEF Apart
  <2> HIDE DEF p
  <2>2. r.ff[p(0)][k] = Null /\ r.ff[p(1)][k] = Null
    BY ONLY k \in Locals, <1>10, <1>11, <2>1
  <2>3. f = p(0) \/ f = p(1) \/ f \in faces(m) \ {t.f}
    BY ONLY f \in faces(r), <1>5
  <2>4. f \in faces(m) \ {t.f} => r.ff[f][k] = Null
    BY ONLY k \in Locals, <1>12
  <2> QED
    BY ONLY <2>2, <2>3, <2>4
<1> HIDE DEF p
<1> QED
  BY <1>3, <1>5, <1>6, <1>10, <1>11, <1>12, <1>13 DEF IsFreeSplit, p

\* A local vertex of the new mesh is an old one, in one face, or new.
LEMMA FreeSplitApart ==
    ASSUME NEW m, Manifold(m), m.free, NEW t \in Tuples(m), NEW r, SplitTables(r, m, t),
           NEW a, NEW b, NEW e, IsFreeSplit(r, m, t, a, b, e)
    PROVE  Apart(r)
<1> DEFINE p(j) == split_f(m, 1, j)
<1>1. Apart(m)
  BY ManifoldApart
<1>2. r.free
  BY DEF SplitTables, SplitRows
<1>3. \A f \in faces(m), k \in Locals : m.fv[f][k] \in vertices(m) /\ m.fe[f][k] \in edges(m)
  BY Rows DEF Manifold
<1>4. /\ free_split_v(m, 0) \notin vertices(m) /\ free_split_v(m, 1) \notin vertices(m)
      /\ split_new_vid(m) \notin vertices(m) /\ free_split_v(m, 0) # free_split_v(m, 1)
      /\ free_split_v(m, 0) # split_new_vid(m) /\ free_split_v(m, 1) # split_new_vid(m)
  BY NewIds DEF Manifold, Sides
<1>5. /\ free_split_e(m, 0) \notin edges(m) /\ free_split_e(m, 1) \notin edges(m)
      /\ split_spine_eid(m, 0) \notin edges(m) /\ split_spine_eid(m, 1) \notin edges(m)
      /\ free_split_e(m, 0) # free_split_e(m, 1) /\ split_spine_eid(m, 0) # split_spine_eid(m, 1)
      /\ free_split_e(m, 0) # split_spine_eid(m, 0) /\ free_split_e(m, 0) # split_spine_eid(m, 1)
      /\ free_split_e(m, 1) # split_spine_eid(m, 0) /\ free_split_e(m, 1) # split_spine_eid(m, 1)
  BY NewIds DEF Manifold, Sides
<1>6. /\ a \in Locals /\ b \in Locals /\ e \in Locals /\ a # b /\ a # e /\ b # e
      /\ Locals = {a, b, e} /\ t.f \in faces(m)
      /\ faces(r) = (faces(m) \ {t.f}) \cup {p(0), p(1)}
      /\ p(0) # p(1)
  BY DEF IsFreeSplit
<1>7. /\ r.fv[p(0)][a] = m.fv[t.f][a] /\ r.fv[p(0)][e] = m.fv[t.f][e]
      /\ r.fv[p(0)][b] = free_split_v(m, 0)
      /\ r.fv[p(1)][b] = m.fv[t.f][b] /\ r.fv[p(1)][e] = split_new_vid(m)
      /\ r.fv[p(1)][a] = free_split_v(m, 1)
      /\ \A f \in faces(m) \ {t.f} : r.fv[f] = m.fv[f]
  BY DEF IsFreeSplit
<1>8. /\ r.fe[p(0)][b] = m.fe[t.f][b] /\ r.fe[p(0)][e] = split_spine_eid(m, 0)
      /\ r.fe[p(0)][a] = free_split_e(m, 0)
      /\ r.fe[p(1)][a] = m.fe[t.f][a] /\ r.fe[p(1)][e] = split_spine_eid(m, 1)
      /\ r.fe[p(1)][b] = free_split_e(m, 1)
      /\ \A f \in faces(m) \ {t.f} : r.fe[f] = m.fe[f]
  BY DEF IsFreeSplit
<1>9. /\ \A f, g \in faces(m), i, j \in Locals : m.fv[f][i] = m.fv[g][j] => f = g /\ i = j
      /\ \A f, g \in faces(m), i, j \in Locals : m.fe[f][i] = m.fe[g][j] => f = g /\ i = j
  BY <1>1 DEF Apart
<1> HIDE DEF p
\* Each value has one place.
<1>10. /\ \A f \in faces(r), i \in Locals :
            r.fv[f][i] \in vertices(m) =>
               \E g \in faces(m) : /\ r.fv[f][i] = m.fv[g][i]
                                   /\ f = IF g # t.f THEN g ELSE IF i = b THEN p(1) ELSE p(0)
       /\ \A f \in faces(r), i \in Locals :
            r.fv[f][i] \notin vertices(m) =>
               \/ f = p(0) /\ i = b /\ r.fv[f][i] = free_split_v(m, 0)
               \/ f = p(1) /\ i = e /\ r.fv[f][i] = split_new_vid(m)
               \/ f = p(1) /\ i = a /\ r.fv[f][i] = free_split_v(m, 1)
  <2>1. ASSUME NEW f \in faces(r), NEW i \in Locals
        PROVE  /\ r.fv[f][i] \in vertices(m) =>
                     \E g \in faces(m) : /\ r.fv[f][i] = m.fv[g][i]
                                         /\ f = IF g # t.f THEN g ELSE IF i = b THEN p(1) ELSE p(0)
               /\ r.fv[f][i] \notin vertices(m) =>
                     \/ f = p(0) /\ i = b /\ r.fv[f][i] = free_split_v(m, 0)
                     \/ f = p(1) /\ i = e /\ r.fv[f][i] = split_new_vid(m)
                     \/ f = p(1) /\ i = a /\ r.fv[f][i] = free_split_v(m, 1)
    <3>1. CASE f \in faces(m) \ {t.f}
      BY <1>3, <1>7, <3>1
    <3>2. CASE f = p(0)
      BY <1>3, <1>4, <1>6, <1>7, <3>2
    <3>3. CASE f = p(1)
      BY <1>3, <1>4, <1>6, <1>7, <3>3
    <3> QED
      BY <1>6, <3>1, <3>2, <3>3
  <2> QED
    BY <2>1
<1>11. ASSUME NEW f \in faces(r), NEW g \in faces(r), NEW i \in Locals, NEW j \in Locals,
              r.fv[f][i] = r.fv[g][j]
       PROVE  f = g /\ i = j
  <2>1. CASE r.fv[f][i] \in vertices(m)
    <3>1. PICK x \in faces(m) : /\ r.fv[f][i] = m.fv[x][i]
                                /\ f = IF x # t.f THEN x ELSE IF i = b THEN p(1) ELSE p(0)
      BY <1>10, <2>1
    <3>2. PICK y \in faces(m) : /\ r.fv[g][j] = m.fv[y][j]
                                /\ g = IF y # t.f THEN y ELSE IF j = b THEN p(1) ELSE p(0)
      BY <1>10, <1>11, <2>1
    <3>0. m.fv[x][i] = m.fv[y][j]
      BY <1>11, <3>1, <3>2
    <3>3. x = y /\ i = j
      BY <1>9, <3>0
    <3> QED
      BY <3>1, <3>2, <3>3
  <2>2. CASE r.fv[f][i] \notin vertices(m)
    BY <1>4, <1>10, <1>11, <2>2
  <2> QED
    BY <2>1, <2>2
<1>12. ASSUME NEW f \in faces(r), NEW i \in Locals
       PROVE  /\ r.fe[f][i] \in edges(m) =>
                    \E g \in faces(m) : /\ r.fe[f][i] = m.fe[g][i]
                                        /\ f = IF g # t.f THEN g ELSE IF i = a THEN p(1) ELSE p(0)
              /\ r.fe[f][i] \notin edges(m) =>
                    \/ f = p(0) /\ i = e /\ r.fe[f][i] = split_spine_eid(m, 0)
                    \/ f = p(0) /\ i = a /\ r.fe[f][i] = free_split_e(m, 0)
                    \/ f = p(1) /\ i = e /\ r.fe[f][i] = split_spine_eid(m, 1)
                    \/ f = p(1) /\ i = b /\ r.fe[f][i] = free_split_e(m, 1)
  <2>1. CASE f \in faces(m) \ {t.f}
    BY <1>3, <1>8, <2>1
  <2>2. CASE f = p(0)
    BY <1>3, <1>5, <1>6, <1>8, <2>2
  <2>3. CASE f = p(1)
    BY <1>3, <1>5, <1>6, <1>8, <2>3
  <2> QED
    BY <1>6, <2>1, <2>2, <2>3
<1>13. ASSUME NEW f \in faces(r), NEW g \in faces(r), NEW i \in Locals, NEW j \in Locals,
              r.fe[f][i] = r.fe[g][j]
       PROVE  f = g /\ i = j
  <2>1. CASE r.fe[f][i] \in edges(m)
    <3>1. PICK x \in faces(m) : /\ r.fe[f][i] = m.fe[x][i]
                                /\ f = IF x # t.f THEN x ELSE IF i = a THEN p(1) ELSE p(0)
      BY <1>12, <2>1
    <3>2. PICK y \in faces(m) : /\ r.fe[g][j] = m.fe[y][j]
                                /\ g = IF y # t.f THEN y ELSE IF j = a THEN p(1) ELSE p(0)
      BY <1>12, <1>13, <2>1
    <3>0. m.fe[x][i] = m.fe[y][j]
      BY <1>13, <3>1, <3>2
    <3>3. x = y /\ i = j
      BY <1>9, <3>0
    <3> QED
      BY <3>1, <3>2, <3>3
  <2>2. CASE r.fe[f][i] \notin edges(m)
    BY <1>5, <1>12, <1>13, <2>2
  <2> QED
    BY <2>1, <2>2
<1>14. \A f \in faces(r), k \in Locals : r.ff[f][k] = Null
  BY DEF IsFreeSplit
<1> QED
  BY <1>2, <1>11, <1>13, <1>14 DEF Apart

\* Then each vertex and each edge names the face that has it.
LEMMA FreeSplitNamed ==
    ASSUME NEW m, Manifold(m), m.free, NEW t \in Tuples(m), NEW r, SplitTables(r, m, t),
           IsFreeSplit(r, m, t, t.v, third(t), t.e)
    PROVE  /\ vertices(r) = vertices(m) \cup
                  {split_new_vid(m), free_split_v(m, 0), free_split_v(m, 1)}
           /\ edges(r) = (edges(m) \ {id_edge(m, t)}) \cup
                  {split_spine_eid(m, 0), split_spine_eid(m, 1),
                   free_split_e(m, 0), free_split_e(m, 1)}
           /\ \A v \in vertices(r) :
                 r.vf[v] \in faces(r) /\ \E k \in Locals : r.fv[r.vf[v]][k] = v
           /\ \A e \in edges(r) :
                 r.ef[e] \in faces(r) /\ \E k \in Locals : r.fe[r.ef[e]][k] = e
<1> DEFINE U == Fan(m, t)
           p(j) == split_f(m, 1, j)
           a == t.v
           b == third(t)
           e == t.e
<1>1. /\ DOMAIN U = 1 .. Len(U) /\ Len(U) = 1 /\ U[1] = t
  <2>1. IsFan(m, t, U)
    BY Incident
  <2> QED
    BY <2>1 DEF IsFan
<1>2. 1 .. Len(U) = {1}
  BY <1>1
<1>3. /\ a \in Locals /\ b \in Locals /\ e \in Locals /\ Locals = {a, b, e} /\ t.f \in faces(m)
      /\ faces(r) = (faces(m) \ {t.f}) \cup {p(0), p(1)}
      /\ \A f \in faces(m) \ {t.f} : r.fv[f] = m.fv[f] /\ r.fe[f] = m.fe[f]
  BY DEF IsFreeSplit
<1>4. /\ r.fv[p(0)][a] = m.fv[t.f][a] /\ r.fv[p(0)][e] = m.fv[t.f][e]
      /\ r.fv[p(0)][b] = free_split_v(m, 0)
      /\ r.fv[p(1)][b] = m.fv[t.f][b] /\ r.fv[p(1)][e] = split_new_vid(m)
      /\ r.fv[p(1)][a] = free_split_v(m, 1)
  BY DEF IsFreeSplit
<1>5. /\ r.fe[p(0)][b] = m.fe[t.f][b] /\ r.fe[p(0)][e] = split_spine_eid(m, 0)
      /\ r.fe[p(0)][a] = free_split_e(m, 0)
      /\ r.fe[p(1)][a] = m.fe[t.f][a] /\ r.fe[p(1)][e] = split_spine_eid(m, 1)
      /\ r.fe[p(1)][b] = free_split_e(m, 1)
  BY DEF IsFreeSplit
<1>6. /\ 0 \in Sides /\ 1 \in Sides /\ Sides = {0, 1} /\ 1 - 0 = 1 /\ 1 - 1 = 0
      /\ pos(t, 0) = a /\ pos(t, 1) = b
  BY DEF Sides, pos
<1>7. /\ spine_vid(m, t, 0) = m.fv[t.f][a] /\ spine_vid(m, t, 1) = m.fv[t.f][b]
      /\ ear(m, t, 0) = m.fe[t.f][b] /\ ear(m, t, 1) = m.fe[t.f][a]
      /\ id_edge(m, t) = m.fe[t.f][e]
  BY <1>6, SpineEnds DEF ear, id_edge
<1>8. /\ \A j \in Sides :
            /\ r.ef[split_spine_eid(m, j)] = p(j) /\ r.vf[spine_vid(m, t, j)] = p(j)
            /\ r.ef[free_split_e(m, j)] = p(j) /\ r.vf[free_split_v(m, j)] = p(j)
            /\ r.ef[ear(m, t, j)] = p(j)
      /\ r.vf[m.fv[t.f][t.e]] = p(0) /\ r.vf[split_new_vid(m)] = p(1)
      /\ \A x \in edges(m) \ {id_edge(m, t)} :
            (\A j \in Sides : x # ear(m, t, j)) => r.ef[x] = m.ef[x]
      /\ \A x \in vertices(m) :
            (\A j \in Sides : x # spine_vid(m, t, j)) /\ x # m.fv[t.f][t.e]
                => r.vf[x] = m.vf[x]
  <2>1. SplitNames(r, m, t)
    BY DEF SplitTables, SplitRows
  <2> DEFINE W == Fan(m, t)
             I == 1 .. Len(W)
             N(i, j) == split_f(m, i, j)
             opp(i) == m.fv[W[i].f][W[i].e]
  <2>2. /\ \A j \in Sides : /\ \E i \in I : r.ef[split_spine_eid(m, j)] = N(i, j)
                            /\ \E i \in I : r.vf[spine_vid(m, t, j)] = N(i, j)
                            /\ m.free => r.ef[free_split_e(m, j)] = N(1, j)
                            /\ m.free => r.vf[free_split_v(m, j)] = N(1, j)
        /\ \A i \in I : /\ \A j \in Sides : r.ef[ear(m, W[i], j)] = N(i, j)
                        /\ r.vf[opp(i)] = N(i, 0)
        /\ m.free => r.vf[split_new_vid(m)] = N(1, 1)
        /\ \A x \in edges(m) \ {id_edge(m, t)} :
              (\A i \in I, j \in Sides : x # ear(m, W[i], j)) => r.ef[x] = m.ef[x]
        /\ \A x \in vertices(m) :
              (\A j \in Sides : x # spine_vid(m, t, j)) /\ (\A i \in I : x # opp(i))
                  => r.vf[x] = m.vf[x]
    BY ONLY <2>1 DEF SplitNames
  <2>3. I = {1} /\ W[1] = t
    BY <1>1, <1>2
  <2> HIDE DEF a, b, e, U, W, I, N
  <2>4. opp(1) = m.fv[t.f][t.e]
    BY <2>3
  <2> HIDE DEF opp
  <2>5. \A j \in Sides : p(j) = N(1, j)
    BY DEF N
  <2> HIDE DEF p
  <2>6. 1 \in I /\ \A i \in I : i = 1
    BY <2>3
  <2> QED
    BY <2>2, <2>3, <2>4, <2>5, <2>6, <1>6
<1>9. /\ vertices(r) = vertices(m) \cup {split_new_vid(m), free_split_v(m, 0), free_split_v(m, 1)}
      /\ edges(r) = (edges(m) \ {id_edge(m, t)}) \cup
            {split_spine_eid(m, 0), split_spine_eid(m, 1), free_split_e(m, 0), free_split_e(m, 1)}
  <2>1. SplitEdges(m, t) = {split_spine_eid(m, 0), split_spine_eid(m, 1),
                            free_split_e(m, 0), free_split_e(m, 1)}
    <3>1. \A j \in Sides : split_spine_eid(m, j) \in Nat /\ free_split_e(m, j) \in Nat
      BY NewIds DEF Manifold
    <3>2. NewEdges(m, 1) = {split_spine_eid(m, 0), split_spine_eid(m, 1),
                            free_split_e(m, 0), free_split_e(m, 1)}
      BY <1>6 DEF NewEdges
    <3> QED
      BY <1>2, <1>6, <3>1, <3>2 DEF SplitEdges
  <2>2. NewVertices(m) = {split_new_vid(m), free_split_v(m, 0), free_split_v(m, 1)}
    BY <1>6 DEF NewVertices
  <2> QED
    BY <2>1, <2>2 DEF SplitTables, SplitRows
<1> HIDE DEF a, b, e, p, U
<1>10. ASSUME NEW x \in vertices(r)
       PROVE  r.vf[x] \in faces(r) /\ \E k \in Locals : r.fv[r.vf[x]][k] = x
  <2>1. CASE x = split_new_vid(m) \/ x = free_split_v(m, 0) \/ x = free_split_v(m, 1)
    BY <1>3, <1>4, <1>6, <1>8, <2>1
  <2>2. CASE x = m.fv[t.f][a] \/ x = m.fv[t.f][b]
    BY <1>3, <1>4, <1>6, <1>7, <1>8, <2>2
  <2>3. CASE x = m.fv[t.f][e]
    BY <1>3, <1>4, <1>8, <2>3 DEF e
  <2>4. CASE x \in vertices(m) /\ \A k \in Locals : x # m.fv[t.f][k]
    <3>1. m.vf[x] \in faces(m) /\ \E k \in Locals : m.fv[m.vf[x]][k] = x
      BY <2>4, Rows DEF Manifold, Named
    <3>2. r.vf[x] = m.vf[x]
      BY <1>3, <1>6, <1>7, <1>8, <2>4 DEF e
    <3> QED
      BY <1>3, <2>4, <3>1, <3>2
  <2> QED
    BY <1>3, <1>9, <2>1, <2>2, <2>3, <2>4
<1>11. ASSUME NEW x \in edges(r)
       PROVE  r.ef[x] \in faces(r) /\ \E k \in Locals : r.fe[r.ef[x]][k] = x
  <2>1. CASE x = split_spine_eid(m, 0) \/ x = split_spine_eid(m, 1)
    BY <1>3, <1>5, <1>6, <1>8, <2>1
  <2>2. CASE x = free_split_e(m, 0) \/ x = free_split_e(m, 1)
    BY <1>3, <1>5, <1>6, <1>8, <2>2
  <2>3. CASE x = m.fe[t.f][a] \/ x = m.fe[t.f][b]
    BY <1>3, <1>5, <1>6, <1>7, <1>8, <2>3
  <2>4. CASE x \in edges(m) \ {id_edge(m, t)} /\ \A k \in Locals : x # m.fe[t.f][k]
    <3>1. m.ef[x] \in faces(m) /\ \E k \in Locals : m.fe[m.ef[x]][k] = x
      BY <2>4, Rows DEF Manifold, Named
    <3>2. r.ef[x] = m.ef[x]
      BY <1>3, <1>6, <1>7, <1>8, <2>4
    <3> QED
      BY <1>3, <2>4, <3>1, <3>2
  <2> QED
    BY <1>3, <1>7, <1>9, <2>1, <2>2, <2>3, <2>4
<1> QED
  BY <1>9, <1>10, <1>11

\* Splits keep the invariant, for free meshes.
LEMMA SplitKeepsFree ==
    ASSUME NEW m, Manifold(m), m.free, NEW t \in Tuples(m), NEW r, SplitTables(r, m, t)
    PROVE  Manifold(r)
<1> DEFINE a == t.v
           b == third(t)
           e == t.e
<1>1. IsFreeSplit(r, m, t, a, b, e)
  BY FreeSplitFacts
<1>2. Apart(r)
  BY <1>1, FreeSplitApart
<1>3. /\ Fields(r) /\ Tables(r)
      /\ vertices(r) \subseteq 0 .. r.cap.v - 1 /\ edges(r) \subseteq 0 .. r.cap.e - 1
      /\ faces(r) \subseteq 0 .. r.cap.f - 1
  BY SplitRange DEF SplitTables, SplitRows
<1>4. /\ vertices(r) = vertices(m) \cup {split_new_vid(m), free_split_v(m, 0), free_split_v(m, 1)}
      /\ edges(r) = (edges(m) \ {id_edge(m, t)}) \cup
            {split_spine_eid(m, 0), split_spine_eid(m, 1), free_split_e(m, 0), free_split_e(m, 1)}
      /\ \A v \in vertices(r) : r.vf[v] \in faces(r) /\ \E k \in Locals : r.fv[r.vf[v]][k] = v
      /\ \A x \in edges(r) : r.ef[x] \in faces(r) /\ \E k \in Locals : r.fe[r.ef[x]][k] = x
  BY <1>1, FreeSplitNamed
<1>5. /\ a \in Locals /\ b \in Locals /\ e \in Locals /\ Locals = {a, b, e} /\ t.f \in faces(m)
      /\ a # e /\ b # e
      /\ faces(r) = (faces(m) \ {t.f}) \cup {split_f(m, 1, 0), split_f(m, 1, 1)}
  BY <1>1 DEF IsFreeSplit
<1>6. \A f \in faces(m), k \in Locals : m.fv[f][k] \in vertices(m) /\ m.fe[f][k] \in edges(m)
  BY Rows DEF Manifold
<1>7. \A f \in faces(m), k \in Locals : m.fe[f][k] = id_edge(m, t) => f = t.f /\ k = e
  BY <1>5, ManifoldApart DEF Apart, id_edge
<1> HIDE DEF a, b, e
<1>8. ASSUME NEW f \in faces(r), NEW k \in Locals
      PROVE  r.fv[f][k] \in vertices(r) /\ r.fe[f][k] \in edges(r)
  <2>1. CASE f \in faces(m) \ {t.f}
    <3>1. r.fv[f] = m.fv[f] /\ r.fe[f] = m.fe[f]
      BY <1>1, <2>1 DEF IsFreeSplit
    <3> QED
      BY <1>4, <1>6, <1>7, <2>1, <3>1
  <2>2. CASE f = split_f(m, 1, 0)
    <3>1. /\ r.fv[f][a] = m.fv[t.f][a] /\ r.fv[f][e] = m.fv[t.f][e]
          /\ r.fv[f][b] = free_split_v(m, 0)
          /\ r.fe[f][b] = m.fe[t.f][b] /\ r.fe[f][e] = split_spine_eid(m, 0)
          /\ r.fe[f][a] = free_split_e(m, 0)
      BY <1>1, <2>2 DEF IsFreeSplit
    <3> QED
      BY <1>4, <1>5, <1>6, <1>7, <3>1
  <2>3. CASE f = split_f(m, 1, 1)
    <3>1. /\ r.fv[f][b] = m.fv[t.f][b] /\ r.fv[f][e] = split_new_vid(m)
          /\ r.fv[f][a] = free_split_v(m, 1)
          /\ r.fe[f][a] = m.fe[t.f][a] /\ r.fe[f][e] = split_spine_eid(m, 1)
          /\ r.fe[f][b] = free_split_e(m, 1)
      BY <1>1, <2>3 DEF IsFreeSplit
    <3> QED
      BY <1>4, <1>5, <1>6, <1>7, <3>1
  <2> QED
    BY <1>5, <2>1, <2>2, <2>3
<1>9. \A f \in faces(r), k \in Locals : r.ff[f][k] = Null
  BY <1>2 DEF Apart
<1>10. Typed(r)
  BY <1>3, <1>4, <1>8, <1>9, TypedRows
<1>11. Named(r)
  BY <1>4 DEF Named
<1> QED
  BY <1>2, <1>3, <1>10, <1>11, ApartManifold

\* A split leaves a manifold.
LEMMA SplitKeepsManifold ==
    ASSUME NEW m, Manifold(m), NEW t \in Tuples(m)
    PROVE  /\ Manifold(split_edge(m, t)) /\ split_edge(m, t).free = m.free
           /\ split_edge(m, t).cap.v = m.cap.v + (IF m.free THEN 3 ELSE 1)
<1> DEFINE r == split_edge(m, t)
<1>1. SplitTables(r, m, t)
  BY SplitEdgeIs
<1> HIDE DEF r
<1>2. Manifold(r)
  BY <1>1, SplitKeepsSurface, SplitKeepsFree
<1> QED
  BY <1>1, <1>2, SplitRange DEF r

\* A collapse in a free mesh leaves the other faces.
LEMMA CollapseKeepsFree ==
    ASSUME NEW m, Manifold(m), m.free, NEW t \in Tuples(m)
    PROVE  /\ Manifold(collapse_free(m, t)) /\ collapse_free(m, t).free = m.free
           /\ collapse_free(m, t).cap = m.cap
<1> DEFINE V == {m.fv[t.f][k] : k \in Locals}
           E == {m.fe[t.f][k] : k \in Locals}
           r == collapse_free(m, t)
<1>1. Apart(m) /\ Tables(m) /\ t.f \in faces(m)
  BY ManifoldApart, ManifoldTables DEF Manifold, Tuples
<1>2. Removed(r, m, V, E, {t.f})
  BY <1>1, RemoveSimplices DEF collapse_free
<1> HIDE DEF V, E, r
<1>3. /\ Tables(r) /\ r.free = m.free /\ r.cap = m.cap
      /\ vertices(r) = vertices(m) \ V /\ faces(r) = faces(m) \ {t.f} /\ edges(r) = edges(m) \ E
      /\ \A f \in faces(r) : r.fv[f] = m.fv[f] /\ r.fe[f] = m.fe[f] /\ r.ff[f] = m.ff[f]
      /\ \A e \in edges(r) : r.ef[e] = m.ef[e]
      /\ \A v \in vertices(r) : r.vf[v] = m.vf[v]
  BY <1>2 DEF Removed
<1>4. Apart(r)
  BY <1>1, <1>3 DEF Apart
<1>5. Fields(r)
  BY <1>3 DEF Tables, Fields, Manifold
<1>6. /\ vertices(r) \subseteq 0 .. r.cap.v - 1 /\ edges(r) \subseteq 0 .. r.cap.e - 1
      /\ faces(r) \subseteq 0 .. r.cap.f - 1
  BY <1>3 DEF Manifold, Typed
<1>7. \A f \in faces(r), k \in Locals :
         r.fv[f][k] \in vertices(r) /\ r.fe[f][k] \in edges(r) /\ r.ff[f][k] \in faces(r) \cup {Null}
  <2> SUFFICES ASSUME NEW f \in faces(r), NEW k \in Locals
               PROVE  r.fv[f][k] \in vertices(r) /\ r.fe[f][k] \in edges(r)
                      /\ r.ff[f][k] \in faces(r) \cup {Null}
    OBVIOUS
  <2>1. /\ f \in faces(m) /\ f # t.f /\ m.fv[f][k] \in vertices(m) /\ m.fe[f][k] \in edges(m)
        /\ r.ff[f][k] = Null
    BY <1>3, <1>4, Rows DEF Manifold, Apart
  <2>2. m.fv[f][k] \notin V /\ m.fe[f][k] \notin E
    BY <1>1, <2>1 DEF Apart, V, E
  <2> QED
    BY <1>3, <2>1, <2>2
<1>8. /\ \A v \in vertices(r) : r.vf[v] \in faces(r) /\ \E k \in Locals : r.fv[r.vf[v]][k] = v
      /\ \A x \in edges(r) : r.ef[x] \in faces(r) /\ \E k \in Locals : r.fe[r.ef[x]][k] = x
  <2>1. \A v \in vertices(m) : m.vf[v] \in faces(m) /\ \E k \in Locals : m.fv[m.vf[v]][k] = v
    BY Rows DEF Manifold, Named
  <2>2. \A e \in edges(m) : m.ef[e] \in faces(m) /\ \E k \in Locals : m.fe[m.ef[e]][k] = e
    BY Rows DEF Manifold, Named
  <2>3. \A v \in vertices(m) : v \notin V => m.vf[v] # t.f
    BY <2>1 DEF V
  <2>4. \A e \in edges(m) : e \notin E => m.ef[e] # t.f
    BY <2>2 DEF E
  <2> QED
    BY <1>3, <2>1, <2>2, <2>3, <2>4
<1>9. Typed(r)
  BY <1>3, <1>6, <1>7, <1>8, TypedRows
<1>10. Named(r)
  BY <1>8 DEF Named
<1> QED
  BY <1>3, <1>4, <1>5, <1>9, <1>10, ApartManifold DEF r

-----------------------------------------------------------------------------
(* Collapse: the faces behind the ears of the incident faces are glued.    *)

\* index reads no more than the three values of a row.
LEMMA IndexSame ==
    ASSUME NEW p, NEW q, \A i \in Locals : p[i] = q[i], NEW x
    PROVE  index(p, x) = index(q, x)
<1>1. {i \in Locals : p[i] = x} = {i \in Locals : q[i] = x}
  OBVIOUS
<1> QED
  BY <1>1 DEF index

\* The faces behind the ears of one incident face differ.
LEMMA BehindDiffer ==
    ASSUME NEW m, Manifold(m), NEW t \in Tuples(m), NEW i \in 1 .. Len(Fan(m, t)),
           behind(m, Fan(m, t)[i], 0) # Null
    PROVE  behind(m, Fan(m, t)[i], 0) # behind(m, Fan(m, t)[i], 1)
<1> DEFINE u == Fan(m, t)[i]
<1>1. /\ IsWedge(m, t, u) /\ 0 \in Sides /\ 1 \in Sides /\ 1 - 0 = 1 /\ 1 - 1 = 0
  BY Wedges DEF Sides
<1> HIDE DEF u
<1>2. /\ u.f \in faces(m) /\ pos(u, 0) \in Locals /\ pos(u, 1) \in Locals
      /\ pos(u, 0) # pos(u, 1)
  BY <1>1 DEF IsWedge
<1>3. m.ff[u.f][pos(u, 1)] # Null => m.ff[u.f][pos(u, 1)] # m.ff[u.f][pos(u, 0)]
  BY <1>2, MateOf
<1> QED
  BY <1>1, <1>3 DEF behind, u

\* The incident face u is still as it was in m.
Ready(n, m, u) ==
    /\ Tables(n) /\ faces(n) = faces(m) /\ vertices(n) = vertices(m) /\ edges(n) = edges(m)
    /\ \A j \in Sides : behind(m, u, j) # Null =>
          index(n.ff[behind(m, u, j)], u.f) = glue(m, u, j)
merged(m, u) == IF behind(m, u, 0) = Null THEN behind(m, u, 1) ELSE behind(m, u, 0)
\* r is n where what is behind the ears of u is glued, across the ear of end 1.
Glues(r, n, m, u) ==
    LET at(f, l, j) == f = behind(m, u, j) /\ l = glue(m, u, j)
    IN  \A f \in faces(n), l \in Locals :
          /\ r.ff[f][l] = IF at(f, l, 0) THEN behind(m, u, 1)
                          ELSE IF at(f, l, 1) THEN behind(m, u, 0) ELSE n.ff[f][l]
          /\ r.fe[f][l] = IF at(f, l, 0) \/ at(f, l, 1) THEN ear(m, u, 1) ELSE n.fe[f][l]
Connected(r, n, m, t, u) ==
    /\ Tables(r) /\ r.free = n.free /\ r.cap = n.cap /\ r.fv = n.fv
    /\ faces(r) = faces(n) /\ vertices(r) = vertices(n) /\ edges(r) = edges(n)
    /\ Glues(r, n, m, u)
    /\ r.ef[ear(m, u, 1)] = IF behind(m, u, 1) = Null THEN behind(m, u, 0) ELSE behind(m, u, 1)
    /\ \A e \in edges(n) : e # ear(m, u, 1) => r.ef[e] = n.ef[e]
    /\ r.vf[m.fv[u.f][u.e]] = merged(m, u) /\ r.vf[spine_vid(m, t, 1)] = merged(m, u)
    /\ \A v \in vertices(n) :
          v # m.fv[u.f][u.e] /\ v # spine_vid(m, t, 1) => r.vf[v] = n.vf[v]

\* The writes to the tables of vertices and of edges.
Renamed(r, n, o, b, e, q) ==
    /\ Tables(r) /\ r.free = n.free /\ r.cap = n.cap /\ r.fv = n.fv /\ r.fe = n.fe
    /\ r.ff = n.ff /\ faces(r) = faces(n) /\ vertices(r) = vertices(n) /\ edges(r) = edges(n)
    /\ \A v \in vertices(n) : r.vf[v] = IF v = o \/ v = b THEN q ELSE n.vf[v]
    /\ \A x \in edges(n) : r.ef[x] = IF x = e THEN q ELSE n.ef[x]
\* The writes of connect_ears to the tables of vertices and edges are those of Renamed.
LEMMA RenameWrites ==
    ASSUME NEW n, Tables(n), NEW o \in vertices(n), NEW b \in vertices(n), NEW e \in edges(n),
           NEW q \in Int
    PROVE  Renamed([n EXCEPT !.vf[o] = q, !.vf[b] = q, !.ef[e] = q], n, o, b, e, q)
<1> DEFINE r == [n EXCEPT !.vf[o] = q, !.vf[b] = q, !.ef[e] = q]
           vf == [[n.vf EXCEPT ![o] = q] EXCEPT ![b] = q]
           ef == [n.ef EXCEPT ![e] = q]
<1>1. n = [x \in Attributes |-> n[x]]
  BY DEF Tables, Plain
<1>2. r = [n EXCEPT !.vf = vf, !.ef = ef]
  BY <1>1 DEF Attributes
<1>3. /\ n.vf \in [vertices(n) -> Int] /\ n.ef \in [edges(n) -> Int]
  BY DEF Tables
<1>4. /\ vf \in [vertices(n) -> Int] /\ ef \in [edges(n) -> Int]
      /\ \A v \in vertices(n) : vf[v] = IF v = o \/ v = b THEN q ELSE n.vf[v]
      /\ \A x \in edges(n) : ef[x] = IF x = e THEN q ELSE n.ef[x]
  BY <1>3
<1> HIDE DEF r, vf, ef
<1>5. /\ Plain(r) /\ r.free = n.free /\ r.cap = n.cap /\ r.fv = n.fv /\ r.fe = n.fe
      /\ r.ff = n.ff /\ r.vf = vf /\ r.ef = ef
  BY <1>1, <1>2 DEF Attributes, Plain
<1>6. faces(r) = faces(n) /\ vertices(r) = vertices(n) /\ edges(r) = edges(n)
  BY <1>4, <1>5 DEF faces, vertices, edges
<1>7. Tables(r)
  BY <1>4, <1>5, <1>6 DEF Tables
<1>8. Renamed(r, n, o, b, e, q)
  BY <1>4, <1>5, <1>6, <1>7 DEF Renamed
<1> QED
  BY <1>8 DEF r

\* One ear update, in the terms of the tables.
EarUpdated(r, n, g, l, new, e) ==
    /\ Tables(r) /\ r.free = n.free /\ r.cap = n.cap /\ r.fv = n.fv /\ r.vf = n.vf
    /\ faces(r) = faces(n) /\ edges(r) = edges(n) /\ vertices(r) = vertices(n)
    /\ \A f \in faces(n), k \in Locals :
          /\ r.ff[f][k] = IF f = g /\ k = l THEN new ELSE n.ff[f][k]
          /\ r.fe[f][k] = IF f = g /\ k = l THEN e ELSE n.fe[f][k]
    /\ \A x \in edges(n) : r.ef[x] = IF x = e /\ g # Null THEN g ELSE n.ef[x]
\* update_ids_in_ear behind one ear, with Null where there is no face.
LEMMA EarUpdate ==
    ASSUME NEW n, Tables(n), NEW g \in faces(n) \cup {Null}, NEW e, e \in edges(n), e \in Int,
           NEW new, new \in Int, NEW old, NEW l,
           g # Null => l \in Locals /\ index(n.ff[g], old) = l
    PROVE  EarUpdated(update_ids_in_ear(n, [f |-> g, e |-> e], new, old), n, g, l, new, e)
<1> DEFINE x == [f |-> g, e |-> e]
           r == update_ids_in_ear(n, x, new, old)
           k == IF g = Null THEN 0 ELSE l
<1>1. x.f = g /\ x.e = e
  OBVIOUS
<1> HIDE DEF x
<1>2. k \in Locals /\ (x.f # Null => index(n.ff[x.f], old) = k) /\ (g # Null => k = l)
  BY <1>1 DEF Locals
<1> HIDE DEF k
<1>3. /\ Tables(r) /\ r.free = n.free /\ r.cap = n.cap /\ r.fv = n.fv /\ r.vf = n.vf
      /\ DOMAIN r.ef = edges(n)
      /\ \A f \in faces(n), y \in Locals :
            /\ r.ff[f][y] = IF f = x.f /\ y = k THEN new ELSE n.ff[f][y]
            /\ r.fe[f][y] = IF f = x.f /\ y = k THEN x.e ELSE n.fe[f][y]
      /\ \A y \in edges(n) : r.ef[y] = IF y = x.e /\ x.f # Null THEN x.f ELSE n.ef[y]
  BY <1>1, <1>2, UpdateEar
<1> HIDE DEF r
<1>4. Null \notin faces(n)
  BY DEF Tables, Null
<1>5. \A f \in faces(n), y \in Locals :
         /\ r.ff[f][y] = IF f = g /\ y = l THEN new ELSE n.ff[f][y]
         /\ r.fe[f][y] = IF f = g /\ y = l THEN e ELSE n.fe[f][y]
  BY <1>1, <1>2, <1>3, <1>4
<1>6. faces(r) = faces(n) /\ edges(r) = edges(n) /\ vertices(r) = vertices(n)
  BY <1>3 DEF faces, edges, vertices
<1>7. EarUpdated(r, n, g, l, new, e)
  BY <1>1, <1>3, <1>5, <1>6 DEF EarUpdated
<1> QED
  BY <1>7 DEF r, x

\* connect_ear glues what is behind the ears of an incident face.
LEMMA ConnectEar ==
    ASSUME NEW m, Manifold(m), NEW t \in Tuples(m), NEW i \in 1 .. Len(Fan(m, t)),
           NEW u, u = Fan(m, t)[i], NEW n, Ready(n, m, u)
    PROVE  Connected(connect_ear(m, n, t, get_incident_face_data(m, u)), n, m, t, u)
<1> DEFINE d == get_incident_face_data(m, u)
           b0 == behind(m, u, 0)
           b1 == behind(m, u, 1)
           g0 == glue(m, u, 0)
           g1 == glue(m, u, 1)
           e1 == ear(m, u, 1)
           q  == merged(m, u)
           o  == m.fv[u.f][u.e]
           b  == spine_vid(m, t, 1)
<1>1. /\ IsWedge(m, t, u) /\ u \in Tuples(m) /\ 0 \in Sides /\ 1 \in Sides /\ 1 - 0 = 1 /\ 1 - 1 = 0
  BY Wedges DEF Sides, IsWedge
<1>2. IsEar(m, t, u, 0) /\ IsEar(m, t, u, 1)
  BY <1>1 DEF IsWedge
<1>3. /\ b0 \in faces(m) \cup {Null} /\ b1 \in faces(m) \cup {Null} /\ e1 \in edges(m)
      /\ b0 # Null => g0 \in Locals
      /\ b1 # Null => g1 \in Locals
  BY <1>2 DEF IsEar
<1>4. faces(m) \subseteq Nat /\ edges(m) \subseteq Nat /\ Null \notin faces(m)
  BY Rows DEF Manifold
<1>5. o \in vertices(m) /\ b \in vertices(m)
  BY <1>1, Rows, SpineEnds DEF IsWedge, Manifold, Tuples
<1>6. b0 # Null => b0 # b1
  BY BehindDiffer
<1>7. /\ d.f = u.f /\ d.opp = o /\ d.ears[0] = [f |-> b0, e |-> ear(m, u, 0)]
      /\ d.ears[1] = [f |-> b1, e |-> e1]
  BY <1>1, FaceData DEF Ear, behind, ear
<1>8. merged_edge_fid(d) = q
  BY <1>3, <1>4, <1>7 DEF merged_edge_fid, merged, Null
<1>9. /\ Tables(n) /\ faces(n) = faces(m) /\ vertices(n) = vertices(m) /\ edges(n) = edges(m)
      /\ b0 # Null => index(n.ff[b0], u.f) = g0
      /\ b1 # Null => index(n.ff[b1], u.f) = g1
  BY <1>1 DEF Ready
<1> DEFINE at == [n EXCEPT !.vf[o] = q, !.vf[b] = q, !.ef[e1] = q]
           x == update_ids_in_ear(at, [f |-> b0, e |-> e1], b1, u.f)
           r == update_ids_in_ear(x, [f |-> b1, e |-> e1], b0, u.f)
<1>10. connect_ear(m, n, t, d) = r
  <2>1. [d.ears[0] EXCEPT !.e = d.ears[1].e] = [f |-> b0, e |-> e1]
    BY <1>7
  <2>2. d.ears[1].e = e1 /\ d.ears[1].f = b1 /\ d.ears[0].f = b0
    BY <1>7
  <2>3. connect_ear(m, n, t, d) =
          update_ids_in_ear(
            update_ids_in_ear([n EXCEPT !.vf[d.opp] = merged_edge_fid(d),
                                        !.vf[spine_vid(m, t, 1)] = merged_edge_fid(d),
                                        !.ef[d.ears[1].e] = merged_edge_fid(d)],
                              [d.ears[0] EXCEPT !.e = d.ears[1].e], d.ears[1].f, d.f),
            d.ears[1], d.ears[0].f, d.f)
    BY DEF connect_ear
  <2> HIDE DEF d, b0, b1, e1, q, o
  <2> QED
    BY <1>7, <1>8, <2>1, <2>2, <2>3
<1>11. q \in Int /\ b0 \in Int /\ b1 \in Int /\ e1 \in Int
  BY <1>3, <1>4 DEF merged, Null
<1> HIDE DEF d, b0, b1, g0, g1, e1, q, o, b
<1>12. Renamed(at, n, o, b, e1, q)
  BY <1>3, <1>5, <1>9, <1>11, RenameWrites
<1> HIDE DEF at
<1>13. /\ Tables(at) /\ at.free = n.free /\ at.cap = n.cap /\ at.fv = n.fv /\ at.fe = n.fe
       /\ at.ff = n.ff /\ faces(at) = faces(m) /\ vertices(at) = vertices(m)
       /\ edges(at) = edges(m)
       /\ \A v \in vertices(m) : at.vf[v] = IF v = o \/ v = b THEN q ELSE n.vf[v]
       /\ \A y \in edges(m) : at.ef[y] = IF y = e1 THEN q ELSE n.ef[y]
  BY <1>9, <1>12 DEF Renamed
<1>14. EarUpdated(x, at, b0, g0, b1, e1)
  BY <1>3, <1>9, <1>11, <1>13, EarUpdate
<1> HIDE DEF x
<1>15. /\ Tables(x) /\ x.free = n.free /\ x.cap = n.cap /\ x.fv = n.fv /\ x.vf = at.vf
       /\ faces(x) = faces(m) /\ edges(x) = edges(m) /\ vertices(x) = vertices(m)
       /\ \A f \in faces(m), k \in Locals :
             /\ x.ff[f][k] = IF f = b0 /\ k = g0 THEN b1 ELSE n.ff[f][k]
             /\ x.fe[f][k] = IF f = b0 /\ k = g0 THEN e1 ELSE n.fe[f][k]
       /\ \A y \in edges(m) : x.ef[y] = IF y = e1 /\ b0 # Null THEN b0 ELSE at.ef[y]
  BY <1>13, <1>14 DEF EarUpdated
<1>16. b1 # Null => index(x.ff[b1], u.f) = g1
  <2>1. SUFFICES ASSUME b1 # Null PROVE index(x.ff[b1], u.f) = index(n.ff[b1], u.f)
    BY <1>9
  <2>2. \A k \in Locals : x.ff[b1][k] = n.ff[b1][k]
    BY <1>3, <1>4, <1>6, <1>15, <2>1
  <2> QED
    BY <2>2, IndexSame
<1>17. EarUpdated(r, x, b1, g1, b0, e1)
  BY <1>3, <1>11, <1>15, <1>16, EarUpdate
<1> HIDE DEF r
<1>18. /\ Tables(r) /\ r.free = n.free /\ r.cap = n.cap /\ r.fv = n.fv /\ r.vf = at.vf
       /\ faces(r) = faces(m) /\ edges(r) = edges(m) /\ vertices(r) = vertices(m)
       /\ \A f \in faces(m), k \in Locals :
             /\ r.ff[f][k] = IF f = b1 /\ k = g1 THEN b0 ELSE x.ff[f][k]
             /\ r.fe[f][k] = IF f = b1 /\ k = g1 THEN e1 ELSE x.fe[f][k]
       /\ \A y \in edges(m) : r.ef[y] = IF y = e1 /\ b1 # Null THEN b1 ELSE x.ef[y]
  BY <1>15, <1>17 DEF EarUpdated
<1>19. \A f \in faces(m), k \in Locals :
          /\ r.ff[f][k] = IF f = b0 /\ k = g0 THEN b1
                          ELSE IF f = b1 /\ k = g1 THEN b0 ELSE n.ff[f][k]
          /\ r.fe[f][k] = IF (f = b0 /\ k = g0) \/ (f = b1 /\ k = g1) THEN e1 ELSE n.fe[f][k]
  BY <1>4, <1>6, <1>15, <1>18
<1>20. r.ef[e1] = IF b1 = Null THEN b0 ELSE b1
  <2>1. q = IF b0 = Null THEN b1 ELSE b0
    BY DEF q, merged, b0, b1
  <2> QED
    BY <1>3, <1>13, <1>15, <1>18, <2>1
<1>21. /\ \A y \in edges(m) : y # e1 => r.ef[y] = n.ef[y]
       /\ r.vf[o] = q /\ r.vf[b] = q
       /\ \A v \in vertices(m) : v # o /\ v # b => r.vf[v] = n.vf[v]
  BY SMTT(20), <1>5, <1>13, <1>15, <1>18 DEF o, b
<1>22. Glues(r, n, m, u)
  BY <1>9, <1>19 DEF Glues, b0, b1, g0, g1, e1
<1>23. Connected(r, n, m, t, u)
  BY <1>9, <1>18, <1>20, <1>21, <1>22 DEF Connected, b0, b1, e1, o, b, q
<1> QED
  BY <1>10, <1>23 DEF d

\* A face that stays, where ears are merged.
AtMerged(r, m, t, f) ==
    LET U == Fan(m, t)
    IN  \A k \in Locals :
          /\ \A i \in 1 .. Len(U), j \in Sides :
                m.fe[f][k] = ear(m, U[i], j) =>
                    r.fe[f][k] = ear(m, U[i], 1) /\ r.ff[f][k] = behind(m, U[i], 1 - j)
          /\ (\A i \in 1 .. Len(U), j \in Sides : m.fe[f][k] # ear(m, U[i], j)) =>
                r.fe[f][k] = m.fe[f][k] /\ r.ff[f][k] = m.ff[f][k]
\* The faces that the tables of edges and vertices name.
CollapseNames(r, m, t) ==
    LET U == Fan(m, t)
        I == 1 .. Len(U)
        opp(i) == m.fv[U[i].f][U[i].e]
        b(i, j) == behind(m, U[i], j)
    IN  /\ \A i \in I : /\ r.ef[ear(m, U[i], 1)] = IF b(i, 1) = Null THEN b(i, 0) ELSE b(i, 1)
                        /\ r.vf[opp(i)] = merged(m, U[i])
        /\ \E i \in I : r.vf[spine_vid(m, t, 1)] = merged(m, U[i])
        /\ \A e \in edges(m) : (\A i \in I : e # ear(m, U[i], 1)) => r.ef[e] = m.ef[e]
        /\ \A v \in vertices(m) :
              v # spine_vid(m, t, 1) /\ (\A i \in I : v # opp(i)) => r.vf[v] = m.vf[v]
\* Before the vertex moves and anything is deleted.
AllConnected(r, m, t) ==
    /\ Tables(r) /\ r.free = m.free /\ r.cap = m.cap /\ r.fv = m.fv
    /\ faces(r) = faces(m) /\ vertices(r) = vertices(m) /\ edges(r) = edges(m)
    /\ \A f \in faces(m) \ Gone(m, t) : AtMerged(r, m, t, f)
    /\ CollapseNames(r, m, t)

\* The mesh is ready for connect_ears at its first incident face.
LEMMA FirstReady ==
    ASSUME NEW m, Manifold(m), NEW t \in Tuples(m), NEW i \in 1 .. Len(Fan(m, t))
    PROVE  Ready(m, m, Fan(m, t)[i])
BY ManifoldTables DEF Ready, glue, Manifold

\* All ears at a boundary edge are connected once those of its one face are.
LEMMA OneConnected ==
    ASSUME NEW m, Manifold(m), NEW t \in Tuples(m), Len(Fan(m, t)) = 1,
           NEW r, Connected(r, m, m, t, Fan(m, t)[1])
    PROVE  AllConnected(r, m, t)
<1> DEFINE U == Fan(m, t)
           u == U[1]
<1>1. 1 .. Len(U) = {1}
  OBVIOUS
<1>2. \A f \in faces(m) \ Gone(m, t), k \in Locals, j \in Sides :
         m.fe[f][k] = ear(m, u, j) <=> f = behind(m, u, j) /\ k = glue(m, u, j)
  BY <1>1, BehindEars
<1>3. \A f \in faces(m), k \in Locals :
         /\ r.ff[f][k] = IF f = behind(m, u, 0) /\ k = glue(m, u, 0) THEN behind(m, u, 1)
                         ELSE IF f = behind(m, u, 1) /\ k = glue(m, u, 1) THEN behind(m, u, 0)
                         ELSE m.ff[f][k]
         /\ r.fe[f][k] = IF (f = behind(m, u, 0) /\ k = glue(m, u, 0))
                              \/ (f = behind(m, u, 1) /\ k = glue(m, u, 1))
                         THEN ear(m, u, 1) ELSE m.fe[f][k]
  BY DEF Connected, Glues
<1>4. ear(m, u, 0) # ear(m, u, 1)
  BY <1>1, EarsDiffer DEF ear, Sides
<1>5. Sides = {0, 1} /\ 1 - 0 = 1 /\ 1 - 1 = 0
  BY DEF Sides
<1>6. ASSUME NEW f \in faces(m) \ Gone(m, t)
      PROVE  AtMerged(r, m, t, f)
  <2>1. ASSUME NEW k \in Locals
        PROVE  /\ \A j \in Sides :
                     m.fe[f][k] = ear(m, u, j) =>
                        r.fe[f][k] = ear(m, u, 1) /\ r.ff[f][k] = behind(m, u, 1 - j)
               /\ (\A j \in Sides : m.fe[f][k] # ear(m, u, j)) =>
                     r.fe[f][k] = m.fe[f][k] /\ r.ff[f][k] = m.ff[f][k]
    <3> HIDE DEF u
    <3> QED
      BY <1>2, <1>3, <1>4, <1>5
  <2> QED
    BY <1>1, <2>1 DEF AtMerged
<1>7. CollapseNames(r, m, t)
  BY <1>1 DEF Connected, CollapseNames
<1> QED
  BY <1>6, <1>7 DEF AllConnected, Connected

\* The ears of the incident faces are different edges.
LEMMA EarsApart ==
    ASSUME NEW m, Manifold(m), NEW t \in Tuples(m)
    PROVE  \A i, k \in 1 .. Len(Fan(m, t)), j, l \in Sides :
              ear(m, Fan(m, t)[i], j) = ear(m, Fan(m, t)[k], l) => i = k /\ j = l
<1> SUFFICES ASSUME NEW i \in 1 .. Len(Fan(m, t)), NEW k \in 1 .. Len(Fan(m, t)),
                    NEW j \in Sides, NEW l \in Sides,
                    ear(m, Fan(m, t)[i], j) = ear(m, Fan(m, t)[k], l)
             PROVE  i = k /\ j = l
  OBVIOUS
<1> DEFINE U == Fan(m, t)
<1>1. m.fe[U[i].f][pos(U[i], 1 - j)] = m.fe[U[k].f][pos(U[k], 1 - l)]
  BY DEF ear
<1> QED
  BY <1>1, EarsDiffer

\* After the ears of the first face the mesh is ready for those of the second.
LEMMA SecondReady ==
    ASSUME NEW m, Manifold(m), NEW t \in Tuples(m), Len(Fan(m, t)) = 2,
           NEW n, Connected(n, m, m, t, Fan(m, t)[1])
    PROVE  Ready(n, m, Fan(m, t)[2])
<1> DEFINE U == Fan(m, t)
           u == U[1]
           w == U[2]
<1>1. 1 \in 1 .. Len(U) /\ 2 \in 1 .. Len(U) /\ 0 \in Sides /\ 1 \in Sides /\ Sides = {0, 1}
  BY DEF Sides
<1>2. ASSUME NEW j \in Sides, behind(m, w, j) # Null
      PROVE  index(n.ff[behind(m, w, j)], w.f) = glue(m, w, j)
  <2> DEFINE g == behind(m, w, j)
             l == glue(m, w, j)
  <2>1. IsEar(m, t, w, j)
    BY <1>1, Ears
  <2>2. /\ g \in faces(m) \ Gone(m, t) /\ l \in Locals /\ m.ff[g][l] = w.f /\ w.f \in Gone(m, t)
        /\ m.fe[g][l] = ear(m, w, j)
        /\ \A k \in Locals : m.ff[g][k] = w.f => k = l
    BY <1>2, <2>1 DEF IsEar
  <2>3. \A k \in Locals, i \in Sides :
           g = behind(m, u, i) /\ k = glue(m, u, i) => m.fe[g][k] = ear(m, u, i)
    BY <1>1, <2>2, BehindEars
  <2>4. \A i \in Sides : behind(m, u, i) # w.f
    <3>1. \A i \in Sides : IsEar(m, t, u, i)
      BY <1>1, Ears
    <3>2. Null \notin faces(m) /\ Gone(m, t) \subseteq faces(m)
      <4>1. \A i \in 1 .. Len(U) : IsWedge(m, t, U[i])
        BY Wedges
      <4>2. IsFan(m, t, U)
        BY Incident
      <4>3. DOMAIN U = 1 .. Len(U)
        BY <4>2 DEF IsFan
      <4>4. Gone(m, t) \subseteq faces(m)
        BY <4>1, <4>3 DEF IsWedge, Gone
      <4>5. Null \notin faces(m)
        BY Rows DEF Manifold
      <4> QED
        BY <4>4, <4>5
    <3> QED
      BY <2>2, <3>1, <3>2 DEF IsEar
  <2>5. \A k \in Locals :
           n.ff[g][k] = IF g = behind(m, u, 0) /\ k = glue(m, u, 0) THEN behind(m, u, 1)
                        ELSE IF g = behind(m, u, 1) /\ k = glue(m, u, 1) THEN behind(m, u, 0)
                        ELSE m.ff[g][k]
    BY <2>2 DEF Connected, Glues
  <2>6. ASSUME NEW i \in Sides, ear(m, u, i) = ear(m, w, j)
        PROVE  FALSE
    <3>1. ear(m, U[1], i) = ear(m, U[2], j)
      BY <2>6
    <3>2. 1 = 2
      BY <1>1, <3>1, EarsApart
    <3> QED
      BY <3>2
  <2> HIDE DEF g, l, u, w
  <2>7. n.ff[g][l] = w.f
    BY <1>1, <2>2, <2>3, <2>5, <2>6
  <2>8. \A k \in Locals : n.ff[g][k] = w.f => k = l
    BY <1>1, <2>2, <2>4, <2>5
  <2>9. index(n.ff[g], w.f) = l
    BY <2>2, <2>7, <2>8, IndexIs
  <2> QED
    BY <2>9 DEF g, l, w
<1> QED
  BY <1>2 DEF Ready, Connected

\* The ears at an inner edge are connected after those of its second face, which
\* leave what was glued at the first.
LEMMA TwoConnected ==
    ASSUME NEW m, Manifold(m), NEW t \in Tuples(m), Len(Fan(m, t)) = 2,
           NEW n, Connected(n, m, m, t, Fan(m, t)[1]),
           NEW r, Connected(r, n, m, t, Fan(m, t)[2])
    PROVE  AllConnected(r, m, t)
<1> DEFINE U == Fan(m, t)
           u == U[1]
           w == U[2]
<1>1. 1 .. Len(U) = {1, 2} /\ 1 \in 1 .. Len(U) /\ 2 \in 1 .. Len(U)
  OBVIOUS
<1>2. \A f \in faces(m) \ Gone(m, t), k \in Locals, i \in {1, 2}, j \in Sides :
         m.fe[f][k] = ear(m, U[i], j) <=> f = behind(m, U[i], j) /\ k = glue(m, U[i], j)
  BY <1>1, BehindEars
<1>3. \A i, l \in {1, 2}, j, h \in Sides : ear(m, U[i], j) = ear(m, U[l], h) => i = l /\ j = h
  BY SMTT(20), <1>1, EarsApart
<1>4. Sides = {0, 1} /\ 1 - 0 = 1 /\ 1 - 1 = 0
  BY DEF Sides
<1>5. \A f \in faces(m), k \in Locals :
         /\ n.ff[f][k] = IF f = behind(m, u, 0) /\ k = glue(m, u, 0) THEN behind(m, u, 1)
                         ELSE IF f = behind(m, u, 1) /\ k = glue(m, u, 1) THEN behind(m, u, 0)
                         ELSE m.ff[f][k]
         /\ n.fe[f][k] = IF (f = behind(m, u, 0) /\ k = glue(m, u, 0))
                              \/ (f = behind(m, u, 1) /\ k = glue(m, u, 1))
                         THEN ear(m, u, 1) ELSE m.fe[f][k]
  BY DEF Connected, Glues
<1>6. faces(n) = faces(m) /\ vertices(n) = vertices(m) /\ edges(n) = edges(m)
  BY DEF Connected
<1>7. \A f \in faces(m), k \in Locals :
         /\ r.ff[f][k] = IF f = behind(m, w, 0) /\ k = glue(m, w, 0) THEN behind(m, w, 1)
                         ELSE IF f = behind(m, w, 1) /\ k = glue(m, w, 1) THEN behind(m, w, 0)
                         ELSE n.ff[f][k]
         /\ r.fe[f][k] = IF (f = behind(m, w, 0) /\ k = glue(m, w, 0))
                              \/ (f = behind(m, w, 1) /\ k = glue(m, w, 1))
                         THEN ear(m, w, 1) ELSE n.fe[f][k]
  BY <1>6 DEF Connected, Glues
<1>8. ASSUME NEW f \in faces(m) \ Gone(m, t), NEW k \in Locals
      PROVE  /\ \A i \in {1, 2}, j \in Sides :
                   m.fe[f][k] = ear(m, U[i], j) =>
                      r.fe[f][k] = ear(m, U[i], 1) /\ r.ff[f][k] = behind(m, U[i], 1 - j)
             /\ (\A i \in {1, 2}, j \in Sides : m.fe[f][k] # ear(m, U[i], j)) =>
                   r.fe[f][k] = m.fe[f][k] /\ r.ff[f][k] = m.ff[f][k]
  <2> DEFINE e(x, j) == m.fe[f][k] = ear(m, x, j)
  <2>1. \A j \in Sides : /\ e(u, j) <=> f = behind(m, u, j) /\ k = glue(m, u, j)
                         /\ e(w, j) <=> f = behind(m, w, j) /\ k = glue(m, w, j)
    BY <1>2
  <2>2. /\ e(u, 0) => ~e(u, 1) /\ ~e(w, 0) /\ ~e(w, 1)
        /\ e(u, 1) => ~e(w, 0) /\ ~e(w, 1)
        /\ e(w, 0) => ~e(w, 1)
    BY <1>3, <1>4
  <2> HIDE DEF e
  <2>3. /\ n.ff[f][k] = IF e(u, 0) THEN behind(m, u, 1)
                        ELSE IF e(u, 1) THEN behind(m, u, 0) ELSE m.ff[f][k]
        /\ n.fe[f][k] = IF e(u, 0) \/ e(u, 1) THEN ear(m, u, 1) ELSE m.fe[f][k]
    BY <1>4, <1>5, <2>1
  <2>4. /\ r.ff[f][k] = IF e(w, 0) THEN behind(m, w, 1)
                        ELSE IF e(w, 1) THEN behind(m, w, 0) ELSE n.ff[f][k]
        /\ r.fe[f][k] = IF e(w, 0) \/ e(w, 1) THEN ear(m, w, 1) ELSE n.fe[f][k]
    BY <1>4, <1>7, <2>1
  <2>5. /\ \A j \in Sides : e(u, j) => r.fe[f][k] = ear(m, u, 1) /\ r.ff[f][k] = behind(m, u, 1 - j)
        /\ \A j \in Sides : e(w, j) => r.fe[f][k] = ear(m, w, 1) /\ r.ff[f][k] = behind(m, w, 1 - j)
        /\ (\A j \in Sides : ~e(u, j) /\ ~e(w, j)) =>
              r.fe[f][k] = m.fe[f][k] /\ r.ff[f][k] = m.ff[f][k]
    BY ONLY <1>4, <2>2, <2>3, <2>4
  <2> QED
    BY <2>5 DEF e
<1>9. ASSUME NEW f \in faces(m) \ Gone(m, t)
      PROVE  AtMerged(r, m, t, f)
  BY <1>1, <1>8 DEF AtMerged
<1>10. /\ m.fv[u.f][u.e] # m.fv[w.f][w.e]
       /\ \A x \in {u, w} : m.fv[x.f][x.e] # spine_vid(m, t, 1) /\ m.fv[x.f][x.e] \in vertices(m)
       /\ spine_vid(m, t, 1) \in vertices(m)
       /\ ear(m, u, 1) \in edges(m) /\ ear(m, w, 1) \in edges(m)
  <2>1. IsWedge(m, t, u) /\ IsWedge(m, t, w) /\ 1 \in Sides
    BY <1>1, Wedges DEF Sides
  <2>2. m.fv[u.f][u.e] # m.fv[w.f][w.e]
    BY OppsDiffer
  <2>3. u.f \in faces(m) /\ u.e \in Locals /\ w.f \in faces(m) /\ w.e \in Locals
    BY <2>1 DEF IsWedge
  <2>4. /\ m.fv[u.f][u.e] # spine_vid(m, t, 1) /\ m.fv[w.f][w.e] # spine_vid(m, t, 1)
        /\ pos(u, 1) \in Locals /\ m.fv[u.f][pos(u, 1)] = spine_vid(m, t, 1)
        /\ IsEar(m, t, u, 1) /\ IsEar(m, t, w, 1)
    BY <2>1 DEF IsWedge
  <2>5. \A f \in faces(m), k \in Locals : m.fv[f][k] \in vertices(m)
    BY Rows DEF Manifold
  <2>6. ear(m, u, 1) \in edges(m) /\ ear(m, w, 1) \in edges(m)
    BY <2>4 DEF IsEar
  <2> HIDE DEF u, w
  <2>7. /\ m.fv[u.f][u.e] \in vertices(m) /\ m.fv[w.f][w.e] \in vertices(m)
        /\ spine_vid(m, t, 1) \in vertices(m)
    BY <2>3, <2>4, <2>5
  <2> QED
    BY <2>2, <2>4, <2>6, <2>7
<1>11. CollapseNames(r, m, t)
  <2> DEFINE o(i) == m.fv[U[i].f][U[i].e]
             b == spine_vid(m, t, 1)
             e(i) == ear(m, U[i], 1)
             x(i) == IF behind(m, U[i], 1) = Null THEN behind(m, U[i], 0) ELSE behind(m, U[i], 1)
  <2>1. /\ n.ef[e(1)] = x(1) /\ \A y \in edges(m) : y # e(1) => n.ef[y] = m.ef[y]
        /\ n.vf[o(1)] = merged(m, U[1])
        /\ \A v \in vertices(m) : v # o(1) /\ v # b => n.vf[v] = m.vf[v]
    BY DEF Connected
  <2>2. /\ r.ef[e(2)] = x(2) /\ \A y \in edges(m) : y # e(2) => r.ef[y] = n.ef[y]
        /\ r.vf[o(2)] = merged(m, U[2]) /\ r.vf[b] = merged(m, U[2])
        /\ \A v \in vertices(m) : v # o(2) /\ v # b => r.vf[v] = n.vf[v]
    BY <1>6 DEF Connected
  <2>3. e(1) # e(2) /\ o(1) # o(2) /\ o(1) # b /\ e(1) \in edges(m) /\ o(1) \in vertices(m)
    BY <1>3, <1>4, <1>10
  <2> HIDE DEF o, b, e, x
  <2>4. /\ \A i \in {1, 2} : r.ef[e(i)] = x(i) /\ r.vf[o(i)] = merged(m, U[i])
        /\ r.vf[b] = merged(m, U[2])
        /\ \A y \in edges(m) : (\A i \in {1, 2} : y # e(i)) => r.ef[y] = m.ef[y]
        /\ \A v \in vertices(m) : v # b /\ (\A i \in {1, 2} : v # o(i)) => r.vf[v] = m.vf[v]
    BY <2>1, <2>2, <2>3
  <2> QED
    BY <1>1, <2>4 DEF CollapseNames, o, b, e, x
<1>12. /\ Tables(r) /\ r.free = m.free /\ r.cap = m.cap /\ r.fv = m.fv
       /\ faces(r) = faces(m) /\ vertices(r) = vertices(m) /\ edges(r) = edges(m)
  BY DEF Connected
<1> QED
  BY <1>9, <1>11, <1>12 DEF AllConnected

\* connect_ears glues the faces behind the ears of every incident face.
LEMMA ConnectEarsIs ==
    ASSUME NEW m, Manifold(m), NEW t \in Tuples(m)
    PROVE  AllConnected(connect_ears(m, t), m, t)
<1> DEFINE U == Fan(m, t)
           d == incident_face_datas(m, t)
           one == connect_ear(m, m, t, d[1])
           two == connect_ear(m, one, t, d[2])
<1>1. /\ Len(d) = Len(U) /\ \A i \in 1 .. Len(U) : d[i] = get_incident_face_data(m, U[i])
  BY FanData
<1>2. Len(U) \in {1, 2}
  BY Incident DEF IsFan
<1>3. connect_ears(m, t) = IF Len(U) = 1 THEN one ELSE two
  BY <1>1 DEF connect_ears
<1>4. Connected(one, m, m, t, U[1])
  <2>1. 1 \in 1 .. Len(U)
    BY <1>2
  <2> QED
    BY <1>1, <2>1, FirstReady, ConnectEar
<1> HIDE DEF one
<1>5. CASE Len(U) = 1
  BY <1>3, <1>4, <1>5, OneConnected
<1>6. CASE Len(U) = 2
  <2>1. 2 \in 1 .. Len(U) /\ d[2] = get_incident_face_data(m, U[2])
    BY <1>1, <1>6
  <2>2. Ready(one, m, U[2])
    BY <1>4, <1>6, SecondReady
  <2>3. Connected(two, one, m, t, U[2])
    BY <2>1, <2>2, ConnectEar
  <2> HIDE DEF two
  <2> QED
    BY <1>3, <1>4, <1>6, <2>3, TwoConnected
<1> QED
  BY <1>2, <1>5, <1>6

MergedEars(m, t) == {e \in edges(m) : \E i \in 1 .. Len(Fan(m, t)) : e = ear(m, Fan(m, t)[i], 0)}
\* The tables that collapse_edge leaves in a mesh that is not free.
CollapseTables(r, m, t) ==
    LET a == spine_vid(m, t, 0)
        b == spine_vid(m, t, 1)
    IN  /\ Tables(r) /\ r.free = m.free /\ r.cap = m.cap
        /\ vertices(r) = vertices(m) \ {a}
        /\ faces(r) = faces(m) \ Gone(m, t)
        /\ edges(r) = edges(m) \ ({id_edge(m, t)} \cup MergedEars(m, t))
        /\ \A f \in faces(r), k \in Locals :
              r.fv[f][k] = IF m.fv[f][k] = a THEN b ELSE m.fv[f][k]
        /\ \A f \in faces(r) : AtMerged(r, m, t, f)
        /\ \A i \in 1 .. Len(Fan(m, t)) :
              /\ r.ef[ear(m, Fan(m, t)[i], 1)] =
                    IF behind(m, Fan(m, t)[i], 1) = Null THEN behind(m, Fan(m, t)[i], 0)
                    ELSE behind(m, Fan(m, t)[i], 1)
              /\ r.vf[m.fv[Fan(m, t)[i].f][Fan(m, t)[i].e]] = merged(m, Fan(m, t)[i])
        /\ \E i \in 1 .. Len(Fan(m, t)) : r.vf[b] = merged(m, Fan(m, t)[i])
        /\ \A e \in edges(r) : (\A i \in 1 .. Len(Fan(m, t)) : e # ear(m, Fan(m, t)[i], 1))
                                    => r.ef[e] = m.ef[e]
        /\ \A v \in vertices(r) :
              v # b /\ (\A i \in 1 .. Len(Fan(m, t)) : v # m.fv[Fan(m, t)[i].f][Fan(m, t)[i].e])
                  => r.vf[v] = m.vf[v]

\* The vertex a is replaced by b in the faces S.
Moved(r, n, S, a, b) ==
    /\ Tables(r) /\ r.free = n.free /\ r.cap = n.cap /\ r.fe = n.fe /\ r.ff = n.ff
    /\ r.vf = n.vf /\ r.ef = n.ef
    /\ faces(r) = faces(n) /\ vertices(r) = vertices(n) /\ edges(r) = edges(n)
    /\ \A f \in faces(n), k \in Locals :
          r.fv[f][k] = IF f \in S /\ n.fv[f][k] = a THEN b ELSE n.fv[f][k]
\* The loop over the faces of the removed vertex changes it to the other one.
LEMMA MoveVertex ==
    ASSUME NEW n, Tables(n), NEW S, NEW a, NEW b \in Int
    PROVE  Moved([n EXCEPT !.fv = [f \in DOMAIN @ |->
                    IF f \in S THEN [k \in Locals |-> IF @[f][k] = a THEN b ELSE @[f][k]]
                    ELSE @[f]]], n, S, a, b)
<1> DEFINE fv == [f \in faces(n) |->
                    IF f \in S THEN [k \in Locals |-> IF n.fv[f][k] = a THEN b ELSE n.fv[f][k]]
                    ELSE n.fv[f]]
           r == [n EXCEPT !.fv = fv]
<1>0. r = [n EXCEPT !.fv = [f \in DOMAIN @ |->
                    IF f \in S THEN [k \in Locals |-> IF @[f][k] = a THEN b ELSE @[f][k]]
                    ELSE @[f]]]
  BY DEF faces
<1>1. n = [x \in Attributes |-> n[x]]
  BY DEF Tables, Plain
<1>2. n.fv \in [faces(n) -> [Locals -> Int]]
  BY DEF Tables
<1>3. fv \in [faces(n) -> [Locals -> Int]]
  BY <1>2
<1>4. \A f \in faces(n), k \in Locals :
         fv[f][k] = IF f \in S /\ n.fv[f][k] = a THEN b ELSE n.fv[f][k]
  BY <1>2
<1> HIDE DEF fv
<1>5. /\ Plain(r) /\ r.free = n.free /\ r.cap = n.cap /\ r.fe = n.fe /\ r.ff = n.ff
      /\ r.vf = n.vf /\ r.ef = n.ef /\ r.fv = fv
  BY <1>1 DEF Attributes, Plain
<1> HIDE DEF r
<1>6. faces(r) = faces(n) /\ vertices(r) = vertices(n) /\ edges(r) = edges(n)
  BY <1>3, <1>5 DEF faces, vertices, edges
<1>7. Tables(r)
  BY <1>3, <1>5, <1>6 DEF Tables
<1>8. Moved(r, n, S, a, b)
  BY <1>4, <1>5, <1>6, <1>7 DEF Moved
<1> QED
  BY <1>0, <1>8 DEF r

\* collapse_edge leaves the tables of CollapseTables.
LEMMA CollapseEdgeIs ==
    ASSUME NEW m, Manifold(m), ~m.free, NEW t \in Tuples(m)
    PROVE  CollapseTables(collapse_edge(m, t), m, t)
<1> DEFINE U == Fan(m, t)
           I == 1 .. Len(U)
           d == incident_face_datas(m, t)
           a == spine_vid(m, t, 0)
           b == spine_vid(m, t, 1)
           n == connect_ears(m, t)
           S == star(m, a) \ Gone(m, t)
           q == [n EXCEPT !.fv = [f \in DOMAIN @ |->
                    IF f \in S THEN [k \in Locals |-> IF @[f][k] = a THEN b ELSE @[f][k]]
                    ELSE @[f]]]
           E == {id_edge(m, t)} \cup MergedEars(m, t)
           r == delete_simplices(q, {a}, E, Gone(m, t))
<1>1. AllConnected(n, m, t)
  BY ConnectEarsIs
<1>2. /\ DOMAIN d = I
      /\ \A i \in I : d[i].f = U[i].f /\ d[i].ears[0].e = ear(m, U[i], 0)
                      /\ ear(m, U[i], 0) \in edges(m)
  <2>1. DOMAIN d = I /\ \A i \in I : d[i] = get_incident_face_data(m, U[i])
    BY FanData
  <2>2. \A i \in I : U[i] \in Tuples(m)
    BY Incident DEF IsFan
  <2>3. 0 \in Sides
    BY DEF Sides
  <2>4. \A i \in I : ear(m, U[i], 0) \in edges(m)
    BY <2>3, Ears DEF IsEar
  <2> HIDE DEF d
  <2>5. ASSUME NEW i \in I
        PROVE  d[i].f = U[i].f /\ d[i].ears[0].e = ear(m, U[i], 0)
    <3> DEFINE u == U[i]
               x == get_incident_face_data(m, u)
    <3>1. d[i] = x /\ u \in Tuples(m)
      BY <2>1, <2>2
    <3> HIDE DEF U, u
    <3>2. x.f = u.f /\ x.ears[0] = Ear(m, u, 0)
      BY <3>1, FaceData
    <3>3. Ear(m, u, 0).e = ear(m, u, 0)
      BY DEF Ear, ear
    <3> QED
      BY <3>1, <3>2, <3>3 DEF u
  <2> QED
    BY <2>1, <2>4, <2>5
<1>3. {d[i].f : i \in DOMAIN d} = Gone(m, t)
  <2>1. DOMAIN U = I
    BY Incident DEF IsFan
  <2> HIDE DEF d
  <2> QED
    BY <1>2, <2>1 DEF Gone
<1>4. {id_edge(m, t)} \cup {d[i].ears[0].e : i \in DOMAIN d} = E
  <2> HIDE DEF d
  <2>1. {d[i].ears[0].e : i \in DOMAIN d} = {ear(m, U[i], 0) : i \in I}
    BY <1>2
  <2>2. {ear(m, U[i], 0) : i \in I} = MergedEars(m, t)
    BY <1>2 DEF MergedEars
  <2> QED
    BY <2>1, <2>2
<1>5. top_dimension_cofaces_vertex(m, t) = star(m, a)
  BY CofacesAreStar DEF spine_vid
<1>6. collapse_edge(m, t) = r
  <2>1. DEFINE dd == incident_face_datas(m, t)
               gone == {dd[i].f : i \in DOMAIN dd}
               v0 == top_dimension_cofaces_vertex(m, t)
               moved == [connect_ears(m, t) EXCEPT !.fv = [f \in DOMAIN @ |->
                    IF f \in v0 \ gone
                    THEN [k \in Locals |-> IF @[f][k] = spine_vid(m, t, 0)
                                           THEN spine_vid(m, t, 1) ELSE @[f][k]]
                    ELSE @[f]]]
  <2>2. collapse_edge(m, t) =
           delete_simplices(moved, {spine_vid(m, t, 0)},
                 {id_edge(m, t)} \cup {dd[i].ears[0].e : i \in DOMAIN dd}, gone)
    BY DEF collapse_edge
  <2>3. gone = Gone(m, t) /\ v0 = star(m, a)
    BY <1>3, <1>5
  <2>4. moved = q
    <3> HIDE DEF gone, v0
    <3>1. v0 \ gone = S
      BY <2>3
    <3> QED
      BY <3>1
  <2> HIDE DEF moved, q
  <2> QED
    BY <1>3, <1>4, <2>2, <2>4
<1>7. b \in Int /\ a \in vertices(m) /\ b \in vertices(m)
  <2>1. 1 \in I /\ 0 \in Sides /\ 1 \in Sides
    BY Incident DEF IsFan, Sides
  <2>2. \A j \in Sides : m.fv[U[1].f][pos(U[1], j)] = spine_vid(m, t, j)
                         /\ U[1].f \in faces(m) /\ pos(U[1], j) \in Locals
    BY <2>1, Wedges DEF IsWedge
  <2>3. vertices(m) \subseteq Nat /\ \A f \in faces(m), k \in Locals : m.fv[f][k] \in vertices(m)
    BY Rows DEF Manifold
  <2> HIDE DEF U, I
  <2> QED
    BY <2>1, <2>2, <2>3
<1>8. /\ Tables(n) /\ n.free = m.free /\ n.cap = m.cap /\ n.fv = m.fv
      /\ faces(n) = faces(m) /\ vertices(n) = vertices(m) /\ edges(n) = edges(m)
      /\ \A f \in faces(m) \ Gone(m, t) : AtMerged(n, m, t, f)
      /\ CollapseNames(n, m, t)
  BY <1>1 DEF AllConnected
<1> HIDE DEF n, S, E
<1>9. Moved(q, n, S, a, b)
  BY <1>7, <1>8, MoveVertex
<1> HIDE DEF q
<1>10. Removed(r, q, {a}, E, Gone(m, t))
  BY <1>9, RemoveSimplices DEF Moved
<1> HIDE DEF r
<1>11. /\ Tables(r) /\ r.free = m.free /\ r.cap = m.cap
       /\ vertices(r) = vertices(m) \ {a} /\ faces(r) = faces(m) \ Gone(m, t)
       /\ edges(r) = edges(m) \ E
       /\ \A f \in faces(r) : r.fe[f] = n.fe[f] /\ r.ff[f] = n.ff[f] /\ r.fv[f] = q.fv[f]
       /\ \A e \in edges(r) : r.ef[e] = n.ef[e]
       /\ \A v \in vertices(r) : r.vf[v] = n.vf[v]
       /\ \A f \in faces(m), k \in Locals :
             q.fv[f][k] = IF f \in S /\ m.fv[f][k] = a THEN b ELSE m.fv[f][k]
  BY <1>8, <1>9, <1>10 DEF Moved, Removed
<1>12. \A f \in faces(r), k \in Locals :
          r.fv[f][k] = IF m.fv[f][k] = a THEN b ELSE m.fv[f][k]
  BY <1>11 DEF S, star
<1>13. \A f \in faces(r) : AtMerged(r, m, t, f)
  BY <1>8, <1>11 DEF AtMerged
<1>14. /\ \A i \in I : /\ ear(m, U[i], 1) \in edges(r)
                       /\ m.fv[U[i].f][U[i].e] \in vertices(r)
       /\ b \in vertices(r)
  <2>1. 0 \in Sides /\ 1 \in Sides
    BY DEF Sides
  <2>2. \A i \in I : IsWedge(m, t, U[i])
    BY Wedges
  <2>3. a # b
    BY IncidentAll
  <2>4. ASSUME NEW i \in I
        PROVE  ear(m, U[i], 1) \in edges(r)
    <3>1. ear(m, U[i], 1) \in edges(m) /\ ear(m, U[i], 1) # id_edge(m, t)
      BY <2>1, <2>2 DEF IsWedge, IsEar
    <3>2. \A k \in I : ear(m, U[i], 1) # ear(m, U[k], 0)
      <4>1. ASSUME NEW k \in I, ear(m, U[i], 1) = ear(m, U[k], 0)
            PROVE  1 = 0
        BY <2>1, <2>4, <4>1, EarsApart
      <4> QED
        BY <4>1
    <3> QED
      BY <1>11, <3>1, <3>2 DEF E, MergedEars
  <2>5. ASSUME NEW i \in I
        PROVE  m.fv[U[i].f][U[i].e] \in vertices(m) /\ m.fv[U[i].f][U[i].e] # a
    <3>1. \A f \in faces(m), k \in Locals : m.fv[f][k] \in vertices(m)
      BY Rows DEF Manifold
    <3> QED
      BY <2>1, <2>2, <3>1 DEF IsWedge
  <2> QED
    BY <1>7, <1>11, <2>3, <2>4, <2>5
<1>15. /\ \A i \in I : /\ n.ef[ear(m, U[i], 1)] = IF behind(m, U[i], 1) = Null THEN behind(m, U[i], 0)
                                                  ELSE behind(m, U[i], 1)
                       /\ n.vf[m.fv[U[i].f][U[i].e]] = merged(m, U[i])
       /\ \E i \in I : n.vf[b] = merged(m, U[i])
       /\ \A e \in edges(m) : (\A i \in I : e # ear(m, U[i], 1)) => n.ef[e] = m.ef[e]
       /\ \A v \in vertices(m) :
             v # b /\ (\A i \in I : v # m.fv[U[i].f][U[i].e]) => n.vf[v] = m.vf[v]
  <2>1. CollapseNames(n, m, t)
    BY <1>8
  <2> QED
    BY ONLY <2>1 DEF CollapseNames
<1>16. CollapseTables(r, m, t)
  <2>1. /\ \A i \in I : /\ r.ef[ear(m, U[i], 1)] = IF behind(m, U[i], 1) = Null THEN behind(m, U[i], 0)
                                                   ELSE behind(m, U[i], 1)
                        /\ r.vf[m.fv[U[i].f][U[i].e]] = merged(m, U[i])
        /\ \E i \in I : r.vf[b] = merged(m, U[i])
        /\ \A e \in edges(r) : (\A i \in I : e # ear(m, U[i], 1)) => r.ef[e] = m.ef[e]
        /\ \A v \in vertices(r) :
              v # b /\ (\A i \in I : v # m.fv[U[i].f][U[i].e]) => r.vf[v] = m.vf[v]
    <3> HIDE DEF U, I, a, b
    <3>1. \A e \in edges(r) : e \in edges(m) /\ r.ef[e] = n.ef[e]
      BY <1>11
    <3>2. \A v \in vertices(r) : v \in vertices(m) /\ r.vf[v] = n.vf[v]
      BY <1>11
    <3>3. ASSUME NEW i \in I
          PROVE  /\ r.ef[ear(m, U[i], 1)] = IF behind(m, U[i], 1) = Null THEN behind(m, U[i], 0)
                                            ELSE behind(m, U[i], 1)
                 /\ r.vf[m.fv[U[i].f][U[i].e]] = merged(m, U[i])
      BY <1>14, <1>15, <3>1, <3>2
    <3>4. \E i \in I : r.vf[b] = merged(m, U[i])
      BY <1>14, <1>15, <3>2
    <3>5. \A e \in edges(r) : (\A i \in I : e # ear(m, U[i], 1)) => r.ef[e] = m.ef[e]
      BY ONLY <1>15, <3>1
    <3>6. \A v \in vertices(r) :
             v # b /\ (\A i \in I : v # m.fv[U[i].f][U[i].e]) => r.vf[v] = m.vf[v]
      BY ONLY <1>15, <3>2
    <3> QED
      BY <3>3, <3>4, <3>5, <3>6
  <2> QED
    BY <1>11, <1>12, <1>13, <2>1 DEF CollapseTables, E
<1> QED
  BY <1>6, <1>16

-----------------------------------------------------------------------------
(* What the link condition says of the faces at the two ends.              *)

\* Faces of either end share a vertex opposite the edge and no two; of the ears
\* of a face one is inside, and of the ends of an edge inside, one is.
Inner(m, v) == \A f \in star(m, v), k \in Locals : m.fv[f][k] # v => m.ff[f][k] # Null
LinkHolds(m, t) ==
    LET a == spine_vid(m, t, 0)
        b == spine_vid(m, t, 1)
        U == Fan(m, t)
    IN  /\ \A x : (\E f \in star(m, a) : Has(m, f, x)) /\ (\E g \in star(m, b) : Has(m, g, x))
                    /\ x # a /\ x # b
                  => \E i \in 1 .. Len(U) : x = m.fv[U[i].f][U[i].e]
        /\ \A f \in star(m, a), g \in star(m, b) : \A x, y :
              Has(m, f, x) /\ Has(m, g, x) /\ Has(m, f, y) /\ Has(m, g, y)
                  /\ x \notin {a, b} /\ y \notin {a, b} => x = y
        /\ \A i \in 1 .. Len(U) : behind(m, U[i], 0) # Null \/ behind(m, U[i], 1) # Null
        /\ Len(U) = 2 => Inner(m, a) \/ Inner(m, b)

\* A member of a link, by the face it lies in.
LEMMA LinkMember ==
    ASSUME NEW m, NEW X, NEW F, NEW s
    PROVE  s \in link(m, X, F) <=>
              s # {} /\ \E f \in F : \A x \in s : x \notin X /\ Has(m, f, x)
<1> DEFINE c(f) == {m.fv[f][k] : k \in Locals}
           C == {c(f) : f \in F}
<1>1. link(m, X, F) = (UNION {SUBSET (d \ X) : d \in C}) \ {{}}
  BY DEF link
<1>2. \A f : s \subseteq c(f) \ X <=> \A x \in s : x \notin X /\ Has(m, f, x)
  BY DEF Has
<1> HIDE DEF c
<1>3. (\E d \in C : s \subseteq d \ X) <=> \E f \in F : s \subseteq c(f) \ X
  OBVIOUS
<1> HIDE DEF C
<1>4. s \in link(m, X, F) <=> s # {} /\ \E d \in C : s \subseteq d \ X
  <2>1. s \in UNION {SUBSET (d \ X) : d \in C} <=> \E d \in C : s \in SUBSET (d \ X)
    OBVIOUS
  <2> QED
    BY <1>1, <2>1
<1> QED
  BY <1>2, <1>3, <1>4

\* link_condition_closed_trimesh: what is in both links is a vertex opposite the edge.
LEMMA LinkClosed ==
    ASSUME NEW m, Manifold(m), NEW t \in Tuples(m), link_condition_closed_trimesh(m, t)
    PROVE  LET a == spine_vid(m, t, 0)
               b == spine_vid(m, t, 1)
               U == Fan(m, t)
           IN  \A s : s # {} /\ (\E f \in star(m, a) : \A x \in s : x # a /\ Has(m, f, x))
                             /\ (\E g \in star(m, b) : \A x \in s : x # b /\ Has(m, g, x))
                      => \E i \in 1 .. Len(U) : s = {m.fv[U[i].f][U[i].e]}
<1> DEFINE a == spine_vid(m, t, 0)
           b == spine_vid(m, t, 1)
           U == Fan(m, t)
           I == 1 .. Len(U)
<1>1. switch_vertex(t) \in Tuples(m) /\ a = id_vertex(m, t) /\ b = id_vertex(m, switch_vertex(t))
  <2>1. switch_vertex(t) \in Tuples(m)
    <3>1. t.v \in Locals /\ t.e \in Locals /\ t.v # t.e /\ t \in [v : Locals, e : Locals, f : faces(m)]
      BY DEF Tuples
    <3>2. third(t) \in Locals /\ third(t) # t.e
      BY <3>1, ThreeLocals
    <3> QED
      BY <3>1, <3>2 DEF Tuples, switch_vertex
  <2> QED
    BY <2>1 DEF spine_vid
<1>2. /\ top_dimension_cofaces_vertex(m, t) = star(m, a)
      /\ top_dimension_cofaces_vertex(m, switch_vertex(t)) = star(m, b)
  BY <1>1, CofacesAreStar
<1>3. link(m, {a}, star(m, a)) \cap link(m, {b}, star(m, b)) = link(m, {a, b}, Gone(m, t))
  <2> HIDE DEF a, b
  <2> QED
    BY <1>1, <1>2 DEF link_condition_closed_trimesh, Gone, Fan
<1>4. DOMAIN U = I /\ \A i \in I : IsWedge(m, t, U[i])
  BY Incident, Wedges DEF IsFan
<1> SUFFICES ASSUME NEW s, s # {}, \E f \in star(m, a) : \A x \in s : x # a /\ Has(m, f, x),
                    \E g \in star(m, b) : \A x \in s : x # b /\ Has(m, g, x)
             PROVE  \E i \in I : s = {m.fv[U[i].f][U[i].e]}
  OBVIOUS
<1> HIDE DEF a, b, U
<1>5. s \in link(m, {a}, star(m, a)) /\ s \in link(m, {b}, star(m, b))
  <2>1. s \in link(m, {a}, star(m, a))
    BY LinkMember
  <2>2. s \in link(m, {b}, star(m, b))
    BY LinkMember
  <2> QED
    BY <2>1, <2>2
<1>6. s \in link(m, {a, b}, Gone(m, t))
  BY <1>3, <1>5
<1>7. PICK f \in Gone(m, t) : \A x \in s : x \notin {a, b} /\ Has(m, f, x)
  BY <1>6, LinkMember
<1>8. PICK i \in I : f = U[i].f
  BY <1>4, <1>7 DEF Gone, U
<1>9. \A x \in s : x = m.fv[U[i].f][U[i].e]
  <2> SUFFICES ASSUME NEW x \in s PROVE x = m.fv[U[i].f][U[i].e]
    OBVIOUS
  <2>1. PICK k \in Locals : m.fv[U[i].f][k] = x
    BY <1>7, <1>8 DEF Has
  <2>2. /\ 0 \in Sides /\ Locals = {U[i].e, pos(U[i], 0), pos(U[i], 1 - 0)} /\ 1 - 0 = 1 /\ 1 \in Sides
        /\ m.fv[U[i].f][pos(U[i], 0)] = a /\ m.fv[U[i].f][pos(U[i], 1)] = b
    BY <1>4 DEF IsWedge, Sides, a, b
  <2> QED
    BY <1>7, <2>1, <2>2
<1> QED
  BY <1>9

\* The other ends of the boundary edges at a vertex.
LEMMA NeighborsIn ==
    ASSUME NEW m, Manifold(m), NEW t \in Tuples(m), NEW f \in faces(m), NEW k \in Locals,
           NEW p \in Locals, NEW i \in Locals, m.fv[f][i] = id_vertex(m, t),
           i # k, i # p, p # k, m.ff[f][k] = Null
    PROVE  m.fv[f][p] \in boundary_neighbors(m, t)
<1> DEFINE v == id_vertex(m, t)
<1>1. f \in star(m, v) /\ m.fv[f][p] # v /\ m.fv[f][k] # v
  BY DEF star, Manifold, Corners
<1>2. top_dimension_cofaces_vertex(m, t) = star(m, v)
  BY CofacesAreStar
<1>3. m.ff[f][k] < 0
  BY DEF Null
<1> DEFINE others == {x \in top_dimension_cofaces_vertex(m, t) \X Locals :
                    /\ m.fv[x[1]][x[2]] # v
                    /\ \E l \in Locals \ {x[2]} : m.fv[x[1]][l] # v /\ m.ff[x[1]][l] < 0}
<1>4. <<f, p>> \in others
  BY <1>1, <1>2, <1>3
<1>5. m.fv[f][p] \in {m.fv[x[1]][x[2]] : x \in others}
  BY <1>4
<1>6. boundary_neighbors(m, t) = {m.fv[x[1]][x[2]] : x \in others}
  BY DEF boundary_neighbors
<1> QED
  BY <1>5, <1>6

\* A vertex without neighbours at the boundary is inside.
LEMMA InnerIf ==
    ASSUME NEW m, Manifold(m), NEW t \in Tuples(m), boundary_neighbors(m, t) = {}
    PROVE  Inner(m, id_vertex(m, t))
<1> SUFFICES ASSUME NEW f \in star(m, id_vertex(m, t)), NEW k \in Locals,
                    m.fv[f][k] # id_vertex(m, t), m.ff[f][k] = Null
             PROVE  FALSE
  BY DEF Inner
<1>1. PICK i \in Locals : m.fv[f][i] = id_vertex(m, t)
  BY DEF star
<1>2. PICK p \in Locals : p # i /\ p # k
  BY <1>1, Between
<1>3. f \in faces(m) /\ i # k
  BY <1>1 DEF star
<1> QED
  BY <1>1, <1>2, <1>3, NeighborsIn

\* What link_condition grants to the collapse.
LEMMA LinkFacts ==
    ASSUME NEW m, Manifold(m), NEW t \in Tuples(m), link_condition(m, t)
    PROVE  LinkHolds(m, t)
<1> DEFINE a == spine_vid(m, t, 0)
           b == spine_vid(m, t, 1)
           U == Fan(m, t)
           I == 1 .. Len(U)
           x0 == boundary_neighbors(m, t)
           x1 == boundary_neighbors(m, switch_vertex(t))
<1>1. /\ switch_vertex(t) \in Tuples(m) /\ a = id_vertex(m, t) /\ b = id_vertex(m, switch_vertex(t))
  <2>1. switch_vertex(t) \in Tuples(m)
    <3>1. t.v \in Locals /\ t.e \in Locals /\ t.v # t.e /\ t \in [v : Locals, e : Locals, f : faces(m)]
      BY DEF Tuples
    <3>2. third(t) \in Locals /\ third(t) # t.e
      BY <3>1, ThreeLocals
    <3> QED
      BY <3>1, <3>2 DEF Tuples, switch_vertex
  <2> QED
    BY <2>1 DEF spine_vid
<1>2. /\ link_condition_closed_trimesh(m, t)
      /\ IF is_boundary_edge(m, t) THEN x0 \cap x1 = {} ELSE x0 = {} \/ x1 = {}
  BY DEF link_condition
<1>3. \A s : s # {} /\ (\E f \in star(m, a) : \A x \in s : x # a /\ Has(m, f, x))
                    /\ (\E g \in star(m, b) : \A x \in s : x # b /\ Has(m, g, x))
             => \E i \in I : s = {m.fv[U[i].f][U[i].e]}
  BY <1>2, LinkClosed
<1>4. DOMAIN U = I /\ IsFan(m, t, U) /\ \A i \in I : IsWedge(m, t, U[i])
  BY Incident, Wedges DEF IsFan
<1>5. x0 \cap x1 = {}
  BY <1>2
<1> HIDE DEF a, b, U, x0, x1
<1>6. ASSUME NEW x, \E f \in star(m, a) : Has(m, f, x), \E g \in star(m, b) : Has(m, g, x),
             x # a, x # b
      PROVE  \E i \in I : x = m.fv[U[i].f][U[i].e]
  <2>0. {x} # {} /\ (\E f \in star(m, a) : \A y \in {x} : y # a /\ Has(m, f, y))
        /\ (\E g \in star(m, b) : \A y \in {x} : y # b /\ Has(m, g, y))
    BY <1>6
  <2>1. \E i \in I : {x} = {m.fv[U[i].f][U[i].e]}
    BY ONLY <1>3, <2>0
  <2> QED
    BY <2>1
<1>7. ASSUME NEW f \in star(m, a), NEW g \in star(m, b), NEW x, NEW y,
             Has(m, f, x), Has(m, g, x), Has(m, f, y), Has(m, g, y),
             x \notin {a, b}, y \notin {a, b}
      PROVE  x = y
  <2>0. {x, y} # {} /\ (\E h \in star(m, a) : \A z \in {x, y} : z # a /\ Has(m, h, z))
        /\ (\E h \in star(m, b) : \A z \in {x, y} : z # b /\ Has(m, h, z))
    BY <1>7
  <2>1. \E i \in I : {x, y} = {m.fv[U[i].f][U[i].e]}
    BY ONLY <1>3, <2>0
  <2> QED
    BY <2>1
<1>8. ASSUME NEW i \in I, behind(m, U[i], 0) = Null, behind(m, U[i], 1) = Null
      PROVE  FALSE
  <2> DEFINE u == U[i]
  <2>1. /\ 0 \in Sides /\ 1 \in Sides /\ 1 - 0 = 1 /\ 1 - 1 = 0
    BY DEF Sides
  <2>2. /\ u.f \in faces(m) /\ u.e \in Locals /\ pos(u, 0) \in Locals /\ pos(u, 1) \in Locals
        /\ pos(u, 0) # u.e /\ pos(u, 1) # u.e /\ pos(u, 0) # pos(u, 1)
        /\ m.fv[u.f][pos(u, 0)] = a /\ m.fv[u.f][pos(u, 1)] = b
    BY <1>4, <2>1 DEF IsWedge, a, b
  <2>3. m.ff[u.f][pos(u, 1)] = Null /\ m.ff[u.f][pos(u, 0)] = Null
    BY <1>8, <2>1 DEF behind
  <2> HIDE DEF u
  <2>4. m.fv[u.f][u.e] \in x0
    BY <1>1, <2>2, <2>3, NeighborsIn DEF x0
  <2>5. m.fv[u.f][u.e] \in x1
    BY <1>1, <2>2, <2>3, NeighborsIn DEF x1
  <2> QED
    BY <1>5, <2>4, <2>5
<1>9. ASSUME Len(U) = 2
      PROVE  Inner(m, a) \/ Inner(m, b)
  <2>1. m.ff[t.f][t.e] # Null
    BY <1>4, <1>9 DEF IsFan
  <2>2. ~is_boundary_edge(m, t)
    <3>1. m.ff[t.f][t.e] \in faces(m) /\ faces(m) \subseteq Nat
      BY <2>1, Rows DEF Manifold, Tuples
    <3> QED
      BY <3>1 DEF is_boundary_edge
  <2> QED
    BY <1>1, <1>2, <2>2, InnerIf DEF x0, x1
<1> QED
  BY <1>6, <1>7, <1>8, <1>9 DEF LinkHolds, a, b, U

-----------------------------------------------------------------------------
(* The mesh r that the collapse of an edge of a mesh m leaves: the faces   *)
(* that stay, with b for a, and the ears of end 1 for those of end 0.      *)

merge(m, t, x) == IF x = spine_vid(m, t, 0) THEN spine_vid(m, t, 1) ELSE x
opp(m, u) == m.fv[u.f][u.e]
IsCollapse(r, m, t, U) ==
    /\ ~m.free /\ ~r.free /\ t \in Tuples(m) /\ U = Fan(m, t) /\ IsFan(m, t, U)
    /\ \A i \in 1 .. Len(U) : IsWedge(m, t, U[i])
    /\ LinkHolds(m, t)
    /\ faces(r) = faces(m) \ Gone(m, t)
    /\ \A f \in faces(r), k \in Locals : r.fv[f][k] = merge(m, t, m.fv[f][k])
    /\ \A f \in faces(r) : AtMerged(r, m, t, f)

\* The tables after a collapse that the link condition allows are those of IsCollapse.
LEMMA CollapseFacts ==
    ASSUME NEW m, Manifold(m), ~m.free, NEW t \in Tuples(m), LinkHolds(m, t),
           NEW r, CollapseTables(r, m, t)
    PROVE  IsCollapse(r, m, t, Fan(m, t))
BY Incident, Wedges DEF IsCollapse, CollapseTables, merge

\* The places of the ears, among the faces that stay.
LEMMA EarPlaces ==
    ASSUME NEW m, Manifold(m), NEW t, NEW r, NEW U, IsCollapse(r, m, t, U),
           NEW f \in faces(r), NEW k \in Locals
    PROVE  /\ f \in faces(m) /\ f \notin Gone(m, t) /\ m.fe[f][k] # id_edge(m, t)
           /\ m.ff[f][k] \in Gone(m, t) =>
                 \E i \in 1 .. Len(U), j \in Sides : m.fe[f][k] = ear(m, U[i], j)
           /\ \A i \in 1 .. Len(U), j \in Sides :
                 m.fe[f][k] = ear(m, U[i], j) <=> f = behind(m, U[i], j) /\ k = glue(m, U[i], j)
           /\ \A i \in 1 .. Len(U), j \in Sides :
                 m.fe[f][k] = ear(m, U[i], j) =>
                    r.fe[f][k] = ear(m, U[i], 1) /\ r.ff[f][k] = behind(m, U[i], 1 - j)
           /\ (\A i \in 1 .. Len(U), j \in Sides : m.fe[f][k] # ear(m, U[i], j)) =>
                 r.fe[f][k] = m.fe[f][k] /\ r.ff[f][k] = m.ff[f][k]
<1>1. f \in faces(m) \ Gone(m, t) /\ t \in Tuples(m) /\ U = Fan(m, t) /\ AtMerged(r, m, t, f)
  BY DEF IsCollapse
<1>2. /\ m.ff[f][k] \in Gone(m, t) =>
            \E i \in 1 .. Len(U), j \in Sides :
               m.ff[f][k] = Fan(m, t)[i].f /\ m.fe[f][k] = ear(m, Fan(m, t)[i], j)
      /\ \A i \in 1 .. Len(U), j \in Sides :
            m.fe[f][k] = ear(m, Fan(m, t)[i], j) <=>
               f = behind(m, Fan(m, t)[i], j) /\ k = glue(m, Fan(m, t)[i], j)
      /\ m.fe[f][k] # id_edge(m, t)
  BY <1>1, BehindEars
<1>3. /\ \A i \in 1 .. Len(U), j \in Sides :
            m.fe[f][k] = ear(m, U[i], j) =>
               r.fe[f][k] = ear(m, U[i], 1) /\ r.ff[f][k] = behind(m, U[i], 1 - j)
      /\ (\A i \in 1 .. Len(U), j \in Sides : m.fe[f][k] # ear(m, U[i], j)) =>
            r.fe[f][k] = m.fe[f][k] /\ r.ff[f][k] = m.ff[f][k]
  BY <1>1 DEF AtMerged
<1> QED
  BY <1>1, <1>2, <1>3

\* The vertices of the faces that stay.
LEMMA CollapseHas ==
    ASSUME NEW m, Manifold(m), NEW t, NEW r, NEW U, IsCollapse(r, m, t, U), NEW f \in faces(r)
    PROVE  /\ \A x : Has(r, f, x) <=> \/ x # spine_vid(m, t, 0) /\ Has(m, f, x)
                                      \/ x = spine_vid(m, t, 1) /\ Has(m, f, spine_vid(m, t, 0))
           /\ ~(Has(m, f, spine_vid(m, t, 0)) /\ Has(m, f, spine_vid(m, t, 1)))
           /\ spine_vid(m, t, 0) # spine_vid(m, t, 1)
<1>1. /\ f \in faces(m) /\ f \notin Gone(m, t) /\ t \in Tuples(m) /\ U = Fan(m, t)
      /\ DOMAIN U = 1 .. Len(U)
      /\ \A k \in Locals : r.fv[f][k] = merge(m, t, m.fv[f][k])
  BY DEF IsCollapse, IsFan
<1>2. spine_vid(m, t, 0) # spine_vid(m, t, 1)
  BY <1>1, IncidentAll
<1>3. ASSUME Has(m, f, spine_vid(m, t, 0)), Has(m, f, spine_vid(m, t, 1))
      PROVE  FALSE
  <2>1. \E i \in 1 .. Len(U) : f = U[i].f
    BY <1>1, <1>3, IncidentAll DEF Has
  <2> QED
    BY <1>1, <2>1 DEF Gone
<1>4. \A x : Has(r, f, x) <=> \E k \in Locals : merge(m, t, m.fv[f][k]) = x
  BY <1>1 DEF Has
<1>5. \A x : (\E k \in Locals : merge(m, t, m.fv[f][k]) = x) <=>
                \/ x # spine_vid(m, t, 0) /\ Has(m, f, x)
                \/ x = spine_vid(m, t, 1) /\ Has(m, f, spine_vid(m, t, 0))
  BY <1>2 DEF Has, merge
<1> QED
  BY <1>2, <1>3, <1>4, <1>5

\* The corners opposite the edge, and the ends of the ears.
LEMMA Opps ==
    ASSUME NEW m, Manifold(m), NEW t \in Tuples(m), NEW i \in 1 .. Len(Fan(m, t))
    PROVE  LET u == Fan(m, t)[i]
           IN  /\ opp(m, u) \in vertices(m) /\ u.f \in faces(m) /\ Has(m, u.f, opp(m, u))
               /\ \A j \in Sides : /\ opp(m, u) # spine_vid(m, t, j) /\ spine_vid(m, t, j) \in vertices(m)
                                   /\ Has(m, u.f, spine_vid(m, t, j))
               /\ \A j \in Sides : \A f \in faces(m), k \in Locals :
                     m.fe[f][k] = ear(m, u, j) <=> ends(m, f, k) = {spine_vid(m, t, j), opp(m, u)}
<1> DEFINE u == Fan(m, t)[i]
<1>1. IsWedge(m, t, u)
  BY Wedges
<1> HIDE DEF u
<1>2. /\ u.f \in faces(m) /\ u.e \in Locals
      /\ \A j \in Sides : /\ pos(u, j) \in Locals /\ pos(u, j) # u.e /\ pos(u, j) # pos(u, 1 - j)
                          /\ m.fv[u.f][pos(u, j)] = spine_vid(m, t, j)
                          /\ opp(m, u) # spine_vid(m, t, j)
  BY <1>1 DEF IsWedge, opp
<1>3. \A f \in faces(m), k \in Locals : m.fv[f][k] \in vertices(m)
  BY Rows DEF Manifold
<1>4. /\ opp(m, u) \in vertices(m) /\ Has(m, u.f, opp(m, u))
      /\ \A j \in Sides : spine_vid(m, t, j) \in vertices(m) /\ Has(m, u.f, spine_vid(m, t, j))
  BY <1>2, <1>3 DEF opp, Has
<1>5. ASSUME NEW j \in Sides
      PROVE  \A f \in faces(m), k \in Locals :
                m.fe[f][k] = ear(m, u, j) <=> ends(m, f, k) = {spine_vid(m, t, j), opp(m, u)}
  <2>1. 1 - j \in Sides /\ 1 - (1 - j) = j
    BY DEF Sides
  <2>2. ends(m, u.f, pos(u, 1 - j)) = {spine_vid(m, t, j), opp(m, u)}
    <3>1. /\ pos(u, 1 - j) \in Locals /\ pos(u, j) \in Locals /\ u.e \in Locals
          /\ pos(u, j) # u.e /\ pos(u, j) # pos(u, 1 - j) /\ u.e # pos(u, 1 - j)
      BY <1>2, <2>1
    <3> QED
      BY <1>2, <3>1, EndsPair DEF opp
  <2>3. \A f \in faces(m), k \in Locals :
           m.fe[f][k] = m.fe[u.f][pos(u, 1 - j)] <=> ends(m, f, k) = ends(m, u.f, pos(u, 1 - j))
    BY <1>2, <2>1 DEF Manifold, EdgesAgree
  <2> QED
    BY <2>2, <2>3 DEF ear
<1> QED
  BY <1>2, <1>4, <1>5 DEF u

\* The ends of an edge that stays, before the collapse and after it.
LEMMA CollapseSide ==
    ASSUME NEW m, Manifold(m), NEW t, NEW r, NEW U, IsCollapse(r, m, t, U),
           NEW f \in faces(r), NEW k \in Locals
    PROVE  \E p, q : /\ p # q /\ {p, q} # {spine_vid(m, t, 0), spine_vid(m, t, 1)}
                     /\ Has(m, f, p) /\ Has(m, f, q) /\ ends(m, f, k) = {p, q}
                     /\ ends(r, f, k) = {merge(m, t, p), merge(m, t, q)}
<1>1. PICK i, j \in Locals : i # j /\ i # k /\ j # k
  BY OtherLocals
<1> DEFINE p == m.fv[f][i]
           q == m.fv[f][j]
<1>2. f \in faces(m) /\ r.fv[f][i] = merge(m, t, p) /\ r.fv[f][j] = merge(m, t, q)
  BY <1>1 DEF IsCollapse
<1>3. p # q
  BY <1>1, <1>2 DEF Manifold, Corners
<1>4. Has(m, f, p) /\ Has(m, f, q)
  BY <1>1 DEF Has
<1>5. ends(m, f, k) = {p, q} /\ ends(r, f, k) = {r.fv[f][i], r.fv[f][j]}
  BY <1>1, EndsPair
<1>6. {p, q} # {spine_vid(m, t, 0), spine_vid(m, t, 1)}
  <2>1. ~(Has(m, f, spine_vid(m, t, 0)) /\ Has(m, f, spine_vid(m, t, 1)))
    BY CollapseHas
  <2> HIDE DEF p, q
  <2> QED
    BY <1>4, <2>1
<1> QED
  BY <1>2, <1>3, <1>4, <1>5, <1>6

\* After a collapse, places have one edge id if and only if they have the same ends.
LEMMA CollapseEdgesAgree ==
    ASSUME NEW m, Manifold(m), NEW t, NEW r, NEW U, IsCollapse(r, m, t, U)
    PROVE  EdgesAgree(r)
<1> DEFINE I == 1 .. Len(U)
           a == spine_vid(m, t, 0)
           b == spine_vid(m, t, 1)
           o(i) == opp(m, U[i])
<1>1. t \in Tuples(m) /\ U = Fan(m, t) /\ LinkHolds(m, t) /\ 0 \in Sides /\ 1 \in Sides /\ Sides = {0, 1}
  BY DEF IsCollapse, Sides
<1>2. ASSUME NEW f \in faces(r), NEW k \in Locals
      PROVE  /\ f \in faces(m)
             /\ \A i \in I, j \in Sides : m.fe[f][k] = ear(m, U[i], j) => r.fe[f][k] = ear(m, U[i], 1)
             /\ (\A i \in I, j \in Sides : m.fe[f][k] # ear(m, U[i], j)) => r.fe[f][k] = m.fe[f][k]
             /\ \A i \in I : /\ m.fe[f][k] = ear(m, U[i], 0) <=> ends(m, f, k) = {a, o(i)}
                             /\ m.fe[f][k] = ear(m, U[i], 1) <=> ends(m, f, k) = {b, o(i)}
  <2>1. f \in faces(m)
    BY <1>1, EarPlaces
  <2>2. \A i \in I : /\ m.fe[f][k] = ear(m, U[i], 0) <=> ends(m, f, k) = {a, o(i)}
                     /\ m.fe[f][k] = ear(m, U[i], 1) <=> ends(m, f, k) = {b, o(i)}
    BY <1>1, <2>1, Opps
  <2> QED
    BY <2>1, <2>2, EarPlaces
<1>3. \A i, k \in I, j, l \in Sides : ear(m, U[i], j) = ear(m, U[k], l) => i = k /\ j = l
  BY <1>1, EarsApart
<1>4. a # b /\ \A i \in I : o(i) # a /\ o(i) # b
  <2>1. \A i \in I : o(i) # a /\ o(i) # b
    BY <1>1, Opps
  <2> QED
    BY <1>1, <2>1, IncidentAll
<1>5. \A x : (\E f \in star(m, a) : Has(m, f, x)) /\ (\E g \in star(m, b) : Has(m, g, x))
                    /\ x # a /\ x # b => \E i \in I : x = o(i)
  BY <1>1 DEF LinkHolds, opp
<1>6. \A x : merge(m, t, x) = IF x = a THEN b ELSE x
  BY DEF merge
<1> SUFFICES ASSUME NEW f \in faces(r), NEW g \in faces(r), NEW k \in Locals, NEW l \in Locals
             PROVE  r.fe[f][k] = r.fe[g][l] <=> ends(r, f, k) = ends(r, g, l)
  BY DEF EdgesAgree
<1>7. PICK p, q : /\ p # q /\ {p, q} # {a, b} /\ Has(m, f, p) /\ Has(m, f, q)
                  /\ ends(m, f, k) = {p, q} /\ ends(r, f, k) = {merge(m, t, p), merge(m, t, q)}
  BY ONLY CollapseSide, Manifold(m), IsCollapse(r, m, t, U), f \in faces(r), k \in Locals
<1>8. PICK x, y : /\ x # y /\ {x, y} # {a, b} /\ Has(m, g, x) /\ Has(m, g, y)
                  /\ ends(m, g, l) = {x, y} /\ ends(r, g, l) = {merge(m, t, x), merge(m, t, y)}
  BY ONLY CollapseSide, Manifold(m), IsCollapse(r, m, t, U), g \in faces(r), l \in Locals
<1>9. f \in faces(m) /\ g \in faces(m)
  BY <1>2
<1>10. m.fe[f][k] = m.fe[g][l] <=> ends(m, f, k) = ends(m, g, l)
  BY <1>9 DEF Manifold, EdgesAgree
<1> HIDE DEF a, b, o, I
<1>11. ASSUME m.fe[f][k] = m.fe[g][l]
       PROVE  r.fe[f][k] = r.fe[g][l] /\ ends(r, f, k) = ends(r, g, l)
  <2>1. {p, q} = {x, y}
    BY <1>7, <1>8, <1>10, <1>11
  <2>2. ends(r, f, k) = ends(r, g, l)
    BY <1>7, <1>8, <2>1
  <2>3. CASE \E i \in I, j \in Sides : m.fe[f][k] = ear(m, U[i], j)
    <3>1. PICK i \in I, j \in Sides : m.fe[f][k] = ear(m, U[i], j)
      BY <2>3
    <3>2. m.fe[g][l] = ear(m, U[i], j)
      BY <1>11, <3>1
    <3>3. r.fe[f][k] = ear(m, U[i], 1)
      BY <1>2, <3>1
    <3>4. r.fe[g][l] = ear(m, U[i], 1)
      BY <1>2, <3>2
    <3> QED
      BY <2>2, <3>3, <3>4
  <2>4. CASE \A i \in I, j \in Sides : m.fe[f][k] # ear(m, U[i], j)
    BY <1>2, <1>11, <2>2, <2>4
  <2> QED
    BY <2>3, <2>4
<1>12. ASSUME m.fe[f][k] # m.fe[g][l], r.fe[f][k] = r.fe[g][l]
       PROVE  ends(r, f, k) = ends(r, g, l)
  <2>1. CASE \E i \in I, j \in Sides : m.fe[f][k] = ear(m, U[i], j)
    <3>1. PICK i \in I, j \in Sides : m.fe[f][k] = ear(m, U[i], j)
      BY <2>1
    <3>2. r.fe[g][l] = ear(m, U[i], 1)
      BY <1>2, <1>12, <3>1
    <3>3. \E h \in Sides : m.fe[g][l] = ear(m, U[i], h)
      <4>1. CASE \E s \in I, h \in Sides : m.fe[g][l] = ear(m, U[s], h)
        BY <1>1, <1>2, <1>3, <3>2, <4>1
      <4>2. CASE \A s \in I, h \in Sides : m.fe[g][l] # ear(m, U[s], h)
        BY <1>1, <1>2, <3>2, <4>2
      <4> QED
        BY <4>1, <4>2
    <3>4. ends(m, f, k) = {a, o(i)} \/ ends(m, f, k) = {b, o(i)}
      BY <1>1, <1>2, <3>1
    <3>5. ends(m, g, l) = {a, o(i)} \/ ends(m, g, l) = {b, o(i)}
      BY <1>1, <1>2, <3>3
    <3>6. ends(r, f, k) = {b, o(i)}
      BY ONLY <1>4, <1>6, <1>7, <3>4
    <3>7. ends(r, g, l) = {b, o(i)}
      BY ONLY <1>4, <1>6, <1>8, <3>5
    <3> QED
      BY <3>6, <3>7
  <2>2. CASE \A i \in I, j \in Sides : m.fe[f][k] # ear(m, U[i], j)
    <3>1. r.fe[f][k] = m.fe[f][k]
      BY <1>2, <2>2
    <3>2. CASE \E i \in I, j \in Sides : m.fe[g][l] = ear(m, U[i], j)
      <4>1. PICK i \in I : r.fe[g][l] = ear(m, U[i], 1)
        BY <1>2, <3>2
      <4> QED
        BY <1>1, <1>12, <2>2, <3>1, <4>1
    <3>3. CASE \A i \in I, j \in Sides : m.fe[g][l] # ear(m, U[i], j)
      BY <1>2, <1>12, <3>1, <3>3
    <3> QED
      BY <3>2, <3>3
  <2> QED
    BY <2>1, <2>2
\* Edges of the old mesh that become one are the ears of one face.
<1>13. ASSUME m.fe[f][k] # m.fe[g][l], ends(r, f, k) = ends(r, g, l)
       PROVE  r.fe[f][k] = r.fe[g][l]
  <2>1. {p, q} # {x, y} /\ {merge(m, t, p), merge(m, t, q)} = {merge(m, t, x), merge(m, t, y)}
    BY <1>7, <1>8, <1>10, <1>13
  <2>2. \E z : /\ z # a /\ z # b
               /\ \/ {p, q} = {a, z} /\ {x, y} = {b, z}
                  \/ {p, q} = {b, z} /\ {x, y} = {a, z}
    <3>1. /\ p # q /\ x # y /\ {p, q} # {a, b} /\ {x, y} # {a, b}
      BY <1>7, <1>8
    <3> QED
      BY ONLY <1>6, <2>1, <3>1
  <2>3. PICK z : /\ z # a /\ z # b
                 /\ \/ {p, q} = {a, z} /\ {x, y} = {b, z}
                    \/ {p, q} = {b, z} /\ {x, y} = {a, z}
    BY <2>2
  <2>4. \E i \in I : z = o(i)
    <3>1. \A h \in faces(m) : \A v : Has(m, h, v) => h \in star(m, v)
      BY DEF star, Has
    <3>2. /\ \A v \in {p, q} : Has(m, f, v)
          /\ \A v \in {x, y} : Has(m, g, v)
      BY <1>7, <1>8
    <3>3. CASE {p, q} = {a, z} /\ {x, y} = {b, z}
      <4>1. f \in star(m, a) /\ g \in star(m, b) /\ Has(m, f, z) /\ Has(m, g, z)
        BY <1>9, <3>1, <3>2, <3>3
      <4> QED
        BY <1>5, <2>3, <4>1
    <3>4. CASE {p, q} = {b, z} /\ {x, y} = {a, z}
      <4>1. g \in star(m, a) /\ f \in star(m, b) /\ Has(m, f, z) /\ Has(m, g, z)
        BY <1>9, <3>1, <3>2, <3>4
      <4> QED
        BY <1>5, <2>3, <4>1
    <3> QED
      BY <2>3, <3>3, <3>4
  <2>5. PICK i \in I : z = o(i)
    BY <2>4
  <2>6. /\ \/ ends(m, f, k) = {a, o(i)}
           \/ ends(m, f, k) = {b, o(i)}
        /\ \/ ends(m, g, l) = {a, o(i)}
           \/ ends(m, g, l) = {b, o(i)}
    BY <1>7, <1>8, <2>3, <2>5
  <2>7. r.fe[f][k] = ear(m, U[i], 1)
    BY <1>1, <1>2, <2>6
  <2>8. r.fe[g][l] = ear(m, U[i], 1)
    BY <1>1, <1>2, <2>6
  <2> QED
    BY <2>7, <2>8
<1> QED
  BY <1>11, <1>12, <1>13

\* After a collapse, faces have three corners each, and no two faces have the same.
LEMMA CollapseCorners ==
    ASSUME NEW m, Manifold(m), NEW t, NEW r, NEW U, IsCollapse(r, m, t, U)
    PROVE  Corners(r)
<1> DEFINE a == spine_vid(m, t, 0)
           b == spine_vid(m, t, 1)
<1>1. \A f \in faces(r) :
         /\ f \in faces(m) /\ \A k \in Locals : r.fv[f][k] = merge(m, t, m.fv[f][k])
         /\ \A x : Has(r, f, x) <=> (x # a /\ Has(m, f, x)) \/ (x = b /\ Has(m, f, a))
         /\ ~(Has(m, f, a) /\ Has(m, f, b)) /\ a # b
  <2>1. ASSUME NEW f \in faces(r)
        PROVE  /\ f \in faces(m) /\ \A k \in Locals : r.fv[f][k] = merge(m, t, m.fv[f][k])
               /\ \A x : Has(r, f, x) <=> (x # a /\ Has(m, f, x)) \/ (x = b /\ Has(m, f, a))
               /\ ~(Has(m, f, a) /\ Has(m, f, b)) /\ a # b
    <3>1. f \in faces(m) /\ \A k \in Locals : r.fv[f][k] = merge(m, t, m.fv[f][k])
      BY DEF IsCollapse
    <3> QED
      BY <3>1, CollapseHas
  <2> QED
    BY <2>1
<1>2. \A f, g \in faces(m) : (\A x : Has(m, f, x) => Has(m, g, x)) => f = g
  <2>1. \A f, g \in faces(m) :
           (\A i \in Locals : \E j \in Locals : m.fv[f][i] = m.fv[g][j]) => f = g
    BY DEF Manifold, Corners
  <2>2. \A f, g : (\A x : Has(m, f, x) => Has(m, g, x)) =>
                     \A i \in Locals : \E j \in Locals : m.fv[f][i] = m.fv[g][j]
    <3>1. ASSUME NEW f, NEW g, \A x : Has(m, f, x) => Has(m, g, x), NEW i \in Locals
          PROVE  \E j \in Locals : m.fv[f][i] = m.fv[g][j]
      <4>1. Has(m, f, m.fv[f][i])
        BY DEF Has
      <4>2. Has(m, g, m.fv[f][i])
        BY <3>1, <4>1
      <4> QED
        BY <4>2 DEF Has
    <3> QED
      BY <3>1
  <2> QED
    BY <2>1, <2>2
<1>3. \A f \in star(m, a), g \in star(m, b) : \A x, y :
         Has(m, f, x) /\ Has(m, g, x) /\ Has(m, f, y) /\ Has(m, g, y)
             /\ x \notin {a, b} /\ y \notin {a, b} => x = y
  BY DEF IsCollapse, LinkHolds
<1>4. \A f \in faces(m) : \A x : Has(m, f, x) <=> f \in star(m, x)
  BY DEF star, Has
<1>5. ASSUME NEW f \in faces(r), NEW i \in Locals, NEW j \in Locals, r.fv[f][i] = r.fv[f][j]
      PROVE  i = j
  <2>1. m.fv[f][i] = m.fv[f][j] \/ (Has(m, f, a) /\ Has(m, f, b))
    <3>1. merge(m, t, m.fv[f][i]) = merge(m, t, m.fv[f][j])
      BY <1>1, <1>5
    <3>2. Has(m, f, m.fv[f][i]) /\ Has(m, f, m.fv[f][j])
      BY DEF Has
    <3> QED
      BY <3>1, <3>2 DEF merge
  <2>2. m.fv[f][i] = m.fv[f][j] /\ f \in faces(m)
    BY <1>1, <2>1
  <2> QED
    BY <2>2 DEF Manifold, Corners
\* A face with two vertices besides v.
<1>6. \A f \in faces(m) : \A v : \E x, y : x # y /\ x # v /\ y # v /\ Has(m, f, x) /\ Has(m, f, y)
  <2> SUFFICES ASSUME NEW f \in faces(m), NEW v
               PROVE  \E x, y : x # y /\ x # v /\ y # v /\ Has(m, f, x) /\ Has(m, f, y)
    OBVIOUS
  <2>1. \E k \in Locals : \A l \in Locals : m.fv[f][l] = v => l = k
    <3>1. 0 \in Locals
      BY DEF Locals
    <3> QED
      BY <3>1 DEF Manifold, Corners
  <2>2. PICK k \in Locals : \A l \in Locals : m.fv[f][l] = v => l = k
    BY <2>1
  <2>3. PICK i, j \in Locals : i # j /\ i # k /\ j # k
    BY OtherLocals
  <2>4. m.fv[f][i] # m.fv[f][j]
    BY <2>3 DEF Manifold, Corners
  <2> QED
    BY <2>2, <2>3, <2>4 DEF Has
<1> HIDE DEF a, b
<1>7. ASSUME NEW f \in faces(r), NEW g \in faces(r), \A x : Has(r, f, x) => Has(r, g, x)
      PROVE  f = g
  <2>1. \A x : x # a /\ x # b /\ Has(m, f, x) => Has(m, g, x)
    BY <1>1, <1>7
  <2>2. CASE ~Has(m, f, a) /\ ~Has(m, f, b)
    <3>1. \A x : Has(m, f, x) => Has(m, g, x)
      BY <2>1, <2>2
    <3> QED
      BY <1>1, <1>2, <3>1
  <2>3. CASE Has(m, f, a)
    <3>1. Has(m, g, a) \/ Has(m, g, b)
      BY <1>1, <1>7, <2>3
    <3>2. CASE Has(m, g, a)
      <4>1. \A x : Has(m, f, x) => Has(m, g, x)
        BY <1>1, <2>1, <2>3, <3>2
      <4> QED
        BY <1>1, <1>2, <4>1
    <3>3. CASE Has(m, g, b)
      <4>1. PICK x, y : x # y /\ x # a /\ y # a /\ Has(m, f, x) /\ Has(m, f, y)
        BY <1>1, <1>6
      <4>2. x # b /\ y # b
        BY <1>1, <2>3, <4>1
      <4>3. Has(m, g, x) /\ Has(m, g, y)
        BY <2>1, <4>1, <4>2
      <4> QED
        BY <1>1, <1>3, <1>4, <2>3, <3>3, <4>1, <4>2, <4>3
    <3> QED
      BY <3>1, <3>2, <3>3
  <2>4. CASE Has(m, f, b)
    <3>1. Has(m, g, a) \/ Has(m, g, b)
      BY <1>1, <1>7, <2>4
    <3>2. CASE Has(m, g, b)
      <4>1. \A x : Has(m, f, x) => Has(m, g, x)
        BY <1>1, <2>1, <2>4, <3>2
      <4> QED
        BY <1>1, <1>2, <4>1
    <3>3. CASE Has(m, g, a)
      <4>1. PICK x, y : x # y /\ x # b /\ y # b /\ Has(m, f, x) /\ Has(m, f, y)
        BY <1>1, <1>6
      <4>2. x # a /\ y # a
        BY <1>1, <2>4, <4>1
      <4>3. Has(m, g, x) /\ Has(m, g, y)
        BY <2>1, <4>1, <4>2
      <4> QED
        BY <1>1, <1>3, <1>4, <2>4, <3>3, <4>1, <4>2, <4>3
    <3> QED
      BY <3>1, <3>2, <3>3
  <2> QED
    BY <2>2, <2>3, <2>4
<1>8. ASSUME NEW f \in faces(r), NEW g \in faces(r),
             \A i \in Locals : \E j \in Locals : r.fv[f][i] = r.fv[g][j]
      PROVE  f = g
  <2>1. \A x : Has(r, f, x) => Has(r, g, x)
    BY <1>8 DEF Has
  <2> QED
    BY <1>7, <2>1
<1> QED
  BY <1>5, <1>8 DEF Corners

\* What is behind an ear stays, and has the edge of the ear.
LEMMA BehindStays ==
    ASSUME NEW m, Manifold(m), NEW t, NEW r, NEW U, IsCollapse(r, m, t, U),
           NEW i \in 1 .. Len(U), NEW j \in Sides, behind(m, U[i], j) # Null
    PROVE  /\ behind(m, U[i], j) \in faces(r) /\ glue(m, U[i], j) \in Locals
           /\ m.fe[behind(m, U[i], j)][glue(m, U[i], j)] = ear(m, U[i], j)
           /\ behind(m, U[i], 1 - j) # behind(m, U[i], j)
<1>1. IsEar(m, t, U[i], j) /\ t \in Tuples(m) /\ U = Fan(m, t)
  BY DEF IsCollapse, IsWedge
<1>2. behind(m, U[i], 0) # Null => behind(m, U[i], 0) # behind(m, U[i], 1)
  BY <1>1, BehindDiffer
<1>3. (j = 0 /\ 1 - j = 1) \/ (j = 1 /\ 1 - j = 0)
  BY DEF Sides
<1>4. behind(m, U[i], 1 - j) # behind(m, U[i], j)
  BY <1>2, <1>3
<1> QED
  BY <1>1, <1>4 DEF IsEar, IsCollapse

\* After a collapse, a neighbour is another face of the mesh and has the edge.
LEMMA CollapseAcross ==
    ASSUME NEW m, Manifold(m), NEW t, NEW r, NEW U, IsCollapse(r, m, t, U),
           NEW f \in faces(r), NEW k \in Locals, r.ff[f][k] # Null
    PROVE  /\ r.ff[f][k] \in faces(r) /\ r.ff[f][k] # f
           /\ \E j \in Locals : r.fe[r.ff[f][k]][j] = r.fe[f][k]
<1>1. CASE \E i \in 1 .. Len(U), j \in Sides : m.fe[f][k] = ear(m, U[i], j)
  <2>1. PICK i \in 1 .. Len(U), j \in Sides : m.fe[f][k] = ear(m, U[i], j)
    BY <1>1
  <2> DEFINE g == behind(m, U[i], 1 - j)
             l == glue(m, U[i], 1 - j)
  <2>2. r.fe[f][k] = ear(m, U[i], 1) /\ r.ff[f][k] = g /\ f = behind(m, U[i], j)
    BY <2>1, EarPlaces
  <2>3. 1 - j \in Sides /\ 1 - (1 - j) = j
    BY DEF Sides
  <2>4. g \in faces(r) /\ l \in Locals /\ m.fe[g][l] = ear(m, U[i], 1 - j) /\ g # f
    BY <2>2, <2>3, BehindStays
  <2>5. r.fe[g][l] = ear(m, U[i], 1)
    BY <2>3, <2>4, EarPlaces
  <2> QED
    BY <2>2, <2>4, <2>5
<1>2. CASE \A i \in 1 .. Len(U), j \in Sides : m.fe[f][k] # ear(m, U[i], j)
  <2> DEFINE g == m.ff[f][k]
  <2>1. r.fe[f][k] = m.fe[f][k] /\ r.ff[f][k] = g /\ f \in faces(m) /\ g \notin Gone(m, t)
    BY <1>2, EarPlaces
  <2>2. g \in faces(m) /\ g # f /\ \E j \in Locals : m.fe[g][j] = m.fe[f][k]
    BY <2>1, MateOf
  <2>3. g \in faces(r)
    BY <2>1, <2>2 DEF IsCollapse
  <2>4. PICK j \in Locals : m.fe[g][j] = m.fe[f][k]
    BY <2>2
  <2>5. r.fe[g][j] = m.fe[g][j]
    BY <1>2, <2>3, <2>4, EarPlaces
  <2> QED
    BY <2>1, <2>2, <2>3, <2>4, <2>5
<1> QED
  BY <1>1, <1>2

\* After a collapse, two faces at an edge, and no others, are neighbours across it.
LEMMA CollapseMates ==
    ASSUME NEW m, Manifold(m), NEW t, NEW r, NEW U, IsCollapse(r, m, t, U)
    PROVE  Mates(r)
<1> SUFFICES ASSUME NEW f \in faces(r), NEW g \in faces(r), NEW k \in Locals, NEW l \in Locals,
                    r.fe[f][k] = r.fe[g][l]
             PROVE  (f = g /\ k = l) \/ r.ff[f][k] = g
  BY DEF Mates, IsCollapse
<1>0. 1 \in Sides /\ t \in Tuples(m) /\ U = Fan(m, t)
  BY DEF Sides, IsCollapse
<1>1. \A i, h \in 1 .. Len(U), j, s \in Sides : ear(m, U[i], j) = ear(m, U[h], s) => i = h /\ j = s
  BY <1>0, EarsApart
<1>2. CASE \E i \in 1 .. Len(U), j \in Sides : m.fe[f][k] = ear(m, U[i], j)
  <2>1. PICK i \in 1 .. Len(U), j \in Sides : m.fe[f][k] = ear(m, U[i], j)
    BY <1>2
  <2>2. /\ r.fe[f][k] = ear(m, U[i], 1) /\ r.ff[f][k] = behind(m, U[i], 1 - j)
        /\ f = behind(m, U[i], j) /\ k = glue(m, U[i], j)
    BY <2>1, EarPlaces
  <2>3. \E s \in Sides : m.fe[g][l] = ear(m, U[i], s)
    <3>1. CASE \E h \in 1 .. Len(U), s \in Sides : m.fe[g][l] = ear(m, U[h], s)
      <4>1. PICK h \in 1 .. Len(U), s \in Sides : m.fe[g][l] = ear(m, U[h], s)
        BY <3>1
      <4>2. r.fe[g][l] = ear(m, U[h], 1)
        BY <4>1, EarPlaces
      <4>3. ear(m, U[i], 1) = ear(m, U[h], 1)
        BY <1>0, <2>2, <4>2
      <4>4. i = h
        BY <1>0, <1>1, <4>3
      <4> QED
        BY <4>1, <4>4
    <3>2. CASE \A h \in 1 .. Len(U), s \in Sides : m.fe[g][l] # ear(m, U[h], s)
      <4>1. r.fe[g][l] = m.fe[g][l]
        BY <3>2, EarPlaces
      <4> QED
        BY <1>0, <2>2, <3>2, <4>1
    <3> QED
      BY <3>1, <3>2
  <2>4. PICK s \in Sides : m.fe[g][l] = ear(m, U[i], s)
    BY <2>3
  <2>5. g = behind(m, U[i], s) /\ l = glue(m, U[i], s)
    BY <2>4, EarPlaces
  <2>6. s = j \/ s = 1 - j
    BY DEF Sides
  <2> QED
    BY <2>2, <2>5, <2>6
<1>3. CASE \A i \in 1 .. Len(U), j \in Sides : m.fe[f][k] # ear(m, U[i], j)
  <2>1. r.fe[f][k] = m.fe[f][k] /\ r.ff[f][k] = m.ff[f][k] /\ f \in faces(m)
    BY <1>3, EarPlaces
  <2>2. \A i \in 1 .. Len(U), j \in Sides : m.fe[g][l] # ear(m, U[i], j)
    <3>1. ASSUME NEW i \in 1 .. Len(U), NEW j \in Sides, m.fe[g][l] = ear(m, U[i], j)
          PROVE  FALSE
      <4>1. r.fe[g][l] = ear(m, U[i], 1)
        BY <3>1, EarPlaces
      <4> QED
        BY <1>0, <1>3, <2>1, <4>1
    <3> QED
      BY <3>1
  <2>3. r.fe[g][l] = m.fe[g][l] /\ g \in faces(m)
    BY <2>2, EarPlaces
  <2>4. m.fe[f][k] = m.fe[g][l]
    BY <2>1, <2>3
  <2>5. (f = g /\ k = l) \/ m.ff[f][k] = g
    BY <2>1, <2>3, <2>4 DEF Manifold, Mates
  <2> QED
    BY <2>1, <2>5
<1> QED
  BY <1>2, <1>3

\* The face that the merged ear of an incident face is named for has the end
\* that stays, and the corner opposite the edge.
LEMMA MergedFace ==
    ASSUME NEW m, Manifold(m), NEW t, NEW r, NEW U, IsCollapse(r, m, t, U),
           NEW i \in 1 .. Len(U), NEW j \in Sides, behind(m, U[i], j) # Null
    PROVE  LET g == behind(m, U[i], j)
           IN  /\ g \in faces(r) /\ Has(r, g, spine_vid(m, t, 1)) /\ Has(r, g, opp(m, U[i]))
               /\ \E k \in Locals : r.fe[g][k] = ear(m, U[i], 1)
<1> DEFINE g == behind(m, U[i], j)
           l == glue(m, U[i], j)
           o == opp(m, U[i])
           b == spine_vid(m, t, 1)
<1>1. /\ g \in faces(r) /\ l \in Locals /\ m.fe[g][l] = ear(m, U[i], j)
  BY BehindStays
<1>2. t \in Tuples(m) /\ U = Fan(m, t) /\ g \in faces(m)
  BY <1>1 DEF IsCollapse
<1>3. /\ ends(m, g, l) = {spine_vid(m, t, j), o} /\ o # spine_vid(m, t, 0)
  <2>1. 0 \in Sides
    BY DEF Sides
  <2> QED
    BY <1>1, <1>2, <2>1, Opps
<1>4. Has(m, g, spine_vid(m, t, j)) /\ Has(m, g, o)
  <2>1. spine_vid(m, t, j) \in ends(m, g, l) /\ o \in ends(m, g, l)
    BY <1>3
  <2> QED
    BY <2>1 DEF ends, Has
<1>5. j = 0 \/ j = 1
  BY DEF Sides
<1>6. /\ \A x : Has(r, g, x) <=> \/ x # spine_vid(m, t, 0) /\ Has(m, g, x)
                                 \/ x = spine_vid(m, t, 1) /\ Has(m, g, spine_vid(m, t, 0))
      /\ spine_vid(m, t, 0) # spine_vid(m, t, 1)
  BY <1>1, CollapseHas
<1>7. r.fe[g][l] = ear(m, U[i], 1)
  BY <1>1, EarPlaces
<1> HIDE DEF g, l, o
<1> QED
  BY <1>1, <1>3, <1>4, <1>5, <1>6, <1>7 DEF g, o

\* After a collapse, each vertex and each edge names a face that has it.
LEMMA CollapseNamed ==
    ASSUME NEW m, Manifold(m), NEW t, NEW r, NEW U, IsCollapse(r, m, t, U), CollapseTables(r, m, t)
    PROVE  /\ \A v \in vertices(r) :
                 r.vf[v] \in faces(r) /\ \E k \in Locals : r.fv[r.vf[v]][k] = v
           /\ \A e \in edges(r) :
                 r.ef[e] \in faces(r) /\ \E k \in Locals : r.fe[r.ef[e]][k] = e
<1> DEFINE I == 1 .. Len(U)
           a == spine_vid(m, t, 0)
           b == spine_vid(m, t, 1)
           o(i) == opp(m, U[i])
           x(i) == IF behind(m, U[i], 1) = Null THEN behind(m, U[i], 0) ELSE behind(m, U[i], 1)
<1>1. /\ t \in Tuples(m) /\ U = Fan(m, t) /\ faces(r) = faces(m) \ Gone(m, t)
      /\ 0 \in Sides /\ 1 \in Sides /\ Sides = {0, 1}
  BY DEF IsCollapse, Sides
<1>2. /\ vertices(r) = vertices(m) \ {a}
      /\ edges(r) = edges(m) \ ({id_edge(m, t)} \cup MergedEars(m, t))
      /\ \A i \in I : r.ef[ear(m, U[i], 1)] = x(i) /\ r.vf[o(i)] = merged(m, U[i])
      /\ \E i \in I : r.vf[b] = merged(m, U[i])
      /\ \A e \in edges(r) : (\A i \in I : e # ear(m, U[i], 1)) => r.ef[e] = m.ef[e]
      /\ \A v \in vertices(r) : v # b /\ (\A i \in I : v # o(i)) => r.vf[v] = m.vf[v]
  BY <1>1 DEF CollapseTables, opp
<1>3. \A i \in I : behind(m, U[i], 0) # Null \/ behind(m, U[i], 1) # Null
  BY DEF IsCollapse, LinkHolds
<1>4. \A i \in I : \A g : g \in {merged(m, U[i]), x(i)} =>
         /\ g \in faces(r) /\ Has(r, g, b) /\ Has(r, g, o(i))
         /\ \E k \in Locals : r.fe[g][k] = ear(m, U[i], 1)
  <2> SUFFICES ASSUME NEW i \in I, NEW g, g \in {merged(m, U[i]), x(i)}
               PROVE  /\ g \in faces(r) /\ Has(r, g, b) /\ Has(r, g, o(i))
                      /\ \E k \in Locals : r.fe[g][k] = ear(m, U[i], 1)
    OBVIOUS
  <2>1. \E j \in Sides : g = behind(m, U[i], j) /\ behind(m, U[i], j) # Null
    BY <1>1, <1>3 DEF merged
  <2>2. PICK j \in Sides : g = behind(m, U[i], j) /\ behind(m, U[i], j) # Null
    BY <2>1
  <2> QED
    BY <2>2, MergedFace
<1> HIDE DEF a, b, o, x, I
<1>5. ASSUME NEW v \in vertices(r)
      PROVE  r.vf[v] \in faces(r) /\ Has(r, r.vf[v], v)
  <2>1. CASE v = b
    BY <1>2, <1>4, <2>1
  <2>2. CASE \E i \in I : v = o(i)
    BY <1>2, <1>4, <2>2
  <2>3. CASE v # b /\ \A i \in I : v # o(i)
    <3>1. v \in vertices(m) /\ v # a /\ r.vf[v] = m.vf[v]
      BY <1>2, <2>3
    <3>2. m.vf[v] \in faces(m) /\ \E k \in Locals : m.fv[m.vf[v]][k] = v
      BY <3>1, Rows DEF Manifold, Named
    <3>3. m.vf[v] \notin Gone(m, t)
      <4>1. ASSUME m.vf[v] \in Gone(m, t)
            PROVE  FALSE
        <5>1. PICK k \in Locals : m.fv[m.vf[v]][k] = v
          BY <3>2
        <5>2. \/ \E j \in Sides : m.fv[m.vf[v]][k] = spine_vid(m, t, j)
              \/ \E i \in I : m.fv[m.vf[v]][k] = o(i)
          BY <1>1, <4>1, GoneFace DEF o, opp, I
        <5> QED
          BY <1>1, <2>3, <3>1, <5>1, <5>2 DEF a, b
      <4> QED
        BY <4>1
    <3>4. m.vf[v] \in faces(r) /\ Has(m, m.vf[v], v)
      BY <1>1, <3>2, <3>3 DEF Has
    <3>5. Has(r, m.vf[v], v)
      BY <3>1, <3>4, CollapseHas DEF a
    <3> QED
      BY <3>1, <3>4, <3>5
  <2> QED
    BY <2>1, <2>2, <2>3
<1>6. ASSUME NEW e \in edges(r)
      PROVE  r.ef[e] \in faces(r) /\ \E k \in Locals : r.fe[r.ef[e]][k] = e
  <2>1. CASE \E i \in I : e = ear(m, U[i], 1)
    BY <1>2, <1>4, <2>1
  <2>2. CASE \A i \in I : e # ear(m, U[i], 1)
    <3>1. /\ e \in edges(m) /\ e # id_edge(m, t) /\ r.ef[e] = m.ef[e]
          /\ \A i \in I : e # ear(m, U[i], 0)
      BY <1>1, <1>2, <2>2 DEF MergedEars, I
    <3>2. m.ef[e] \in faces(m) /\ \E k \in Locals : m.fe[m.ef[e]][k] = e
      BY <3>1, Rows DEF Manifold, Named
    <3>3. PICK k \in Locals : m.fe[m.ef[e]][k] = e
      BY <3>2
    <3>4. m.ef[e] \notin Gone(m, t)
      <4>1. ASSUME m.ef[e] \in Gone(m, t)
            PROVE  FALSE
        <5>1. \/ m.fe[m.ef[e]][k] = id_edge(m, t)
              \/ \E i \in I, j \in Sides : m.fe[m.ef[e]][k] = ear(m, U[i], j)
          BY <1>1, <4>1, GoneFace DEF I
        <5> QED
          BY <1>1, <2>2, <3>1, <3>3, <5>1
      <4> QED
        BY <4>1
    <3>5. m.ef[e] \in faces(r)
      BY <1>1, <3>2, <3>4
    <3>6. \A i \in I, j \in Sides : m.fe[m.ef[e]][k] # ear(m, U[i], j)
      BY <1>1, <2>2, <3>1, <3>3
    <3>7. r.fe[m.ef[e]][k] = e
      BY <3>3, <3>5, <3>6, EarPlaces DEF I
    <3> QED
      BY <3>1, <3>5, <3>7
  <2> QED
    BY <2>1, <2>2
<1> QED
  BY <1>5, <1>6 DEF Has

\* After a collapse, the rows name simplices that are still there.
LEMMA CollapseRows ==
    ASSUME NEW m, Manifold(m), NEW t, NEW r, NEW U, IsCollapse(r, m, t, U), CollapseTables(r, m, t),
           NEW f \in faces(r), NEW k \in Locals
    PROVE  /\ r.fv[f][k] \in vertices(r) /\ r.fe[f][k] \in edges(r)
           /\ r.ff[f][k] \in faces(r) \cup {Null}
<1> DEFINE I == 1 .. Len(U)
           a == spine_vid(m, t, 0)
           b == spine_vid(m, t, 1)
<1>1. /\ t \in Tuples(m) /\ U = Fan(m, t) /\ 0 \in Sides /\ 1 \in Sides
  BY DEF IsCollapse, Sides
<1>2. /\ vertices(r) = vertices(m) \ {a}
      /\ edges(r) = edges(m) \ ({id_edge(m, t)} \cup MergedEars(m, t))
  BY DEF CollapseTables
<1>3. f \in faces(m) /\ m.fv[f][k] \in vertices(m) /\ m.fe[f][k] \in edges(m)
  BY Rows DEF Manifold, IsCollapse
<1>4. r.ff[f][k] \in faces(r) \cup {Null}
  BY CollapseAcross
<1>5. r.fv[f][k] \in vertices(r)
  <2>1. r.fv[f][k] = IF m.fv[f][k] = a THEN b ELSE m.fv[f][k]
    BY DEF IsCollapse, merge
  <2>2. a # b
    BY CollapseHas
  <2>3. 1 \in 1 .. Len(U)
    BY <1>1 DEF IsCollapse, IsFan
  <2>4. b \in vertices(m)
    BY <1>1, <2>3, Opps
  <2> QED
    BY <1>2, <1>3, <2>1, <2>2, <2>4
<1>6. r.fe[f][k] \in edges(r)
  <2>1. \A i, h \in I, j, s \in Sides : ear(m, U[i], j) = ear(m, U[h], s) => i = h /\ j = s
    BY <1>1, EarsApart
  <2>2. CASE \E i \in I, j \in Sides : m.fe[f][k] = ear(m, U[i], j)
    <3>1. PICK i \in I : r.fe[f][k] = ear(m, U[i], 1)
      BY <2>2, EarPlaces
    <3>2. ear(m, U[i], 1) \in edges(m) /\ ear(m, U[i], 1) # id_edge(m, t)
      <4>1. IsEar(m, t, U[i], 1)
        BY <1>1, Ears
      <4> QED
        BY <4>1 DEF IsEar
    <3>3. \A h \in I : ear(m, U[i], 1) # ear(m, U[h], 0)
      BY <1>1, <2>1
    <3> QED
      BY <1>1, <1>2, <3>1, <3>2, <3>3 DEF MergedEars
  <2>3. CASE \A i \in I, j \in Sides : m.fe[f][k] # ear(m, U[i], j)
    <3>1. r.fe[f][k] = m.fe[f][k] /\ m.fe[f][k] # id_edge(m, t)
      BY <2>3, EarPlaces
    <3> QED
      BY <1>1, <1>2, <1>3, <2>3, <3>1 DEF MergedEars
  <2> QED
    BY <2>2, <2>3
<1> QED
  BY <1>4, <1>5, <1>6
=============================================================================

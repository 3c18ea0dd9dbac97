----------------------------- MODULE EdgeProofs -----------------------------
(***************************************************************************)
(* Proofs about EdgeMesh.tla and EdgeScheduler.tla, for every bound, input *)
(* and order of the queue.  The inductive invariant of the mesh says of    *)
(* the half-edges, the pairs of an active edge and a side, what            *)
(* TablesAgree says of sets of them: two half-edges at one vertex name     *)
(* each other's edge, so no third one is there, and a named neighbour is   *)
(* at the vertex.  The invariant of the scheduler, in the second part,     *)
(* adds what is true in the middle of a run: the counters add up to what   *)
(* was done, and a pass without a success so far has every active edge     *)
(* attempted or queued.                                                    *)
(***************************************************************************)
EXTENDS EdgeScheduler, FiniteSetTheorems, FunctionTheorems, SequenceTheorems, TLAPS

\* Another half-edge than (e, j) at the vertex of (e, j).
Meets(m, e, j, f, k) == /\ m.ev[f][k] = m.ev[e][j]
                        /\ f # e \/ k # j

EndsActive(m) == \A e \in m.e, j \in Sides : m.ev[e][j] \in m.v
NamesOther(m, free) ==
    \A e, f \in m.e, j, k \in Sides :
        Meets(m, e, j, f, k) => ~free /\ m.ee[e][j] = f
OtherNamed(m, free) ==
    \A e \in m.e, j \in Sides : m.ee[e][j] # Null =>
        ~free /\ m.ee[e][j] \in m.e /\ \E k \in Sides : Meets(m, e, j, m.ee[e][j], k)
VertexEdge(m) == \A v \in m.v : m.ve[v] \in m.e /\ \E j \in Sides : m.ev[m.ve[v]][j] = v

Agree(m, free) ==
    EndsActive(m) /\ NamesOther(m, free) /\ OtherNamed(m, free) /\ VertexEdge(m)

\* The invariant, without and with the bounds on the capacities.
Sound ==
    /\ capacity \in [v : Nat, e : Nat] /\ is_free \in BOOLEAN
    /\ mesh \in MeshType(capacity) /\ Agree(mesh, is_free)

Inv == TypeOK /\ Agree(mesh, is_free)

-----------------------------------------------------------------------------
\* A mesh record has its components; an active edge has an entry in each table.
LEMMA MeshParts ==
    ASSUME NEW c \in [v : Nat, e : Nat], NEW m \in MeshType(c)
    PROVE  /\ m.v \subseteq 0 .. c.v - 1
           /\ m.e \subseteq 0 .. c.e - 1
           /\ \A e \in 0 .. c.e - 1, j \in Sides :
                 /\ m.ev[e][j] \in (0 .. c.v - 1) \cup {Null}
                 /\ m.ee[e][j] \in (0 .. c.e - 1) \cup {Null}
           /\ \A v \in 0 .. c.v - 1 : m.ve[v] \in (0 .. c.e - 1) \cup {Null}
           /\ DOMAIN m.ev = 0 .. c.e - 1
           /\ DOMAIN m.ee = 0 .. c.e - 1
           /\ DOMAIN m.ve = 0 .. c.v - 1
           /\ \A e \in 0 .. c.e - 1 : DOMAIN m.ev[e] = Sides /\ DOMAIN m.ee[e] = Sides
<1> DEFINE V == 0 .. c.v - 1
           E == 0 .. c.e - 1
<1>1. m \in [v : SUBSET V, e : SUBSET E, ev : [E -> [Sides -> V \cup {Null}]],
             ee : [E -> [Sides -> E \cup {Null}]], ve : [V -> E \cup {Null}]]
  BY DEF MeshType
<1> HIDE DEF V, E
<1>2. /\ m.v \subseteq V /\ m.e \subseteq E
      /\ m.ev \in [E -> [Sides -> V \cup {Null}]]
      /\ m.ee \in [E -> [Sides -> E \cup {Null}]]
      /\ m.ve \in [V -> E \cup {Null}]
  BY <1>1
<1>3. \A e \in E : m.ev[e] \in [Sides -> V \cup {Null}] /\ m.ee[e] \in [Sides -> E \cup {Null}]
  BY <1>2
<1>4. \A e \in E, j \in Sides : m.ev[e][j] \in V \cup {Null} /\ m.ee[e][j] \in E \cup {Null}
  BY <1>3
<1>5. \A v \in V : m.ve[v] \in E \cup {Null}
  BY <1>2
<1>6. DOMAIN m.ev = E /\ DOMAIN m.ee = E /\ DOMAIN m.ve = V
  BY <1>2
<1>7. \A e \in E : DOMAIN m.ev[e] = Sides /\ DOMAIN m.ee[e] = Sides
  BY <1>3
<1> QED
  BY <1>2, <1>4, <1>5, <1>6, <1>7 DEF V, E

\* The agreement of the tables, over sets of half-edges and over half-edges.
LEMMA AgreeIsTablesAgree == Sound => TablesAgree
<1> SUFFICES ASSUME Sound PROVE TablesAgree
  OBVIOUS
<1> DEFINE at(v) == {p \in mesh.e \X Sides : mesh.ev[p[1]][p[2]] = v}
<1>0. EndsActive(mesh) /\ NamesOther(mesh, is_free) /\ OtherNamed(mesh, is_free)
      /\ VertexEdge(mesh)
  BY DEF Sound, Agree
<1>1. ASSUME NEW e \in mesh.e, NEW j \in Sides
      PROVE  LET rest == at(mesh.ev[e][j]) \ {<<e, j>>}
             IN  IF is_free THEN rest = {} /\ mesh.ee[e][j] = Null
                 ELSE {p[1] : p \in rest} = {mesh.ee[e][j]} \ {Null}
  <2> DEFINE rest == at(mesh.ev[e][j]) \ {<<e, j>>}
  <2>1. \A p \in rest : /\ p[1] \in mesh.e /\ p[2] \in Sides
                        /\ Meets(mesh, e, j, p[1], p[2])
    BY DEF Meets
  <2>2. \A f \in mesh.e, k \in Sides : Meets(mesh, e, j, f, k) => <<f, k>> \in rest
    BY DEF Meets
  <2>3. CASE is_free
    <3>1. rest = {}
      BY <1>0, <2>1, <2>3 DEF NamesOther
    <3>2. mesh.ee[e][j] = Null
      BY <1>0, <2>3 DEF OtherNamed
    <3> QED
      BY <2>3, <3>1, <3>2
  <2>4. CASE ~is_free
    <3>1. \A p \in rest : p[1] = mesh.ee[e][j]
      BY <1>0, <2>1 DEF NamesOther
    <3>2. \A p \in rest : p[1] # Null
      <4>1. mesh.e \subseteq 0 .. capacity.e - 1
        BY DEF Sound, MeshType
      <4> QED
        BY <4>1, <2>1 DEF Null
    <3>3. mesh.ee[e][j] # Null => \E p \in rest : p[1] = mesh.ee[e][j]
      <4>1. SUFFICES ASSUME mesh.ee[e][j] # Null
                     PROVE  \E p \in rest : p[1] = mesh.ee[e][j]
        OBVIOUS
      <4>2. PICK k \in Sides : mesh.ee[e][j] \in mesh.e /\ Meets(mesh, e, j, mesh.ee[e][j], k)
        BY <1>0, <4>1 DEF OtherNamed
      <4>3. <<mesh.ee[e][j], k>> \in rest
        BY <2>2, <4>2
      <4> HIDE DEF rest
      <4> QED
        BY <4>3
    <3> QED
      BY <2>4, <3>1, <3>2, <3>3
  <2> QED
    BY <2>3, <2>4
<1>2. \A e \in mesh.e, j \in Sides : mesh.ev[e][j] \in mesh.v
  BY <1>0 DEF EndsActive
<1>3. \A v \in mesh.v : mesh.ve[v] \in mesh.e
                        /\ \E j \in Sides : mesh.ev[mesh.ve[v]][j] = v
  BY <1>0 DEF VertexEdge
<1> QED
  BY <1>1, <1>2, <1>3 DEF TablesAgree

\* The check of the code is weaker: it is implied.
LEMMA AgreeIsValid == Sound => is_connectivity_valid
<1> SUFFICES ASSUME Sound PROVE is_connectivity_valid
  OBVIOUS
<1>0. EndsActive(mesh) /\ NamesOther(mesh, is_free) /\ OtherNamed(mesh, is_free)
      /\ VertexEdge(mesh)
  BY DEF Sound, Agree
<1>1. ASSUME NEW e \in mesh.e, NEW j \in Sides, mesh.ev[e][0] # mesh.ev[e][1]
      PROVE  LET v == mesh.ev[e][j]
                 n == mesh.ee[e][j]
             IN  /\ v \in mesh.v
                 /\ n # Null =>
                      /\ n \in mesh.e
                      /\ \E k \in Sides : mesh.ev[n][k] = v
                      /\ \A k \in Sides : mesh.ev[n][k] = v => mesh.ee[n][k] = e
  <2>1. mesh.ev[e][j] \in mesh.v
    BY <1>0 DEF EndsActive
  <2>2. ASSUME mesh.ee[e][j] # Null
        PROVE  /\ mesh.ee[e][j] \in mesh.e
               /\ \E k \in Sides : Meets(mesh, e, j, mesh.ee[e][j], k)
    BY <1>0, <2>2 DEF OtherNamed
  <2>3. mesh.ee[e][j] # Null => mesh.ee[e][j] # e
    BY <1>1, <2>2 DEF Meets, Sides
  <2>4. ASSUME mesh.ee[e][j] # Null, NEW k \in Sides,
               mesh.ev[mesh.ee[e][j]][k] = mesh.ev[e][j]
        PROVE  mesh.ee[mesh.ee[e][j]][k] = e
    <3>1. Meets(mesh, mesh.ee[e][j], k, e, j)
      BY <2>3, <2>4 DEF Meets
    <3> QED
      BY <1>0, <2>2, <2>4, <3>1 DEF NamesOther
  <2> QED
    BY <2>1, <2>2, <2>4 DEF Meets
<1>2. \A v \in mesh.v : \E j \in Sides : mesh.ev[mesh.ve[v]][j] = v
  BY <1>0 DEF VertexEdge
<1> QED
  BY <1>1, <1>2 DEF is_connectivity_valid

-----------------------------------------------------------------------------
\* The initialization pairs the half-edges at a vertex: where there are at
\* most two, the tables agree with the incidence.
LEMMA InitializeAgrees ==
    ASSUME NEW n \in Nat, NEW k \in Nat, NEW free \in BOOLEAN,
           NEW E \in EdgeInputs(n, k, free)
    PROVE  /\ initialize(E, k, free) \in MeshType([v |-> k, e |-> n])
           /\ Agree(initialize(E, k, free), free)
<1> DEFINE edges == DOMAIN E
           at(v) == {p \in edges \X Sides : E[p[1]][p[2]] = v}
           rest(i, j) == at(E[i][j]) \ {<<i, j>>}
           neighbour(i, j) ==
             IF ~free /\ Cardinality(rest(i, j)) = 1
             THEN (CHOOSE p \in rest(i, j) : TRUE)[1] ELSE Null
           last(v) == CHOOSE i \in {p[1] : p \in at(v)} : \A p \in at(v) : p[1] <= i
           m == initialize(E, k, free)
<1>1. /\ E \in [0 .. n - 1 -> [Sides -> 0 .. k - 1]] /\ edges = 0 .. n - 1
      /\ \A v \in 0 .. k - 1 : Cardinality(at(v)) \in (IF free THEN {1} ELSE {1, 2})
  BY DEF EdgeInputs, Degree
<1>2. m = [v  |-> 0 .. k - 1,
           e  |-> edges,
           ev |-> E,
           ee |-> [i \in edges |-> [j \in Sides |-> neighbour(i, j)]],
           ve |-> [v \in 0 .. k - 1 |-> last(v)]]
  BY DEF initialize
<1> HIDE DEF edges, m
<1>3. \A v \in 0 .. k - 1 : IsFiniteSet(at(v)) /\ at(v) # {}
  <2>1. IsFiniteSet(edges \X Sides)
    <3>1. IsFiniteSet(edges)
      BY <1>1, FS_Interval
    <3>2. IsFiniteSet(Sides)
      <4>1. IsFiniteSet({0}) /\ Sides = {0} \cup {1}
        BY FS_Singleton DEF Sides
      <4> QED
        BY <4>1, FS_AddElement
    <3> QED
      BY <3>1, <3>2, FS_Product
  <2>2. \A v : at(v) \in SUBSET (edges \X Sides)
    OBVIOUS
  <2>3. \A v : IsFiniteSet(at(v))
    BY <2>1, <2>2, FS_Subset
  <2>4. \A v \in 0 .. k - 1 : Cardinality(at(v)) # 0
    BY <1>1
  <2> HIDE DEF at
  <2> QED
    BY <2>3, <2>4, FS_EmptySet
<1>4. \A i \in edges, j \in Sides : E[i][j] \in 0 .. k - 1 /\ <<i, j>> \in at(E[i][j])
  BY <1>1
<1>5. ASSUME NEW i \in edges, NEW j \in Sides
      PROVE  /\ IsFiniteSet(rest(i, j))
             /\ Cardinality(rest(i, j)) \in (IF free THEN {0} ELSE {0, 1})
  <2> DEFINE v == E[i][j]
  <2>1. v \in 0 .. k - 1 /\ <<i, j>> \in at(v)
    BY <1>4
  <2>2. IsFiniteSet(at(v)) /\ Cardinality(at(v)) \in (IF free THEN {1} ELSE {1, 2})
    BY <1>1, <1>3, <2>1
  <2>3. rest(i, j) = at(v) \ {<<i, j>>}
    OBVIOUS
  <2> HIDE DEF v, at, rest
  <2>4. /\ IsFiniteSet(at(v) \ {<<i, j>>})
        /\ Cardinality(at(v) \ {<<i, j>>}) = Cardinality(at(v)) - 1
    BY <2>1, <2>2, FS_RemoveElement
  <2> QED
    BY <2>2, <2>3, <2>4
<1>6. ASSUME NEW i \in edges, NEW j \in Sides, NEW p \in rest(i, j)
      PROVE  ~free /\ p[1] = neighbour(i, j)
  <2>1. ~free /\ Cardinality(rest(i, j)) = 1
    BY <1>5, FS_EmptySet
  <2>2. PICK q : rest(i, j) = {q}
    BY <1>5, <2>1, FS_Singleton
  <2> QED
    BY <2>1, <2>2
<1>7. ASSUME NEW i \in edges, NEW j \in Sides, neighbour(i, j) # Null
      PROVE  ~free /\ \E p \in rest(i, j) : p[1] = neighbour(i, j)
  <2>1. ~free /\ Cardinality(rest(i, j)) = 1
    BY <1>7
  <2>2. rest(i, j) # {}
    BY <1>5, <2>1, FS_EmptySet
  <2> QED
    BY <2>1, <2>2
<1>8. ASSUME NEW v \in 0 .. k - 1
      PROVE  \E p \in at(v) : p[1] = last(v)
  <2>1. PICK p \in at(v) : TRUE
    BY <1>3
  <2>2. /\ IsFiniteSet(at(v) \ {p})
        /\ Cardinality(at(v) \ {p}) \in {0, 1}
    <3>1. IsFiniteSet(at(v)) /\ Cardinality(at(v)) \in {1, 2}
      BY <1>1, <1>3
    <3> HIDE DEF at
    <3>2. /\ IsFiniteSet(at(v) \ {p})
          /\ Cardinality(at(v) \ {p}) = Cardinality(at(v)) - 1
      BY <2>1, <3>1, FS_RemoveElement
    <3> QED
      BY <3>1, <3>2
  <2>3. \E q \in at(v) : at(v) \ {p} \subseteq {q}
    <3> DEFINE rest_of == at(v) \ {p}
    <3>1. rest_of \subseteq at(v)
      OBVIOUS
    <3> HIDE DEF at
    <3>2. p \in at(v) /\ IsFiniteSet(rest_of) /\ Cardinality(rest_of) \in {0, 1}
      BY <2>1, <2>2
    <3> HIDE DEF rest_of
    <3>3. CASE Cardinality(rest_of) = 0
      <4>1. rest_of = {}
        BY <3>2, <3>3, FS_EmptySet
      <4> QED
        BY <3>2, <4>1 DEF rest_of
    <3>4. CASE Cardinality(rest_of) = 1
      <4>1. \E q : rest_of = {q}
        BY <3>2, <3>4, FS_Singleton
      <4> QED
        BY <3>1, <4>1 DEF rest_of
    <3> QED
      BY <3>2, <3>3, <3>4
  <2>4. PICK q \in at(v) : at(v) \ {p} \subseteq {q}
    BY <2>3
  <2>5. p[1] \in Nat /\ q[1] \in Nat
    BY <1>1, <2>1, <2>4
  <2>6. \E i \in {r[1] : r \in at(v)} : \A r \in at(v) : r[1] <= i
    <3> HIDE DEF at
    <3>1. \A r \in at(v) : r = p \/ r = q
      BY <2>4
    <3>2. /\ p[1] \in {r[1] : r \in at(v)} /\ q[1] \in {r[1] : r \in at(v)}
      BY <2>1, <2>4
    <3>3. CASE p[1] <= q[1]
      <4>1. \A r \in at(v) : r[1] <= q[1]
        BY <2>5, <3>1, <3>3
      <4> QED
        BY <3>2, <4>1
    <3>4. CASE q[1] <= p[1]
      <4>1. \A r \in at(v) : r[1] <= p[1]
        BY <2>5, <3>1, <3>4
      <4> QED
        BY <3>2, <4>1
    <3> QED
      BY <2>5, <3>3, <3>4
  <2>7. last(v) \in {r[1] : r \in at(v)}
    BY <2>6
  <2> QED
    BY <2>7
<1>9. m \in MeshType([v |-> k, e |-> n])
  <2>1. \A i \in edges, j \in Sides : neighbour(i, j) \in edges \cup {Null}
    BY <1>7
  <2>2. \A v \in 0 .. k - 1 : last(v) \in edges
    BY <1>8
  <2> HIDE DEF neighbour, last
  <2> QED
    BY <1>1, <1>2, <2>1, <2>2 DEF MeshType
<1>10. /\ m.v = 0 .. k - 1 /\ m.e = edges /\ m.ev = E
       /\ \A i \in edges, j \in Sides : m.ee[i][j] = neighbour(i, j)
       /\ \A v \in 0 .. k - 1 : m.ve[v] = last(v)
  <2> HIDE DEF neighbour, last
  <2> QED
    BY <1>2
<1>11. \A i, f \in edges, j, l \in Sides : Meets(m, i, j, f, l) <=> <<f, l>> \in rest(i, j)
  BY <1>10 DEF Meets
<1> HIDE DEF neighbour, last
<1>12. EndsActive(m)
  BY <1>4, <1>10 DEF EndsActive
<1>13. NamesOther(m, free)
  <2> SUFFICES ASSUME NEW i \in edges, NEW f \in edges, NEW j \in Sides, NEW l \in Sides,
                      Meets(m, i, j, f, l)
               PROVE  ~free /\ neighbour(i, j) = f
    BY <1>10 DEF NamesOther
  <2>1. <<f, l>> \in rest(i, j)
    BY <1>11
  <2>2. ~free /\ <<f, l>>[1] = neighbour(i, j)
    BY <1>6, <2>1
  <2> QED
    BY <2>2
<1>14. OtherNamed(m, free)
  <2> SUFFICES ASSUME NEW i \in edges, NEW j \in Sides, neighbour(i, j) # Null
               PROVE  /\ ~free /\ neighbour(i, j) \in edges
                      /\ \E l \in Sides : Meets(m, i, j, neighbour(i, j), l)
    BY <1>10 DEF OtherNamed
  <2>1. PICK p \in rest(i, j) : ~free /\ p[1] = neighbour(i, j)
    BY <1>7
  <2>2. p = <<p[1], p[2]>> /\ p[1] \in edges /\ p[2] \in Sides
    OBVIOUS
  <2> QED
    BY <1>11, <2>1, <2>2
<1>15. VertexEdge(m)
  BY <1>8, <1>10 DEF VertexEdge
<1> QED
  BY <1>9, <1>12, <1>13, <1>14, <1>15 DEF Agree, m

\* A mesh that holds the initialized tables satisfies the invariant.
LEMMA InitInv == Init => Inv
<1> SUFFICES ASSUME Init PROVE Inv
  OBVIOUS
<1>1. PICK n \in 1 .. InputEdges, k \in 1 .. InputVertices :
         /\ is_free \in BOOLEAN
         /\ \E E \in EdgeInputs(n, k, is_free) : mesh = initialize(E, k, is_free)
         /\ capacity = [v |-> k, e |-> n]
  BY DEF Init
<1>2. PICK E \in EdgeInputs(n, k, is_free) : mesh = initialize(E, k, is_free)
  BY <1>1
<1>3. n \in Nat /\ k \in Nat /\ n \in 0 .. MaxEdges /\ k \in 0 .. MaxVertices
  BY BoundsAssumption
<1>4. mesh \in MeshType(capacity) /\ Agree(mesh, is_free)
  BY <1>1, <1>2, <1>3, InitializeAgrees
<1> QED
  BY <1>1, <1>3, <1>4 DEF Inv, TypeOK

-----------------------------------------------------------------------------
\* The capacities as numbers and the mesh as its parts.
LEMMA SoundParts ==
    ASSUME Sound
    PROVE  /\ capacity \in [v : Nat, e : Nat] /\ is_free \in BOOLEAN
           /\ mesh \in MeshType(capacity)
           /\ EndsActive(mesh) /\ NamesOther(mesh, is_free)
           /\ OtherNamed(mesh, is_free) /\ VertexEdge(mesh)
           /\ mesh.v \subseteq 0 .. capacity.v - 1
           /\ mesh.e \subseteq 0 .. capacity.e - 1
           /\ \A e \in 0 .. capacity.e - 1, j \in Sides :
                 /\ mesh.ev[e][j] \in (0 .. capacity.v - 1) \cup {Null}
                 /\ mesh.ee[e][j] \in (0 .. capacity.e - 1) \cup {Null}
           /\ \A v \in 0 .. capacity.v - 1 : mesh.ve[v] \in (0 .. capacity.e - 1) \cup {Null}
BY MeshParts DEF Sound, Agree

\* A mesh within the bounds is sound.
LEMMA InvSound == Inv => Sound
<1> SUFFICES ASSUME Inv PROVE Sound
  OBVIOUS
<1>1. /\ capacity \in [v : 0 .. MaxVertices, e : 0 .. MaxEdges]
      /\ is_free \in BOOLEAN /\ mesh \in MeshType(capacity)
  BY DEF Inv, TypeOK
<1>2. capacity \in [v : Nat, e : Nat]
  BY <1>1, BoundsAssumption
<1> QED
  BY <1>1, <1>2 DEF Inv, Sound

\* The same, with the bounds.
LEMMA InvParts ==
    ASSUME Inv
    PROVE  /\ Sound
           /\ capacity \in [v : Nat, e : Nat]
           /\ capacity.v \in 0 .. MaxVertices /\ capacity.e \in 0 .. MaxEdges
           /\ is_free \in BOOLEAN
           /\ mesh \in MeshType(capacity)
           /\ EndsActive(mesh) /\ NamesOther(mesh, is_free)
           /\ OtherNamed(mesh, is_free) /\ VertexEdge(mesh)
           /\ mesh.v \subseteq 0 .. capacity.v - 1
           /\ mesh.e \subseteq 0 .. capacity.e - 1
           /\ \A e \in 0 .. capacity.e - 1, j \in Sides :
                 /\ mesh.ev[e][j] \in (0 .. capacity.v - 1) \cup {Null}
                 /\ mesh.ee[e][j] \in (0 .. capacity.e - 1) \cup {Null}
           /\ \A v \in 0 .. capacity.v - 1 : mesh.ve[v] \in (0 .. capacity.e - 1) \cup {Null}
<1>1. /\ capacity \in [v : 0 .. MaxVertices, e : 0 .. MaxEdges] /\ Sound
  BY InvSound DEF Inv, TypeOK
<1> QED
  BY <1>1, SoundParts

\* New ids are empty and inactive and leave the others as they are.
LEMMA GrownKeeps ==
    ASSUME Sound, NEW nv \in Nat, NEW ne \in Nat
    PROVE  /\ grown(nv, ne) \in MeshType([v |-> capacity.v + nv, e |-> capacity.e + ne])
           /\ grown(nv, ne).v = mesh.v /\ grown(nv, ne).e = mesh.e
           /\ \A e \in 0 .. capacity.e - 1 :
                 grown(nv, ne).ev[e] = mesh.ev[e] /\ grown(nv, ne).ee[e] = mesh.ee[e]
           /\ \A v \in 0 .. capacity.v - 1 : grown(nv, ne).ve[v] = mesh.ve[v]
           /\ \A e \in capacity.e .. capacity.e + ne - 1, j \in Sides :
                 grown(nv, ne).ee[e][j] = Null
<1> DEFINE more(f, n, default) ==
             [i \in 0 .. n - 1 |-> IF i \in DOMAIN f THEN f[i] ELSE default]
           ev2 == more(mesh.ev, capacity.e + ne, Pair(Null, Null))
           ee2 == more(mesh.ee, capacity.e + ne, Pair(Null, Null))
           ve2 == more(mesh.ve, capacity.v + nv, Null)
           V == 0 .. capacity.v - 1
           E == 0 .. capacity.e - 1
           V2 == 0 .. capacity.v + nv - 1
           E2 == 0 .. capacity.e + ne - 1
<1>1. /\ capacity \in [v : Nat, e : Nat] /\ mesh \in MeshType(capacity)
      /\ mesh \in [v : SUBSET V, e : SUBSET E,
                   ev : [E -> [Sides -> V \cup {Null}]],
                   ee : [E -> [Sides -> E \cup {Null}]],
                   ve : [V -> E \cup {Null}]]
  BY SoundParts DEF MeshType
<1>2. grown(nv, ne) = [mesh EXCEPT !.ev = ev2, !.ee = ee2, !.ve = ve2]
  BY DEF grown
<1>3. V \subseteq V2 /\ E \subseteq E2
  BY <1>1
<1>4. ev2 \in [E2 -> [Sides -> V2 \cup {Null}]]
  BY <1>1, <1>3 DEF Pair
<1>5. ee2 \in [E2 -> [Sides -> E2 \cup {Null}]]
  BY <1>1, <1>3 DEF Pair
<1>6. ve2 \in [V2 -> E2 \cup {Null}]
  BY <1>1, <1>3
<1>7. \A e \in E : ev2[e] = mesh.ev[e] /\ ee2[e] = mesh.ee[e]
  BY <1>1, <1>3
<1>8. \A v \in V : ve2[v] = mesh.ve[v]
  BY <1>1, <1>3
<1>9. \A e \in capacity.e .. capacity.e + ne - 1, j \in Sides : ee2[e][j] = Null
  BY <1>1 DEF Pair
<1> HIDE DEF ev2, ee2, ve2
<1>10. grown(nv, ne) = [v |-> mesh.v, e |-> mesh.e, ev |-> ev2, ee |-> ee2, ve |-> ve2]
  BY <1>1, <1>2
<1>11. grown(nv, ne) \in MeshType([v |-> capacity.v + nv, e |-> capacity.e + ne])
  BY <1>1, <1>3, <1>4, <1>5, <1>6, <1>10 DEF MeshType
<1> QED
  BY <1>7, <1>8, <1>9, <1>10, <1>11

\* The agreement is about active ids only.
LEMMA AgreeOfActive ==
    ASSUME NEW m, NEW m2, NEW free, Agree(m, free),
           m2.v = m.v, m2.e = m.e,
           \A e \in m.e, j \in Sides : m2.ev[e][j] = m.ev[e][j] /\ m2.ee[e][j] = m.ee[e][j],
           \A v \in m.v : m2.ve[v] = m.ve[v]
    PROVE  Agree(m2, free)
<1>1. \A e, f \in m.e, j, k \in Sides : Meets(m2, e, j, f, k) <=> Meets(m, e, j, f, k)
  BY DEF Meets
<1>2. EndsActive(m2)
  BY DEF Agree, EndsActive
<1>3. NamesOther(m2, free)
  BY <1>1 DEF Agree, NamesOther
<1>4. OtherNamed(m2, free)
  BY <1>1 DEF Agree, OtherNamed
<1>5. VertexEdge(m2)
  BY DEF Agree, VertexEdge
<1> QED
  BY <1>2, <1>3, <1>4, <1>5 DEF Agree

-----------------------------------------------------------------------------
\* A self-loop is an edge with one vertex.
LEMMA SelfLoop ==
    ASSUME Sound, ~is_free, NEW e \in mesh.e, NEW lv \in Sides
    PROVE  is_self_loop(e, lv) <=> mesh.ev[e][lv] = mesh.ev[e][1 - lv]
<1>1. NamesOther(mesh, is_free) /\ OtherNamed(mesh, is_free)
  BY SoundParts
<1>2. Sides = {lv, 1 - lv} /\ lv # 1 - lv /\ 1 - lv \in Sides
  BY DEF Sides
<1>3. is_self_loop(e, lv) <=> mesh.ee[e][lv] = e /\ mesh.ee[e][1 - lv] = e
  BY DEF is_self_loop, neighbor_eid, side, Sides
<1>4. ASSUME mesh.ee[e][lv] = e PROVE mesh.ev[e][lv] = mesh.ev[e][1 - lv]
  <2>1. e # Null
    BY SoundParts DEF Null
  <2>2. \E k \in Sides : Meets(mesh, e, lv, e, k)
    BY <1>1, <1>4, <2>1 DEF OtherNamed
  <2> QED
    BY <1>2, <2>2 DEF Meets
<1>5. ASSUME mesh.ev[e][lv] = mesh.ev[e][1 - lv]
      PROVE  mesh.ee[e][lv] = e /\ mesh.ee[e][1 - lv] = e
  BY <1>1, <1>2, <1>5 DEF NamesOther, Meets
<1> QED
  BY <1>3, <1>4, <1>5

\* The tables after a split, entry by entry: the halves c and c + 1 of the
\* edge e, with the ends v0 and v1, and the vertices w0 and w1 between them,
\* which are one unless the mesh is free.
LEMMA SplitTables ==
    ASSUME Sound, NEW e \in mesh.e, NEW lv \in Sides
    PROVE  LET m  == split_edge_single_mesh(e, lv)
               c  == capacity.e
               w0 == capacity.v
               w1 == IF is_free THEN capacity.v + 1 ELSE capacity.v
               v0 == mesh.ev[e][lv]
               v1 == mesh.ev[e][1 - lv]
           IN  /\ m \in MeshType([v |-> capacity.v + new_vertex_count, e |-> capacity.e + 2])
               /\ m.v = mesh.v \cup {w0, w1}
               /\ m.e = (mesh.e \cup {c, c + 1}) \ {e}
               /\ m.ev[c][lv] = v0 /\ m.ev[c][1 - lv] = w0
               /\ m.ev[c + 1][1 - lv] = v1 /\ m.ev[c + 1][lv] = w1
               /\ \A f \in mesh.e, k \in Sides : m.ev[f][k] = mesh.ev[f][k]
               /\ m.ve[v0] \in {c, c + 1} /\ m.ve[v1] = c + 1
               /\ v0 # v1 => m.ve[v0] = c
               /\ m.ve[w0] = c /\ m.ve[w1] \in {c, c + 1}
               /\ is_free => m.ve[w1] = c + 1
               /\ \A v \in mesh.v \ {v0, v1} : m.ve[v] = mesh.ve[v]
               /\ is_free => /\ \A f \in mesh.e, k \in Sides : m.ee[f][k] = mesh.ee[f][k]
                             /\ \A k \in Sides : m.ee[c][k] = Null /\ m.ee[c + 1][k] = Null
               /\ ~is_free => /\ m.ee[c][1 - lv] = c + 1 /\ m.ee[c + 1][lv] = c
                              /\ m.ee[c][lv] = IF v0 = v1 THEN c + 1 ELSE mesh.ee[e][lv]
                              /\ m.ee[c + 1][1 - lv] = IF v0 = v1 THEN c ELSE mesh.ee[e][1 - lv]
                              /\ \A f \in mesh.e \ {e}, k \in Sides :
                                    m.ee[f][k] = IF mesh.ev[f][k] = v0 THEN c
                                                 ELSE IF mesh.ev[f][k] = v1 THEN c + 1
                                                 ELSE mesh.ee[f][k]
<1> DEFINE c  == capacity.e
           w0 == capacity.v
           w1 == IF is_free THEN capacity.v + 1 ELSE capacity.v
           v0 == mesh.ev[e][lv]
           v1 == mesh.ev[e][1 - lv]
           g  == grown(new_vertex_count, 2)
           m  == split_edge_single_mesh(e, lv)
           C2 == [v |-> capacity.v + new_vertex_count, e |-> capacity.e + 2]
           V2 == 0 .. C2.v - 1
           E2 == 0 .. C2.e - 1
<1>0. /\ capacity \in [v : Nat, e : Nat] /\ mesh \in MeshType(capacity)
      /\ NamesOther(mesh, is_free) /\ OtherNamed(mesh, is_free)
      /\ mesh.v \subseteq 0 .. capacity.v - 1 /\ mesh.e \subseteq 0 .. capacity.e - 1
      /\ \A f \in mesh.e, k \in Sides : mesh.ee[f][k] \in (0 .. c - 1) \cup {Null}
      /\ is_free \in BOOLEAN
  BY SoundParts
<1>1. Sides = {lv, 1 - lv} /\ lv # 1 - lv /\ 1 - lv \in Sides /\ Sides = {0, 1}
  BY DEF Sides
<1>2. v0 \in mesh.v /\ v1 \in mesh.v
  BY <1>1, SoundParts DEF EndsActive
<1>3. new_vertex_count \in Nat /\ w0 \in V2 /\ w1 \in V2 /\ c \in E2 /\ c + 1 \in E2
      /\ mesh.v \subseteq V2 /\ mesh.e \subseteq E2
  BY <1>0 DEF new_vertex_count
<1>4. /\ split_e(0) = c /\ split_e(1) = c + 1 /\ split_v(0) = w0 /\ split_v(1) = w1
      /\ spine_vid(e, lv, 0) = v0 /\ spine_vid(e, lv, 1) = v1
      /\ neighbor_eid(e, lv, 0) = mesh.ee[e][lv]
      /\ neighbor_eid(e, lv, 1) = mesh.ee[e][1 - lv]
      /\ side(lv, 0) = lv /\ side(lv, 1) = 1 - lv
  BY <1>0 DEF split_e, split_v, spine_vid, neighbor_eid, side
<1>5. /\ g \in MeshType(C2)
      /\ \A f \in 0 .. c - 1 : g.ev[f] = mesh.ev[f] /\ g.ee[f] = mesh.ee[f]
      /\ \A v \in 0 .. capacity.v - 1 : g.ve[v] = mesh.ve[v]
      /\ \A f \in c .. c + 1, k \in Sides : g.ee[f][k] = Null
  BY <1>0, <1>3, GrownKeeps
<1>6. /\ g.ev \in [E2 -> [Sides -> V2 \cup {Null}]]
      /\ g.ee \in [E2 -> [Sides -> E2 \cup {Null}]]
      /\ g.ve \in [V2 -> E2 \cup {Null}]
      /\ DOMAIN mesh.ee = 0 .. c - 1
  <2> HIDE DEF g
  <2> QED
    BY <1>0, <1>5 DEF MeshType
<1> HIDE DEF w0, w1, v0, v1, g
<1> DEFINE ev2 == split_ev(e, lv)
           ee2 == split_ee(e, lv)
           ve2 == split_ve(e, lv)
<1>7. m = [v |-> mesh.v \cup {w0, w1}, e |-> (mesh.e \cup {c, c + 1}) \ {e},
           ev |-> ev2, ee |-> ee2, ve |-> ve2]
  BY <1>4 DEF split_edge_single_mesh
<1>8. /\ ev2 \in [E2 -> [Sides -> V2 \cup {Null}]]
      /\ ev2[c][lv] = v0 /\ ev2[c][1 - lv] = w0
      /\ ev2[c + 1][1 - lv] = v1 /\ ev2[c + 1][lv] = w1
      /\ \A f \in mesh.e, k \in Sides : ev2[f][k] = mesh.ev[f][k]
  <2> DEFINE half(i) == [j \in Sides |-> IF j = side(lv, i) THEN spine_vid(e, lv, i)
                                         ELSE split_v(i)]
  <2>1. ev2 = [g.ev EXCEPT ![c] = half(0), ![c + 1] = half(1)]
    BY <1>4 DEF split_ev, g
  <2>2. half(0) \in [Sides -> V2] /\ half(0)[lv] = v0 /\ half(0)[1 - lv] = w0
    BY <1>1, <1>2, <1>3, <1>4
  <2>3. half(1) \in [Sides -> V2] /\ half(1)[1 - lv] = v1 /\ half(1)[lv] = w1
    BY <1>1, <1>2, <1>3, <1>4
  <2> HIDE DEF half
  <2>4. \A f \in mesh.e : f # c /\ f # c + 1
    BY <1>0
  <2>5. half(0) \in [Sides -> V2 \cup {Null}] /\ half(1) \in [Sides -> V2 \cup {Null}]
    BY <2>2, <2>3
  <2>6. c # c + 1 /\ mesh.e \subseteq 0 .. c - 1 /\ mesh.e \subseteq E2 /\ c \in E2 /\ c + 1 \in E2
    BY <1>0, <1>3
  <2> HIDE DEF c, V2, E2, ev2
  <2>7. /\ ev2 \in [E2 -> [Sides -> V2 \cup {Null}]]
        /\ ev2[c] = half(0) /\ ev2[c + 1] = half(1)
        /\ \A f \in mesh.e : ev2[f] = g.ev[f]
    BY <1>6, <2>1, <2>4, <2>5, <2>6
  <2>8. \A f \in mesh.e : ev2[f] = mesh.ev[f]
    BY <1>5, <2>6, <2>7
  <2> QED
    BY <2>2, <2>3, <2>7, <2>8
<1>9. /\ ve2 \in [V2 -> E2 \cup {Null}]
      /\ ve2[v0] \in {c, c + 1} /\ ve2[v1] = c + 1
      /\ v0 # v1 => ve2[v0] = c
      /\ ve2[w0] = c /\ ve2[w1] \in {c, c + 1}
      /\ is_free => ve2[w1] = c + 1
      /\ \A v \in mesh.v \ {v0, v1} : ve2[v] = mesh.ve[v]
  <2>1. ve2 = [g.ve EXCEPT ![w1] = c + 1, ![w0] = c, ![v0] = c, ![v1] = c + 1]
    BY <1>4 DEF split_ve, g
  <2>2. \A v \in mesh.v : v # w0 /\ v # w1
    BY <1>0 DEF w0, w1
  <2>3. is_free => w0 # w1
    BY <1>0 DEF w0, w1
  <2>4. ~is_free => w0 = w1
    BY DEF w0, w1
  <2>5. c # c + 1 /\ mesh.v \subseteq 0 .. capacity.v - 1 /\ v0 \in V2 /\ v1 \in V2
    BY <1>0, <1>2, <1>3
  <2>6. /\ ve2 \in [V2 -> E2 \cup {Null}]
        /\ \A x \in V2 : ve2[x] = IF x = v1 THEN c + 1 ELSE IF x \in {v0, w0} THEN c
                                  ELSE IF x = w1 THEN c + 1 ELSE g.ve[x]
    <3> HIDE DEF c, V2, E2
    <3> QED
      BY <1>3, <1>6, <2>1, <2>5
  <2>7. \A x \in mesh.v : g.ve[x] = mesh.ve[x]
    BY <1>5, <2>5
  <2> HIDE DEF c, V2, E2, ve2
  <2> QED
    BY <1>2, <1>3, <2>2, <2>3, <2>4, <2>5, <2>6, <2>7
<1>10. is_free => /\ ee2 = g.ee
                  /\ \A f \in mesh.e, k \in Sides : ee2[f][k] = mesh.ee[f][k]
                  /\ \A k \in Sides : ee2[c][k] = Null /\ ee2[c + 1][k] = Null
  <2>1. is_free => ee2 = g.ee
    BY DEF split_ee, g
  <2> QED
    BY <1>0, <1>5, <2>1
<1>11. ASSUME ~is_free
       PROVE  /\ ee2 \in [E2 -> [Sides -> E2 \cup {Null}]]
              /\ ee2[c][1 - lv] = c + 1 /\ ee2[c + 1][lv] = c
              /\ ee2[c][lv] = IF v0 = v1 THEN c + 1 ELSE mesh.ee[e][lv]
              /\ ee2[c + 1][1 - lv] = IF v0 = v1 THEN c ELSE mesh.ee[e][1 - lv]
              /\ \A f \in mesh.e \ {e}, k \in Sides :
                    ee2[f][k] = IF mesh.ev[f][k] = v0 THEN c
                                ELSE IF mesh.ev[f][k] = v1 THEN c + 1
                                ELSE mesh.ee[f][k]
  <2> DEFINE half(i) == [j \in Sides |->
                           IF j # side(lv, i) \/ is_self_loop(e, lv) THEN split_e(1 - i)
                           ELSE neighbor_eid(e, lv, i)]
             turned(n, j) == {i \in Sides : neighbor_eid(e, lv, i) = n
                                            /\ mesh.ee[n][j] = e
                                            /\ mesh.ev[n][j] = spine_vid(e, lv, i)}
             neighbour(n) == [j \in Sides |->
                                IF is_self_loop(e, lv) \/ turned(n, j) = {} THEN mesh.ee[n][j]
                                ELSE split_e(CHOOSE i \in turned(n, j) : TRUE)]
  <2>1. is_self_loop(e, lv) <=> v0 = v1
    BY <1>11, SelfLoop DEF v0, v1
  <2>2. ee2 = [n \in DOMAIN g.ee |-> IF n \in 0 .. c - 1 THEN neighbour(n) ELSE half(n - c)]
    BY <1>6, <1>11 DEF split_ee, g
  <2>3. \A n \in 0 .. c - 1 : ee2[n] = neighbour(n)
    BY <1>0, <1>6, <2>2
  <2>4. ee2[c] = half(0) /\ ee2[c + 1] = half(1)
    <3> DEFINE d == c + 1
    <3>1. c - c = 0 /\ d - c = 1
      BY <1>0
    <3>2. half(c - c) = half(0) /\ half(d - c) = half(1)
      BY <3>1
    <3>3. c \in E2 /\ d \in E2 /\ c \notin 0 .. c - 1 /\ d \notin 0 .. c - 1
      BY <1>0, <1>3
    <3>4. DOMAIN g.ee = E2
      BY <1>6
    <3> HIDE DEF half, neighbour, E2, c, d, ee2
    <3>5. \A n \in E2 : ee2[n] = IF n \in 0 .. c - 1 THEN neighbour(n) ELSE half(n - c)
      BY <2>2, <3>4
    <3>6. ee2[c] = half(c - c) /\ ee2[d] = half(d - c)
      BY <3>3, <3>5
    <3>7. ee2[c] = half(0) /\ ee2[d] = half(1)
      BY <3>2, <3>6
    <3> QED
      BY <3>7 DEF d
  <2>5. /\ half(0)[1 - lv] = c + 1 /\ half(1)[lv] = c
        /\ half(0)[lv] = (IF v0 = v1 THEN c + 1 ELSE mesh.ee[e][lv])
        /\ half(1)[1 - lv] = (IF v0 = v1 THEN c ELSE mesh.ee[e][1 - lv])
    BY <1>0, <1>1, <1>4, <2>1
  <2>6. ASSUME NEW f \in mesh.e \ {e}, NEW k \in Sides
        PROVE  neighbour(f)[k] = IF mesh.ev[f][k] = v0 THEN c
                                 ELSE IF mesh.ev[f][k] = v1 THEN c + 1
                                 ELSE mesh.ee[f][k]
    <3>0. /\ \A n \in mesh.e, j, l \in Sides :
                Meets(mesh, e, j, n, l) => mesh.ee[e][j] = n /\ mesh.ee[n][l] = e
          /\ f \in 0 .. c - 1
      BY <1>0 DEF NamesOther, Meets
    <3>1. ASSUME mesh.ev[f][k] = v0 PROVE neighbour(f)[k] = c
      <4>1. mesh.ee[e][lv] = f /\ mesh.ee[f][k] = e
        BY <3>0, <3>1 DEF Meets, v0
      <4>2. v0 # v1
        BY <1>1, <3>0, <4>1 DEF Meets, v0, v1
      <4>3. turned(f, k) = {0}
        BY <1>1, <1>4, <3>1, <4>1, <4>2
      <4> HIDE DEF turned
      <4> QED
        BY <1>4, <2>1, <4>2, <4>3
    <3>2. ASSUME mesh.ev[f][k] # v0, mesh.ev[f][k] = v1 PROVE neighbour(f)[k] = c + 1
      <4>1. mesh.ee[e][1 - lv] = f /\ mesh.ee[f][k] = e
        BY <1>1, <3>0, <3>2 DEF Meets, v1
      <4>2. turned(f, k) = {1}
        BY <1>1, <1>4, <3>2, <4>1
      <4> HIDE DEF turned
      <4> QED
        BY <1>4, <2>1, <3>2, <4>2
    <3>3. ASSUME mesh.ev[f][k] # v0, mesh.ev[f][k] # v1 PROVE neighbour(f)[k] = mesh.ee[f][k]
      <4>1. turned(f, k) = {}
        BY <1>1, <1>4, <3>3
      <4> HIDE DEF turned
      <4> QED
        BY <4>1
    <3> QED
      BY <3>1, <3>2, <3>3
  <2>7. ASSUME NEW n \in 0 .. c - 1
        PROVE  neighbour(n) \in [Sides -> E2 \cup {Null}]
    <3>1. \A k \in Sides : mesh.ee[n][k] \in E2 \cup {Null}
      BY <1>0, SoundParts
    <3>2. \A i \in Sides : split_e(i) \in E2
      BY <1>1, <1>3, <1>4
    <3>3. \A k \in Sides : turned(n, k) # {} => (CHOOSE i \in turned(n, k) : TRUE) \in Sides
      OBVIOUS
    <3> HIDE DEF turned, E2
    <3> QED
      BY <3>1, <3>2, <3>3
  <2>8. half(0) \in [Sides -> E2 \cup {Null}] /\ half(1) \in [Sides -> E2 \cup {Null}]
    <3>1. \A k \in Sides : mesh.ee[e][k] \in E2 \cup {Null}
      BY <1>0
    <3> HIDE DEF E2
    <3> QED
      BY <1>1, <1>3, <1>4, <3>1
  <2>9. ee2 \in [E2 -> [Sides -> E2 \cup {Null}]]
    <3>1. /\ DOMAIN g.ee = E2 /\ c - c = 0 /\ c + 1 - c = 1
          /\ \A n \in E2 : n \in 0 .. c - 1 \/ n = c \/ n = c + 1
      BY <1>0, <1>3, <1>6
    <3> HIDE DEF c, E2, half, neighbour
    <3> QED
      BY <2>2, <2>3, <2>4, <2>7, <2>8, <3>1
  <2> HIDE DEF half, neighbour, ee2
  <2> QED
    BY <1>0, <2>3, <2>4, <2>5, <2>6, <2>9
<1> QED
  <2>1. ee2 \in [E2 -> [Sides -> E2 \cup {Null}]]
    BY <1>0, <1>6, <1>10, <1>11
  <2>2. m \in MeshType(C2)
    <3> HIDE DEF ev2, ee2, ve2, m
    <3>1. mesh.v \cup {w0, w1} \subseteq V2 /\ (mesh.e \cup {c, c + 1}) \ {e} \subseteq E2
      BY <1>3
    <3> QED
      BY <1>7, <1>8, <1>9, <2>1, <3>1 DEF MeshType
  <2>3. m.v = mesh.v \cup {w0, w1} /\ m.e = (mesh.e \cup {c, c + 1}) \ {e}
        /\ m.ev = ev2 /\ m.ee = ee2 /\ m.ve = ve2
    BY <1>7
  <2> HIDE DEF ev2, ee2, ve2, m
  <2>4. /\ m \in MeshType(C2)
        /\ m.v = mesh.v \cup {w0, w1}
        /\ m.e = (mesh.e \cup {c, c + 1}) \ {e}
    BY <2>2, <2>3
  <2>5. /\ m.ev[c][lv] = v0 /\ m.ev[c][1 - lv] = w0
        /\ m.ev[c + 1][1 - lv] = v1 /\ m.ev[c + 1][lv] = w1
        /\ \A f \in mesh.e, k \in Sides : m.ev[f][k] = mesh.ev[f][k]
    BY <1>8, <2>3
  <2>6. /\ m.ve[v0] \in {c, c + 1} /\ m.ve[v1] = c + 1
        /\ v0 # v1 => m.ve[v0] = c
        /\ m.ve[w0] = c /\ m.ve[w1] \in {c, c + 1}
        /\ is_free => m.ve[w1] = c + 1
        /\ \A v \in mesh.v \ {v0, v1} : m.ve[v] = mesh.ve[v]
    BY <1>9, <2>3
  <2>7. is_free => /\ \A f \in mesh.e, k \in Sides : m.ee[f][k] = mesh.ee[f][k]
                   /\ \A k \in Sides : m.ee[c][k] = Null /\ m.ee[c + 1][k] = Null
    BY <1>10, <2>3
  <2>8. ~is_free => /\ m.ee[c][1 - lv] = c + 1 /\ m.ee[c + 1][lv] = c
                    /\ m.ee[c][lv] = IF v0 = v1 THEN c + 1 ELSE mesh.ee[e][lv]
                    /\ m.ee[c + 1][1 - lv] = IF v0 = v1 THEN c ELSE mesh.ee[e][1 - lv]
                    /\ \A f \in mesh.e \ {e}, k \in Sides :
                          m.ee[f][k] = IF mesh.ev[f][k] = v0 THEN c
                                       ELSE IF mesh.ev[f][k] = v1 THEN c + 1
                                       ELSE mesh.ee[f][k]
    BY <1>11, <2>3
  <2> QED
    BY ONLY <2>4, <2>5, <2>6, <2>7, <2>8 DEF v0, v1, w0, w1, m

\* A split keeps the agreement: of the ends of e, each is now at one half, and
\* what was across it turns to that half.
LEMMA SplitAgrees ==
    ASSUME Sound, NEW e \in mesh.e, NEW lv \in Sides
    PROVE  Agree(split_edge_single_mesh(e, lv), is_free)
<1> DEFINE m  == split_edge_single_mesh(e, lv)
           c  == capacity.e
           d  == capacity.e + 1
           w0 == capacity.v
           w1 == IF is_free THEN capacity.v + 1 ELSE capacity.v
           v0 == mesh.ev[e][lv]
           r  == 1 - lv
           v1 == mesh.ev[e][r]
           old == mesh.e \ {e}
<1>0. /\ EndsActive(mesh) /\ NamesOther(mesh, is_free)
      /\ OtherNamed(mesh, is_free) /\ VertexEdge(mesh)
  BY SoundParts
<1>1. /\ \A f, n \in mesh.e, j, k \in Sides :
            mesh.ev[n][k] = mesh.ev[f][j] /\ (n # f \/ k # j) => ~is_free /\ mesh.ee[f][j] = n
      /\ \A f \in mesh.e, j \in Sides : mesh.ev[f][j] \in mesh.v
  BY <1>0 DEF EndsActive, NamesOther, Meets
<1>2. r \in Sides /\ r # lv /\ \A j \in Sides : j = lv \/ j = r
  BY DEF Sides
<1>3. /\ v0 = mesh.ev[e][lv] /\ v1 = mesh.ev[e][r] /\ e \in mesh.e /\ lv \in Sides
      /\ c \notin mesh.e /\ d \notin mesh.e /\ c # d /\ c # Null /\ d # Null
      /\ w0 \notin mesh.v /\ w1 \notin mesh.v
      /\ is_free => w0 # w1
      /\ ~is_free => w0 = w1
      /\ is_free \in BOOLEAN
      /\ Null \notin mesh.e
  BY SoundParts DEF Null
<1>4. /\ m.v = mesh.v \cup {w0, w1}
      /\ m.e = old \cup {c, d}
      /\ m.ev[c][lv] = v0 /\ m.ev[c][r] = w0
      /\ m.ev[d][r] = v1 /\ m.ev[d][lv] = w1
      /\ \A f \in mesh.e, k \in Sides : m.ev[f][k] = mesh.ev[f][k]
  BY <1>3, SplitTables
<1>5. /\ v0 # v1 => m.ve[v0] = c
      /\ v0 = v1 => m.ve[v0] = d
      /\ m.ve[v1] = d
      /\ m.ve[w0] = c /\ m.ve[w1] \in {c, d}
      /\ is_free => m.ve[w1] = d
      /\ \A v \in mesh.v \ {v0, v1} : m.ve[v] = mesh.ve[v]
  BY SplitTables
<1>6. is_free => /\ \A f \in mesh.e, k \in Sides : m.ee[f][k] = mesh.ee[f][k]
                 /\ \A k \in Sides : m.ee[c][k] = Null /\ m.ee[d][k] = Null
  BY SplitTables
<1>7. ~is_free => /\ m.ee[c][r] = d /\ m.ee[d][lv] = c
                  /\ m.ee[c][lv] = IF v0 = v1 THEN d ELSE mesh.ee[e][lv]
                  /\ m.ee[d][r] = IF v0 = v1 THEN c ELSE mesh.ee[e][r]
                  /\ \A f \in old, k \in Sides :
                        m.ee[f][k] = IF mesh.ev[f][k] = v0 THEN c
                                     ELSE IF mesh.ev[f][k] = v1 THEN d
                                     ELSE mesh.ee[f][k]
  BY SplitTables
<1>8. old \subseteq mesh.e /\ v0 \in mesh.v /\ v1 \in mesh.v
  BY <1>1, <1>2
<1> HIDE DEF m, c, d, w0, w1, r, v0, v1
<1>9. EndsActive(m)
  <2> SUFFICES ASSUME NEW f \in m.e, NEW j \in Sides PROVE m.ev[f][j] \in m.v
    BY DEF EndsActive
  <2>1. f \in old \/ f = c \/ f = d
    BY <1>4
  <2>2. f \in old => m.ev[f][j] \in mesh.v
    BY <1>1, <1>4
  <2>3. f = c => m.ev[f][j] \in {v0, w0}
    BY <1>2, <1>4
  <2>4. f = d => m.ev[f][j] \in {v1, w1}
    BY <1>2, <1>4
  <2>5. m.ev[f][j] \in mesh.v \cup {w0, w1}
    BY <1>8, <2>1, <2>2, <2>3, <2>4
  <2> QED
    BY <1>4, <2>5
<1>n0. v0 = v1 => ~is_free /\ mesh.ee[e][lv] = e /\ mesh.ee[e][r] = e
  <2> SUFFICES ASSUME mesh.ev[e][lv] = mesh.ev[e][r]
               PROVE  ~is_free /\ mesh.ee[e][lv] = e /\ mesh.ee[e][r] = e
    BY <1>3
  <2>1. Meets(mesh, e, lv, e, r) /\ Meets(mesh, e, r, e, lv)
    BY <1>2 DEF Meets
  <2> QED
    BY <1>0, <1>2, <2>1 DEF NamesOther
<1>n1. ASSUME NEW n \in old, NEW k \in Sides, mesh.ev[n][k] = v0
       PROVE  ~is_free /\ mesh.ee[e][lv] = n /\ mesh.ee[n][k] = e /\ v0 # v1
  <2>1. ~is_free /\ mesh.ee[e][lv] = n /\ mesh.ee[n][k] = e
    BY <1>1, <1>3, <1>n1
  <2> QED
    BY <1>n0, <2>1
<1>n2. ASSUME NEW n \in old, NEW k \in Sides, mesh.ev[n][k] = v1
       PROVE  ~is_free /\ mesh.ee[e][r] = n /\ mesh.ee[n][k] = e /\ v0 # v1
  <2>1. ~is_free /\ mesh.ee[e][r] = n /\ mesh.ee[n][k] = e
    BY <1>1, <1>2, <1>3, <1>n2
  <2> QED
    BY <1>n0, <2>1
<1>n4. ASSUME NEW f \in old, NEW n \in old, NEW j \in Sides, NEW k \in Sides,
              mesh.ev[n][k] = mesh.ev[f][j], n # f \/ k # j
       PROVE  ~is_free /\ mesh.ee[f][j] = n /\ mesh.ev[f][j] # v0 /\ mesh.ev[f][j] # v1
  <2>1. ~is_free /\ mesh.ee[f][j] = n
    BY <1>1, <1>n4
  <2> QED
    BY <1>n1, <1>n2, <2>1
<1>10. NamesOther(m, is_free)
  <2> SUFFICES ASSUME NEW f \in m.e, NEW n \in m.e, NEW j \in Sides, NEW k \in Sides,
                      m.ev[n][k] = m.ev[f][j], n # f \/ k # j
               PROVE  ~is_free /\ m.ee[f][j] = n
    BY DEF NamesOther, Meets
  <2>0. (f \in old \/ f = c \/ f = d) /\ (n \in old \/ n = c \/ n = d)
        /\ (j = lv \/ j = r) /\ (k = lv \/ k = r)
    BY <1>2, <1>4
  <2>1. CASE f \in old
    <3>1. m.ev[f][j] = mesh.ev[f][j] /\ mesh.ev[f][j] \in mesh.v
      BY <1>1, <1>4, <2>1
    <3>2. CASE n \in old
      BY <1>4, <1>7, <1>n4, <2>1, <3>1, <3>2
    <3>3. CASE n = c
      BY <1>3, <1>4, <1>7, <1>n1, <2>0, <2>1, <3>1, <3>3
    <3>4. CASE n = d
      BY <1>3, <1>4, <1>7, <1>n2, <2>0, <2>1, <3>1, <3>4
    <3> QED
      BY <2>0, <3>2, <3>3, <3>4
  <2>2. CASE f = c
    <3>1. CASE n \in old
      <4>1. m.ev[n][k] = mesh.ev[n][k] /\ mesh.ev[n][k] \in mesh.v
        BY <1>1, <1>4, <3>1
      <4> QED
        BY <1>3, <1>4, <1>7, <1>n1, <2>0, <2>2, <3>1, <4>1
    <3>2. CASE n = c
      BY <1>3, <1>4, <1>8, <2>0, <2>2, <3>2
    <3>3. CASE n = d
      BY <1>3, <1>4, <1>7, <1>8, <1>n0, <2>0, <2>2, <3>3
    <3> QED
      BY <2>0, <3>1, <3>2, <3>3
  <2>3. CASE f = d
    <3>1. CASE n \in old
      <4>1. m.ev[n][k] = mesh.ev[n][k] /\ mesh.ev[n][k] \in mesh.v
        BY <1>1, <1>4, <3>1
      <4> QED
        BY <1>3, <1>4, <1>7, <1>n2, <2>0, <2>3, <3>1, <4>1
    <3>2. CASE n = d
      BY <1>3, <1>4, <1>8, <2>0, <2>3, <3>2
    <3>3. CASE n = c
      BY <1>3, <1>4, <1>7, <1>8, <1>n0, <2>0, <2>3, <3>3
    <3> QED
      BY <2>0, <3>1, <3>2, <3>3
  <2> QED
    BY <2>0, <2>1, <2>2, <2>3
<1>11. OtherNamed(m, is_free)
  <2> SUFFICES ASSUME NEW f \in m.e, NEW j \in Sides, m.ee[f][j] # Null
               PROVE  /\ ~is_free
                      /\ \E n \in m.e, k \in Sides :
                            m.ee[f][j] = n /\ m.ev[n][k] = m.ev[f][j] /\ (n # f \/ k # j)
    BY DEF OtherNamed, Meets
  <2>0. (f \in old \/ f = c \/ f = d) /\ (j = lv \/ j = r) /\ c \in m.e /\ d \in m.e
    BY <1>2, <1>4
  <2>1. ~is_free
    <3>1. is_free /\ f \in old => mesh.ee[f][j] # Null
      BY <1>6
    <3> QED
      BY <1>0, <1>6, <2>0, <3>1 DEF OtherNamed
  <2>2. CASE f \in old
    <3>1. m.ev[f][j] = mesh.ev[f][j]
      BY <1>4, <2>2
    <3>2. CASE mesh.ev[f][j] = v0
      BY <1>3, <1>4, <1>7, <2>0, <2>1, <2>2, <3>1, <3>2
    <3>3. CASE mesh.ev[f][j] # v0 /\ mesh.ev[f][j] = v1
      BY <1>2, <1>3, <1>4, <1>7, <2>0, <2>1, <2>2, <3>1, <3>3
    <3>4. CASE mesh.ev[f][j] # v0 /\ mesh.ev[f][j] # v1
      <4>1. m.ee[f][j] = mesh.ee[f][j]
        BY <1>7, <2>1, <2>2, <3>4
      <4>2. PICK k \in Sides : /\ mesh.ee[f][j] \in mesh.e
                               /\ mesh.ev[mesh.ee[f][j]][k] = mesh.ev[f][j]
                               /\ mesh.ee[f][j] # f \/ k # j
        BY <1>0, <2>2, <4>1 DEF OtherNamed, Meets
      <4>3. mesh.ee[f][j] # e
        BY <1>2, <1>3, <3>4, <4>2
      <4>4. mesh.ee[f][j] \in m.e
        BY <1>4, <4>2, <4>3
      <4> QED
        BY <1>4, <2>1, <3>1, <4>1, <4>2, <4>4
    <3> QED
      BY <3>2, <3>3, <3>4
  <2>3. ASSUME NEW x \in Sides, mesh.ee[e][x] # Null, v0 # v1
        PROVE  /\ mesh.ee[e][x] \in m.e /\ mesh.ee[e][x] \in mesh.e
               /\ \E k \in Sides : mesh.ev[mesh.ee[e][x]][k] = mesh.ev[e][x]
    <3>1. PICK k \in Sides : /\ mesh.ee[e][x] \in mesh.e
                             /\ mesh.ev[mesh.ee[e][x]][k] = mesh.ev[e][x]
                             /\ mesh.ee[e][x] # e \/ k # x
      BY <1>0, <1>3, <2>3 DEF OtherNamed, Meets
    <3>2. mesh.ee[e][x] # e
      BY <1>2, <1>3, <2>3, <3>1
    <3> QED
      BY <1>4, <3>1, <3>2
  <2>4. CASE f = c
    <3>1. CASE j = r \/ v0 = v1
      BY <1>2, <1>3, <1>4, <1>7, <2>0, <2>1, <2>4, <3>1
    <3>2. CASE j = lv /\ v0 # v1
      BY <1>3, <1>4, <1>7, <2>1, <2>3, <2>4, <3>2
    <3> QED
      BY <2>0, <3>1, <3>2
  <2>5. CASE f = d
    <3>1. CASE j = lv \/ v0 = v1
      BY <1>2, <1>3, <1>4, <1>7, <2>0, <2>1, <2>5, <3>1
    <3>2. CASE j = r /\ v0 # v1
      BY <1>2, <1>3, <1>4, <1>7, <2>1, <2>3, <2>5, <3>2
    <3> QED
      BY <2>0, <3>1, <3>2
  <2> QED
    BY <2>0, <2>2, <2>4, <2>5
<1>12. VertexEdge(m)
  <2> SUFFICES ASSUME NEW v \in m.v
               PROVE  m.ve[v] \in m.e /\ \E j \in Sides : m.ev[m.ve[v]][j] = v
    BY DEF VertexEdge
  <2>0. c \in m.e /\ d \in m.e
    BY <1>4
  <2>1. CASE v \in {v0, v1}
    BY <1>2, <1>3, <1>4, <1>5, <2>0, <2>1
  <2>2. CASE v \in {w0, w1}
    BY <1>2, <1>3, <1>4, <1>5, <2>0, <2>2
  <2>3. CASE v \in mesh.v \ {v0, v1}
    <3>1. m.ve[v] = mesh.ve[v] /\ mesh.ve[v] \in mesh.e
      BY <1>0, <1>5, <2>3 DEF VertexEdge
    <3>2. PICK j \in Sides : mesh.ev[mesh.ve[v]][j] = v
      BY <1>0, <2>3 DEF VertexEdge
    <3>3. mesh.ve[v] # e
      BY <1>2, <1>3, <2>3, <3>2
    <3> QED
      BY <1>4, <3>1, <3>2, <3>3
  <2> QED
    BY <1>4, <2>1, <2>2, <2>3
<1> QED
  BY <1>9, <1>10, <1>11, <1>12 DEF Agree, m

-----------------------------------------------------------------------------
\* An edge that is not refused has two vertices and a neighbour.
LEMMA NotRefused ==
    ASSUME Sound, ~is_free, NEW e \in mesh.e, NEW lv \in Sides, ~collapse_refused(e, lv)
    PROVE  /\ mesh.ev[e][lv] # mesh.ev[e][1 - lv]
           /\ mesh.ee[e][lv] # Null \/ mesh.ee[e][1 - lv] # Null
<1>1. ~is_self_loop(e, lv)
  BY DEF collapse_refused
<1>2. \E i \in Sides : ~(neighbor_eid(e, lv, i) < 0)
  BY DEF collapse_refused
<1>3. /\ neighbor_eid(e, lv, 0) = mesh.ee[e][lv]
      /\ neighbor_eid(e, lv, 1) = mesh.ee[e][1 - lv]
  BY DEF neighbor_eid, side
<1> QED
  BY <1>1, <1>2, <1>3, SelfLoop DEF Sides, Null

\* The tables after a collapse, entry by entry: what was at the vertex v0 of e
\* is at v1, and across it is what was across the other end of e.
LEMMA CollapseTables ==
    ASSUME Sound, ~is_free, NEW e \in mesh.e, NEW lv \in Sides, ~collapse_refused(e, lv)
    PROVE  LET m  == collapse_edge_single_mesh(e, lv)
               v0 == mesh.ev[e][lv]
               v1 == mesh.ev[e][1 - lv]
               n0 == mesh.ee[e][lv]
               n1 == mesh.ee[e][1 - lv]
           IN  /\ m \in MeshType(capacity)
               /\ m.v = mesh.v \ {v0} /\ m.e = mesh.e \ {e}
               /\ \A f \in mesh.e \ {e}, k \in Sides :
                     /\ m.ev[f][k] = IF mesh.ev[f][k] = v0 THEN v1 ELSE mesh.ev[f][k]
                     /\ m.ee[f][k] = IF mesh.ev[f][k] = v0 THEN n1
                                     ELSE IF mesh.ev[f][k] = v1 THEN n0
                                     ELSE mesh.ee[f][k]
               /\ m.ve[v1] = IF n1 # Null THEN n1 ELSE n0
               /\ \A v \in mesh.v \ {v1} : m.ve[v] = mesh.ve[v]
<1> DEFINE m  == collapse_edge_single_mesh(e, lv)
           r  == 1 - lv
           v0 == mesh.ev[e][lv]
           v1 == mesh.ev[e][r]
           n0 == mesh.ee[e][lv]
           n1 == mesh.ee[e][r]
           V  == 0 .. capacity.v - 1
           E  == 0 .. capacity.e - 1
           nbr(i) == neighbor_eid(e, lv, i)
           ee(n, j) == {i \in Sides : nbr(i) = n /\ mesh.ee[n][j] = e}
           ee2 == [n \in DOMAIN mesh.ee |-> [j \in Sides |->
                      IF ee(n, j) = {} THEN mesh.ee[n][j]
                      ELSE nbr(1 - CHOOSE i \in ee(n, j) : TRUE)]]
           ev2 == [n \in DOMAIN mesh.ev |-> [j \in Sides |->
                      IF n = n0 /\ mesh.ev[n][j] = v0 THEN v1 ELSE mesh.ev[n][j]]]
           ve2 == [mesh.ve EXCEPT ![v1] = IF n1 # Null THEN n1 ELSE n0]
<1>0. /\ NamesOther(mesh, is_free) /\ OtherNamed(mesh, is_free) /\ EndsActive(mesh)
      /\ mesh.v \subseteq V /\ mesh.e \subseteq E
      /\ \A n \in E, j \in Sides : /\ mesh.ev[n][j] \in V \cup {Null}
                                   /\ mesh.ee[n][j] \in E \cup {Null}
  BY SoundParts
<1>1. r \in Sides /\ r # lv /\ Sides = {0, 1} /\ \A j \in Sides : j = lv \/ j = r
  BY DEF Sides
<1>2. nbr(0) = n0 /\ nbr(1) = n1
  BY DEF neighbor_eid, side
<1>3. spine_vid(e, lv, 0) = v0 /\ spine_vid(e, lv, 1) = v1
  BY DEF spine_vid, side
<1>4. /\ mesh \in [v : SUBSET V, e : SUBSET E,
                   ev : [E -> [Sides -> V \cup {Null}]],
                   ee : [E -> [Sides -> E \cup {Null}]],
                   ve : [V -> E \cup {Null}]]
  BY SoundParts DEF MeshType
<1>5. /\ v0 \in mesh.v /\ v1 \in mesh.v /\ v0 \in V /\ v1 \in V /\ v0 # v1
      /\ n0 \in E \cup {Null} /\ n1 \in E \cup {Null}
  BY <1>0, <1>1, NotRefused DEF EndsActive
<1>6. m = [mesh EXCEPT !.v = @ \ {v0}, !.e = @ \ {e}, !.ee = ee2, !.ev = ev2, !.ve[v1] = IF n1 # Null THEN n1 ELSE n0]
  BY <1>2, <1>3 DEF collapse_edge_single_mesh
<1>7. m = [v |-> mesh.v \ {v0}, e |-> mesh.e \ {e}, ev |-> ev2, ee |-> ee2, ve |-> ve2]
  <2> HIDE DEF m, v0, v1, n0, n1, ee2, ev2, V, E
  <2> QED
    BY <1>4, <1>6
<1>8. /\ ev2 \in [E -> [Sides -> V \cup {Null}]]
      /\ \A f \in mesh.e \ {e}, k \in Sides :
            ev2[f][k] = IF mesh.ev[f][k] = v0 THEN v1 ELSE mesh.ev[f][k]
  <2>1. ev2 \in [E -> [Sides -> V \cup {Null}]]
    <3> HIDE DEF v0, v1, n0, E, V
    <3> QED
      BY <1>0, <1>4, <1>5
  <2>2. ASSUME NEW f \in mesh.e \ {e}, NEW k \in Sides, mesh.ev[f][k] = v0
        PROVE  f = n0
    BY <1>0, <2>2 DEF NamesOther, Meets
  <2>3. \A f \in mesh.e : ev2[f] = [j \in Sides |->
                      IF f = n0 /\ mesh.ev[f][j] = v0 THEN v1 ELSE mesh.ev[f][j]]
    <3> HIDE DEF v0, v1, n0, E, V
    <3> QED
      BY <1>0, <1>4
  <2>4. ASSUME NEW f \in mesh.e \ {e}, NEW k \in Sides
        PROVE  ev2[f][k] = IF mesh.ev[f][k] = v0 THEN v1 ELSE mesh.ev[f][k]
    <3> HIDE DEF ev2, v0, v1, n0
    <3>1. ev2[f][k] = IF f = n0 /\ mesh.ev[f][k] = v0 THEN v1 ELSE mesh.ev[f][k]
      BY <2>3
    <3> QED
      BY <2>2, <3>1
  <2> QED
    BY <2>1, <2>4
<1>9. /\ ve2 \in [V -> E \cup {Null}]
      /\ ve2[v1] = IF n1 # Null THEN n1 ELSE n0
      /\ \A v \in mesh.v \ {v1} : ve2[v] = mesh.ve[v]
  <2> HIDE DEF v1, n0, n1, E, V
  <2> QED
    BY <1>0, <1>4, <1>5
<1>10. ASSUME NEW f \in mesh.e \ {e}, NEW k \in Sides
       PROVE  ee2[f][k] = IF mesh.ev[f][k] = v0 THEN n1
                          ELSE IF mesh.ev[f][k] = v1 THEN n0
                          ELSE mesh.ee[f][k]
  <2>0. ee2[f][k] = IF ee(f, k) = {} THEN mesh.ee[f][k]
                    ELSE nbr(1 - CHOOSE i \in ee(f, k) : TRUE)
    <3> HIDE DEF nbr, ee, E, V
    <3> QED
      BY <1>0, <1>4
  <2>1. ASSUME mesh.ev[f][k] = v0 PROVE ee2[f][k] = n1
    <3>1. f = n0 /\ mesh.ee[f][k] = e
      BY <1>0, <2>1 DEF NamesOther, Meets
    <3>2. 0 \in ee(f, k) /\ (1 \in ee(f, k) => n0 = n1)
      BY <1>1, <1>2, <3>1
    <3> DEFINE i == CHOOSE i \in ee(f, k) : TRUE
    <3>3. i \in ee(f, k) /\ i \in {0, 1}
      BY <1>1, <3>2
    <3>4. ee2[f][k] = nbr(1 - i)
      BY <2>0, <3>2
    <3> HIDE DEF i, ee, nbr, n0, n1, ee2
    <3>5. CASE i = 0
      <4>1. 1 - i = 1
        BY <3>5
      <4> QED
        BY <1>2, <3>2, <3>3, <3>4, <3>5, <4>1
    <3>6. CASE i = 1
      <4>1. 1 - i = 0
        BY <3>6
      <4> QED
        BY <1>2, <3>2, <3>3, <3>4, <3>6, <4>1
    <3> QED
      BY <3>3, <3>5, <3>6
  <2>2. ASSUME mesh.ev[f][k] = v1 PROVE ee2[f][k] = n0
    <3>1. f = n1 /\ mesh.ee[f][k] = e
      BY <1>0, <1>1, <2>2 DEF NamesOther, Meets
    <3>2. 1 \in ee(f, k) /\ (0 \in ee(f, k) => n0 = n1)
      BY <1>1, <1>2, <3>1
    <3> DEFINE i == CHOOSE i \in ee(f, k) : TRUE
    <3>3. i \in ee(f, k) /\ i \in {0, 1}
      BY <1>1, <3>2
    <3>4. ee2[f][k] = nbr(1 - i)
      BY <2>0, <3>2
    <3> HIDE DEF i, ee, nbr, n0, n1, ee2
    <3>5. CASE i = 0
      <4>1. 1 - i = 1
        BY <3>5
      <4> QED
        BY <1>2, <3>2, <3>3, <3>4, <3>5, <4>1
    <3>6. CASE i = 1
      <4>1. 1 - i = 0
        BY <3>6
      <4> QED
        BY <1>2, <3>2, <3>3, <3>4, <3>6, <4>1
    <3> QED
      BY <3>3, <3>5, <3>6
  <2>3. ASSUME mesh.ev[f][k] # v0, mesh.ev[f][k] # v1 PROVE ee2[f][k] = mesh.ee[f][k]
    <3>1. e # Null
      BY <1>0, SoundParts DEF Null
    <3>2. ASSUME mesh.ee[f][k] = e PROVE FALSE
      <4>1. \E l \in Sides : mesh.ev[e][l] = mesh.ev[f][k]
        BY <1>0, <3>1, <3>2 DEF OtherNamed, Meets
      <4> QED
        BY <1>1, <2>3, <4>1
    <3>3. ee(f, k) = {}
      BY <3>2
    <3> QED
      BY <2>0, <3>3
  <2> HIDE DEF ee2
  <2> QED
    BY <2>1, <2>2, <2>3
<1>11. ee2 \in [E -> [Sides -> E \cup {Null}]]
  <2>1. ASSUME NEW n \in E, NEW j \in Sides, ee(n, j) # {}
        PROVE  nbr(1 - CHOOSE i \in ee(n, j) : TRUE) \in E \cup {Null}
    <3>1. (CHOOSE i \in ee(n, j) : TRUE) \in Sides
      BY <2>1
    <3>2. \A i \in Sides : nbr(1 - i) \in {n0, n1}
      BY <1>1, <1>2
    <3> HIDE DEF nbr, E, n0, n1
    <3> QED
      BY <1>5, <3>1, <3>2
  <2> HIDE DEF nbr, ee, E, V
  <2> QED
    BY <1>0, <1>4, <2>1
<1> QED
  <2>1. m.v = mesh.v \ {v0} /\ m.e = mesh.e \ {e}
        /\ m.ev = ev2 /\ m.ee = ee2 /\ m.ve = ve2
    BY <1>7
  <2>2. m \in MeshType(capacity)
    <3>1. mesh.v \ {v0} \in SUBSET V /\ mesh.e \ {e} \in SUBSET E
      BY <1>0
    <3> HIDE DEF m, ev2, ee2, ve2
    <3> QED
      BY <1>7, <1>8, <1>9, <1>11, <3>1 DEF MeshType
  <2> HIDE DEF m, ev2, ee2, ve2
  <2> QED
    BY <1>8, <1>9, <1>10, <2>1, <2>2 DEF m

\* A collapse keeps the agreement: the edges across the ends of e, one or two,
\* now are at v1.
LEMMA CollapseAgrees ==
    ASSUME Sound, ~is_free, NEW e \in mesh.e, NEW lv \in Sides, ~collapse_refused(e, lv)
    PROVE  LET m == collapse_edge_single_mesh(e, lv)
           IN  /\ Agree(m, is_free)
               /\ \A j \in Sides : mesh.ee[e][j] # Null =>
                     /\ mesh.ee[e][j] \in m.e
                     /\ \E k \in Sides : m.ev[mesh.ee[e][j]][k] = mesh.ev[e][1 - lv]
<1> DEFINE m  == collapse_edge_single_mesh(e, lv)
           r  == 1 - lv
           v0 == mesh.ev[e][lv]
           v1 == mesh.ev[e][r]
           n0 == mesh.ee[e][lv]
           n1 == mesh.ee[e][r]
           rest == mesh.e \ {e}
<1>0. /\ EndsActive(mesh) /\ NamesOther(mesh, is_free)
      /\ OtherNamed(mesh, is_free) /\ VertexEdge(mesh) /\ Null \notin mesh.e
  BY SoundParts DEF Null
<1>1. r \in Sides /\ r # lv /\ \A j \in Sides : j = lv \/ j = r
  BY DEF Sides
<1>2. v0 = mesh.ev[e][lv] /\ v1 = mesh.ev[e][r] /\ v0 # v1 /\ v1 \in mesh.v
      /\ (n0 # Null \/ n1 # Null)
  BY <1>0, <1>1, NotRefused DEF EndsActive
<1>3. /\ m.v = mesh.v \ {v0} /\ m.e = rest
      /\ \A f \in rest, k \in Sides :
            /\ m.ev[f][k] = IF mesh.ev[f][k] = v0 THEN v1 ELSE mesh.ev[f][k]
            /\ m.ee[f][k] = IF mesh.ev[f][k] = v0 THEN n1
                            ELSE IF mesh.ev[f][k] = v1 THEN n0
                            ELSE mesh.ee[f][k]
      /\ m.ve[v1] = IF n1 # Null THEN n1 ELSE n0
      /\ \A v \in mesh.v \ {v1} : m.ve[v] = mesh.ve[v]
  BY CollapseTables
<1>4. ASSUME NEW f \in rest, NEW k \in Sides
      PROVE  /\ mesh.ev[f][k] = v0 => n0 = f /\ mesh.ee[f][k] = e
             /\ mesh.ev[f][k] = v1 => n1 = f /\ mesh.ee[f][k] = e
  BY <1>0, <1>1 DEF NamesOther, Meets
<1>5. ASSUME NEW f \in rest, NEW n \in rest, NEW j \in Sides, NEW k \in Sides,
             mesh.ev[n][k] = mesh.ev[f][j], n # f \/ k # j
      PROVE  mesh.ee[f][j] = n /\ mesh.ev[f][j] # v0 /\ mesh.ev[f][j] # v1
  <2>1. mesh.ee[f][j] = n
    BY <1>0, <1>5 DEF NamesOther, Meets
  <2> QED
    BY <1>4, <2>1
<1>6. ASSUME n0 # Null PROVE n0 \in rest /\ \E k \in Sides : mesh.ev[n0][k] = v0
  <2>1. PICK k \in Sides : n0 \in mesh.e /\ Meets(mesh, e, lv, n0, k)
    BY <1>0, <1>6 DEF OtherNamed
  <2>2. n0 # e
    BY <1>1, <1>2, <2>1 DEF Meets
  <2> QED
    BY <2>1, <2>2 DEF Meets
<1>7. ASSUME n1 # Null PROVE n1 \in rest /\ \E k \in Sides : mesh.ev[n1][k] = v1
  <2>1. PICK k \in Sides : n1 \in mesh.e /\ Meets(mesh, e, r, n1, k)
    BY <1>0, <1>1, <1>7 DEF OtherNamed
  <2>2. n1 # e
    BY <1>1, <1>2, <2>1 DEF Meets
  <2> QED
    BY <2>1, <2>2 DEF Meets
<1>8. \A f \in rest, k \in Sides : mesh.ev[f][k] \in mesh.v
  BY <1>0 DEF EndsActive
<1> HIDE DEF m, r, v0, v1, n0, n1
<1>9. EndsActive(m)
  BY <1>2, <1>3, <1>8 DEF EndsActive
<1>10. NamesOther(m, is_free)
  <2> SUFFICES ASSUME NEW f \in rest, NEW n \in rest, NEW j \in Sides, NEW k \in Sides,
                      m.ev[n][k] = m.ev[f][j], n # f \/ k # j
               PROVE  m.ee[f][j] = n
    BY <1>3 DEF NamesOther, Meets
  <2>1. CASE mesh.ev[n][k] = mesh.ev[f][j]
    BY <1>3, <1>5, <2>1
  <2>2. CASE mesh.ev[n][k] # mesh.ev[f][j]
    <3>1. \/ mesh.ev[f][j] = v0 /\ mesh.ev[n][k] = v1
          \/ mesh.ev[f][j] = v1 /\ mesh.ev[n][k] = v0
      BY <1>3, <2>2
    <3> QED
      BY <1>2, <1>3, <1>4, <3>1
  <2> QED
    BY <2>1, <2>2
<1>11. OtherNamed(m, is_free)
  <2> SUFFICES ASSUME NEW f \in rest, NEW j \in Sides, m.ee[f][j] # Null
               PROVE  \E n \in rest, k \in Sides :
                         m.ee[f][j] = n /\ m.ev[n][k] = m.ev[f][j] /\ (n # f \/ k # j)
    BY <1>3 DEF OtherNamed, Meets
  <2>1. CASE mesh.ev[f][j] = v0
    <3>1. m.ee[f][j] = n1 /\ m.ev[f][j] = v1
      BY <1>3, <2>1
    <3>2. PICK k \in Sides : n1 \in rest /\ mesh.ev[n1][k] = v1
      BY <1>7, <3>1
    <3> QED
      BY <1>2, <1>3, <2>1, <3>1, <3>2
  <2>2. CASE mesh.ev[f][j] = v1
    <3>1. m.ee[f][j] = n0 /\ m.ev[f][j] = v1
      BY <1>2, <1>3, <2>2
    <3>2. PICK k \in Sides : n0 \in rest /\ mesh.ev[n0][k] = v0
      BY <1>6, <3>1
    <3> QED
      BY <1>2, <1>3, <2>2, <3>1, <3>2
  <2>3. CASE mesh.ev[f][j] # v0 /\ mesh.ev[f][j] # v1
    <3>1. m.ee[f][j] = mesh.ee[f][j] /\ m.ev[f][j] = mesh.ev[f][j]
      BY <1>3, <2>3
    <3>2. PICK k \in Sides : mesh.ee[f][j] \in mesh.e /\ Meets(mesh, f, j, mesh.ee[f][j], k)
      BY <1>0, <3>1 DEF OtherNamed
    <3>3. mesh.ee[f][j] \in rest
      BY <1>1, <1>2, <2>3, <3>2 DEF Meets
    <3> QED
      BY <1>3, <2>3, <3>1, <3>2, <3>3 DEF Meets
  <2> QED
    BY <2>1, <2>2, <2>3
<1>12. VertexEdge(m)
  <2> SUFFICES ASSUME NEW v \in mesh.v \ {v0}
               PROVE  m.ve[v] \in rest /\ \E j \in Sides : m.ev[m.ve[v]][j] = v
    BY <1>3 DEF VertexEdge
  <2>1. CASE v = v1
    <3>1. CASE n1 # Null
      BY <1>2, <1>3, <1>7, <2>1, <3>1
    <3>2. CASE n1 = Null
      BY <1>2, <1>3, <1>6, <2>1, <3>2
    <3> QED
      BY <3>1, <3>2
  <2>2. CASE v # v1
    <3>1. m.ve[v] = mesh.ve[v] /\ mesh.ve[v] \in mesh.e
      BY <1>0, <1>3, <2>2 DEF VertexEdge
    <3>2. PICK j \in Sides : mesh.ev[mesh.ve[v]][j] = v
      BY <1>0, <2>2 DEF VertexEdge
    <3>3. mesh.ve[v] \in rest
      BY <1>1, <1>2, <2>2, <3>1, <3>2
    <3> QED
      BY <1>3, <3>1, <3>2, <3>3
  <2> QED
    BY <2>1, <2>2
<1>13. Agree(m, is_free)
  BY <1>9, <1>10, <1>11, <1>12 DEF Agree
<1>14. n0 # Null => n0 \in m.e /\ \E k \in Sides : m.ev[n0][k] = v1
  BY <1>3, <1>6
<1>15. n1 # Null => n1 \in m.e /\ \E k \in Sides : m.ev[n1][k] = v1
  BY <1>2, <1>3, <1>7
<1>16. \A j \in Sides : mesh.ee[e][j] \in {n0, n1}
  BY <1>1 DEF n0, n1
<1>17. \A j \in Sides : mesh.ee[e][j] # Null =>
          mesh.ee[e][j] \in m.e /\ \E k \in Sides : m.ev[mesh.ee[e][j]][k] = v1
  BY <1>14, <1>15, <1>16
<1> QED
  BY <1>13, <1>17 DEF m, v1, r

\* In a free mesh an edge goes with its two vertices, which no other edge has.
LEMMA CollapseFreeAgrees ==
    ASSUME Sound, is_free, NEW e \in mesh.e, NEW lv \in Sides
    PROVE  LET m == collapse_edge_single_mesh(e, lv)
           IN  /\ m \in MeshType(capacity)
               /\ m.v \subseteq mesh.v /\ m.e = mesh.e \ {e}
               /\ Agree(m, is_free)
<1> DEFINE m  == collapse_edge_single_mesh(e, lv)
           v0 == mesh.ev[e][lv]
           v1 == mesh.ev[e][1 - lv]
<1>0. /\ EndsActive(mesh) /\ NamesOther(mesh, is_free)
      /\ OtherNamed(mesh, is_free) /\ VertexEdge(mesh)
      /\ mesh \in MeshType(capacity)
  BY SoundParts
<1>1. Sides = {lv, 1 - lv}
  BY DEF Sides
<1>2. m = [mesh EXCEPT !.v = @ \ {v0, v1}, !.e = @ \ {e}]
  BY DEF collapse_edge_single_mesh, spine_vid, side
<1>3. m \in MeshType(capacity)
  BY <1>0, <1>2 DEF MeshType
<1>4. m.v = mesh.v \ {v0, v1} /\ m.e = mesh.e \ {e}
      /\ m.ev = mesh.ev /\ m.ee = mesh.ee /\ m.ve = mesh.ve
  BY <1>0, <1>2 DEF MeshType
<1> HIDE DEF m
<1>5. \A f \in mesh.e \ {e}, j, k \in Sides : mesh.ev[f][j] # mesh.ev[e][k]
  BY <1>0 DEF NamesOther, Meets
<1>6. EndsActive(m)
  BY <1>0, <1>1, <1>4, <1>5 DEF EndsActive
<1>7. NamesOther(m, is_free)
  BY <1>0, <1>4 DEF NamesOther, Meets
<1>8. OtherNamed(m, is_free)
  BY <1>0, <1>4 DEF OtherNamed
<1>9. VertexEdge(m)
  BY <1>0, <1>1, <1>4 DEF VertexEdge
<1> QED
  BY <1>3, <1>4, <1>6, <1>7, <1>8, <1>9 DEF Agree, m

-----------------------------------------------------------------------------
\* The map of consolidate packs the active ids: it is one to one onto the ids
\* below their number, new2old undoes it, and a missing id stays missing.
LEMMA IdsArePacked ==
    ASSUME NEW n \in Nat, NEW A \in SUBSET (0 .. n - 1)
    PROVE  /\ Cardinality(A) \in Nat /\ Cardinality(A) <= n
           /\ \A a \in A : old2new(A, a) \in 0 .. Cardinality(A) - 1
           /\ \A a, b \in A : old2new(A, a) = old2new(A, b) => a = b
           /\ \A i \in 0 .. Cardinality(A) - 1 :
                 new2old(A, i) \in A /\ old2new(A, new2old(A, i)) = i
           /\ old2new(A, Null) = Null
<1> DEFINE below(a) == {x \in A : x < a}
           B == 0 .. Cardinality(A) - 1
<1>1. IsFiniteSet(A) /\ Cardinality(A) \in Nat /\ Cardinality(A) <= n
  <2>1. IsFiniteSet(0 .. n - 1) /\ Cardinality(0 .. n - 1) = n
    BY FS_Interval
  <2> QED
    BY <2>1, FS_Subset, FS_CardinalityType
<1>2. \A a \in A : a \in Nat /\ old2new(A, a) = Cardinality(below(a))
  BY DEF old2new
<1>3. \A a : below(a) \in SUBSET A /\ IsFiniteSet(below(a)) /\ Cardinality(below(a)) \in Nat
  <2>1. \A a : below(a) \in SUBSET A
    OBVIOUS
  <2> HIDE DEF below
  <2>2. \A a : IsFiniteSet(below(a))
    BY <1>1, <2>1, FS_Subset
  <2> QED
    BY <2>1, <2>2, FS_CardinalityType
<1>4. ASSUME NEW a \in A, NEW T \in SUBSET A, below(a) \subseteq T, a \in T
      PROVE  Cardinality(below(a)) < Cardinality(T)
  <2>1. a \notin below(a)
    BY <1>2
  <2>2. below(a) \in SUBSET T /\ below(a) # T /\ IsFiniteSet(T)
    BY <1>1, <1>4, <2>1, FS_Subset
  <2> HIDE DEF below
  <2>3. Cardinality(below(a)) <= Cardinality(T) /\ Cardinality(below(a)) # Cardinality(T)
    BY <2>2, FS_Subset
  <2>4. Cardinality(T) \in Nat
    BY <2>2, FS_CardinalityType
  <2> QED
    BY <1>3, <2>3, <2>4
<1>5. ASSUME NEW a \in A PROVE old2new(A, a) \in B
  <2>1. Cardinality(below(a)) < Cardinality(A)
    BY <1>3, <1>4
  <2> QED
    BY <1>1, <1>2, <1>3, <2>1
<1>6. ASSUME NEW a \in A, NEW b \in A, a < b PROVE old2new(A, a) < old2new(A, b)
  <2>1. below(a) \subseteq below(b) /\ a \in below(b)
    <3>1. a \in Int /\ b \in Int /\ \A x \in A : x \in Int
      OBVIOUS
    <3>2. \A x \in A : x < a => x < b
      BY <1>6, <3>1
    <3> QED
      BY <1>6, <3>2
  <2> HIDE DEF below
  <2> QED
    BY <1>2, <1>3, <1>4, <2>1
<1>7. ASSUME NEW a \in A, NEW b \in A, old2new(A, a) = old2new(A, b) PROVE a = b
  <2>1. old2new(A, a) \in Nat /\ old2new(A, b) \in Nat /\ a \in Nat /\ b \in Nat
    BY <1>2, <1>5
  <2> QED
    BY <1>6, <1>7, <2>1
<1>8. ASSUME NEW i \in B PROVE \E a \in A : old2new(A, a) = i
  <2> DEFINE f == [a \in A |-> old2new(A, a)]
  <2>1. f \in Injection(A, B)
    BY <1>5, <1>7, Fun_IsInj
  <2>2. IsFiniteSet(B) /\ Cardinality(B) = Cardinality(A)
    <3> DEFINE d == Cardinality(A) - 1
    <3>1. d \in Int /\ (IF 0 > d THEN 0 ELSE d - 0 + 1) = Cardinality(A)
      BY <1>1
    <3> HIDE DEF d
    <3>2. IsFiniteSet(0 .. d) /\ Cardinality(0 .. d) = IF 0 > d THEN 0 ELSE d - 0 + 1
      BY <3>1, FS_Interval
    <3> QED
      BY <3>1, <3>2 DEF d
  <2> HIDE DEF B, f
  <2>3. f \in Surjection(A, B)
    BY <2>1, <2>2, FS_Injection
  <2>4. \E a \in A : f[a] = i
    BY <2>3 DEF Surjection
  <2> QED
    BY <2>4 DEF f
<1>9. ASSUME NEW i \in B PROVE new2old(A, i) \in A /\ old2new(A, new2old(A, i)) = i
  BY <1>8 DEF new2old
<1>10. old2new(A, Null) = Null
  BY DEF old2new, Null
<1> QED
  BY <1>1, <1>5, <1>7, <1>9, <1>10

\* Renamed ids agree as the ids did.
LEMMA ConsolidateAgrees ==
    ASSUME Sound
    PROVE  /\ Cardinality(mesh.v) \in Nat /\ Cardinality(mesh.v) <= capacity.v
           /\ Cardinality(mesh.e) \in Nat /\ Cardinality(mesh.e) <= capacity.e
           /\ consolidated \in MeshType([v |-> Cardinality(mesh.v), e |-> Cardinality(mesh.e)])
           /\ Agree(consolidated, is_free)
<1> DEFINE m == consolidated
           V == 0 .. Cardinality(mesh.v) - 1
           E == 0 .. Cardinality(mesh.e) - 1
           newv(i) == old2new(mesh.v, i)
           newe(i) == old2new(mesh.e, i)
           oldv(i) == new2old(mesh.v, i)
           olde(i) == new2old(mesh.e, i)
<1>0. /\ EndsActive(mesh) /\ NamesOther(mesh, is_free)
      /\ OtherNamed(mesh, is_free) /\ VertexEdge(mesh)
      /\ Null \notin mesh.e
      /\ capacity.v \in Nat /\ capacity.e \in Nat
      /\ mesh.v \in SUBSET (0 .. capacity.v - 1) /\ mesh.e \in SUBSET (0 .. capacity.e - 1)
  BY SoundParts DEF Null
<1>1. /\ Cardinality(mesh.v) \in Nat /\ Cardinality(mesh.v) <= capacity.v
      /\ \A a \in mesh.v : newv(a) \in V
      /\ \A a, b \in mesh.v : newv(a) = newv(b) => a = b
      /\ \A i \in V : oldv(i) \in mesh.v /\ newv(oldv(i)) = i
  BY <1>0, IdsArePacked
<1>2. /\ Cardinality(mesh.e) \in Nat /\ Cardinality(mesh.e) <= capacity.e
      /\ \A a \in mesh.e : newe(a) \in E
      /\ \A a, b \in mesh.e : newe(a) = newe(b) => a = b
      /\ \A i \in E : olde(i) \in mesh.e /\ newe(olde(i)) = i
      /\ newe(Null) = Null
  BY <1>0, IdsArePacked
<1>3. \A a \in mesh.e : olde(newe(a)) = a
  BY <1>2
<1>4. /\ m.v = V /\ m.e = E
      /\ m.ev = [n \in E |-> [j \in Sides |-> newv(mesh.ev[olde(n)][j])]]
      /\ m.ee = [n \in E |-> [j \in Sides |-> newe(mesh.ee[olde(n)][j])]]
      /\ m.ve = [n \in V |-> newe(mesh.ve[oldv(n)])]
      /\ m = [v |-> m.v, e |-> m.e, ev |-> m.ev, ee |-> m.ee, ve |-> m.ve]
  BY Zenon DEF consolidated
<1> HIDE DEF m, newv, newe, oldv, olde, V, E
<1>5. /\ \A n \in E, j \in Sides :
            /\ m.ev[n][j] = newv(mesh.ev[olde(n)][j])
            /\ m.ee[n][j] = newe(mesh.ee[olde(n)][j])
      /\ \A n \in V : m.ve[n] = newe(mesh.ve[oldv(n)])
  BY <1>4
<1>6. \A n \in E, j \in Sides : mesh.ev[olde(n)][j] \in mesh.v /\ m.ev[n][j] \in V
  BY <1>0, <1>1, <1>2, <1>5 DEF EndsActive
<1>7. \A n \in E, j \in Sides :
         \/ mesh.ee[olde(n)][j] = Null /\ m.ee[n][j] = Null
         \/ mesh.ee[olde(n)][j] \in mesh.e /\ m.ee[n][j] \in E
  BY <1>0, <1>2, <1>5 DEF OtherNamed
<1>8. \A n \in V : mesh.ve[oldv(n)] \in mesh.e /\ m.ve[n] \in E
  BY <1>0, <1>1, <1>2, <1>5 DEF VertexEdge
<1>9. m \in MeshType([v |-> Cardinality(mesh.v), e |-> Cardinality(mesh.e)])
  <2>1. \A n \in E : m.ev[n] = [j \in Sides |-> newv(mesh.ev[olde(n)][j])]
                     /\ m.ee[n] = [j \in Sides |-> newe(mesh.ee[olde(n)][j])]
    BY <1>4
  <2>2. m.ev \in [E -> [Sides -> V \cup {Null}]]
    BY <1>4, <1>5, <1>6
  <2>3. m.ee \in [E -> [Sides -> E \cup {Null}]]
    BY <1>4, <1>5, <1>7
  <2>4. m.ve \in [V -> E \cup {Null}]
    BY <1>4, <1>5, <1>8
  <2> QED
    BY <1>4, <2>2, <2>3, <2>4 DEF MeshType, V, E
<1>10. EndsActive(m)
  BY <1>4, <1>6 DEF EndsActive
<1>11. \A f, n \in E, j, k \in Sides :
          Meets(m, f, j, n, k) <=> Meets(mesh, olde(f), j, olde(n), k)
  <2> SUFFICES ASSUME NEW f \in E, NEW n \in E, NEW j \in Sides, NEW k \in Sides
               PROVE  Meets(m, f, j, n, k) <=> Meets(mesh, olde(f), j, olde(n), k)
    OBVIOUS
  <2>1. n = f <=> olde(n) = olde(f)
    BY <1>2
  <2>2. m.ev[n][k] = m.ev[f][j] <=> mesh.ev[olde(n)][k] = mesh.ev[olde(f)][j]
    BY <1>1, <1>5, <1>6
  <2> QED
    BY <2>1, <2>2 DEF Meets
<1>12. NamesOther(m, is_free)
  <2> SUFFICES ASSUME NEW f \in E, NEW n \in E, NEW j \in Sides, NEW k \in Sides,
                      Meets(m, f, j, n, k)
               PROVE  ~is_free /\ m.ee[f][j] = n
    BY <1>4 DEF NamesOther
  <2>1. Meets(mesh, olde(f), j, olde(n), k)
    BY <1>11
  <2>2. ~is_free /\ mesh.ee[olde(f)][j] = olde(n)
    BY <1>0, <1>2, <2>1 DEF NamesOther
  <2> QED
    BY <1>2, <1>5, <2>2
<1>13. OtherNamed(m, is_free)
  <2> SUFFICES ASSUME NEW f \in E, NEW j \in Sides, m.ee[f][j] # Null
               PROVE  /\ ~is_free /\ m.ee[f][j] \in E
                      /\ \E k \in Sides : Meets(m, f, j, m.ee[f][j], k)
    BY <1>4 DEF OtherNamed
  <2>1. mesh.ee[olde(f)][j] # Null /\ m.ee[f][j] \in E
    BY <1>0, <1>7
  <2>2. PICK k \in Sides : /\ ~is_free /\ mesh.ee[olde(f)][j] \in mesh.e
                           /\ Meets(mesh, olde(f), j, mesh.ee[olde(f)][j], k)
    BY <1>0, <1>2, <2>1 DEF OtherNamed
  <2>3. olde(m.ee[f][j]) = mesh.ee[olde(f)][j]
    BY <1>3, <1>5, <2>2
  <2>4. Meets(m, f, j, m.ee[f][j], k)
    BY <1>11, <2>1, <2>2, <2>3
  <2> QED
    BY <2>1, <2>2, <2>4
<1>14. VertexEdge(m)
  <2> SUFFICES ASSUME NEW v \in V
               PROVE  m.ve[v] \in E /\ \E j \in Sides : m.ev[m.ve[v]][j] = v
    BY <1>4 DEF VertexEdge
  <2>1. mesh.ve[oldv(v)] \in mesh.e /\ m.ve[v] \in E
    BY <1>8
  <2>2. PICK j \in Sides : mesh.ev[mesh.ve[oldv(v)]][j] = oldv(v)
    BY <1>0, <1>1 DEF VertexEdge
  <2>3. olde(m.ve[v]) = mesh.ve[oldv(v)]
    BY <1>3, <1>5, <2>1
  <2>4. m.ev[m.ve[v]][j] = newv(oldv(v))
    BY <1>5, <2>1, <2>2, <2>3
  <2> QED
    BY <1>1, <2>1, <2>4
<1> QED
  BY <1>1, <1>2, <1>9, <1>10, <1>12, <1>13, <1>14 DEF Agree, m

-----------------------------------------------------------------------------
\* The ids that a step makes active were never given before.
Fresh == /\ mesh'.v \ mesh.v \subseteq capacity.v .. capacity'.v - 1
         /\ mesh'.e \ mesh.e \subseteq capacity.e .. capacity'.e - 1

\* A tuple at an end of an edge, from whatever side it starts.
LEMMA TupleAt ==
    ASSUME NEW m, NEW e, NEW v, \E j \in Sides : m.ev[e][j] = v
    PROVE  tuple_at(m, e, v) = [edge |-> e, vertex |-> v]
BY DEF tuple_at, Sides

\* A split that is accepted, or undone.
LEMMA SplitStep ==
    ASSUME Inv, NEW e \in mesh.e, NEW lv \in Sides, NEW accepted \in BOOLEAN,
           split_edge(e, lv, accepted)
    PROVE  Inv' /\ OutputNavigable' /\ Fresh
<1> DEFINE m == split_edge_single_mesh(e, lv)
           g == grown(new_vertex_count, 2)
           C2 == [v |-> capacity.v + new_vertex_count, e |-> capacity.e + 2]
<1>0. /\ capacity \in [v : Nat, e : Nat] /\ is_free \in BOOLEAN
      /\ EndsActive(mesh) /\ Agree(mesh, is_free)
      /\ mesh.v \subseteq 0 .. capacity.v - 1 /\ mesh.e \subseteq 0 .. capacity.e - 1
  BY InvParts DEF Inv
<1>1. new_vertex_count \in Nat /\ new_vertex_count = IF is_free THEN 2 ELSE 1
  BY DEF new_vertex_count
<1>2. /\ C2.v <= MaxVertices /\ C2.e <= MaxEdges
      /\ mesh' = IF accepted THEN m ELSE g
      /\ capacity' = C2 /\ is_free' = is_free
      /\ output' = output_of("split", accepted, e, lv,
                     IF is_free THEN [edge |-> split_e(1), vertex |-> m.ev[split_e(1)][0]]
                     ELSE tuple_at(m, split_e(1), split_v(0)))
  BY DEF split_edge
<1>3. capacity' \in [v : 0 .. MaxVertices, e : 0 .. MaxEdges]
  BY <1>0, <1>1, <1>2, BoundsAssumption
<1>4. m \in MeshType(C2) /\ Agree(m, is_free)
  BY SplitTables, InvSound, SplitAgrees
<1>5. g \in MeshType(C2) /\ Agree(g, is_free) /\ g.v = mesh.v /\ g.e = mesh.e
  <2>1. /\ g \in MeshType(C2) /\ g.v = mesh.v /\ g.e = mesh.e
        /\ \A f \in 0 .. capacity.e - 1 : g.ev[f] = mesh.ev[f] /\ g.ee[f] = mesh.ee[f]
        /\ \A v \in 0 .. capacity.v - 1 : g.ve[v] = mesh.ve[v]
    <3>1. /\ grown(new_vertex_count, 2)
                \in MeshType([v |-> capacity.v + new_vertex_count, e |-> capacity.e + 2])
          /\ grown(new_vertex_count, 2).v = mesh.v /\ grown(new_vertex_count, 2).e = mesh.e
          /\ \A f \in 0 .. capacity.e - 1 :
                grown(new_vertex_count, 2).ev[f] = mesh.ev[f]
                /\ grown(new_vertex_count, 2).ee[f] = mesh.ee[f]
          /\ \A v \in 0 .. capacity.v - 1 : grown(new_vertex_count, 2).ve[v] = mesh.ve[v]
      <4>1. new_vertex_count \in Nat /\ 2 \in Nat
        BY <1>1
      <4> HIDE DEF m, g, C2
      <4> QED
        BY ONLY <4>1, GrownKeeps, InvSound, Inv
    <3> QED
      BY <3>1
  <2> HIDE DEF g
  <2>2. Agree(g, is_free)
    BY <1>0, <2>1, AgreeOfActive, InvSound
  <2> QED
    BY <2>1, <2>2
<1>6. Inv'
  BY <1>0, <1>2, <1>3, <1>4, <1>5 DEF Inv, TypeOK
<1>7. /\ m.v = mesh.v \cup {capacity.v, IF is_free THEN capacity.v + 1 ELSE capacity.v}
      /\ m.e = (mesh.e \cup {capacity.e, capacity.e + 1}) \ {e}
      /\ m.ev[capacity.e + 1][1 - lv] = mesh.ev[e][1 - lv]
      /\ m.ev[capacity.e + 1][lv] = IF is_free THEN capacity.v + 1 ELSE capacity.v
  BY SplitTables, InvSound
<1>8. Fresh
  <2> HIDE DEF m, g
  <2> QED
    BY <1>0, <1>1, <1>2, <1>5, <1>7 DEF Fresh
<1>9. OutputNavigable'
  <2> SUFFICES ASSUME accepted PROVE OutputNavigable'
    BY <1>2 DEF OutputNavigable, output_of, no_output
  <2> DEFINE c == capacity.e
             w == capacity.v
  <2>1. split_e(1) = c + 1 /\ split_v(0) = w /\ spine_vid(e, lv, 1) = mesh.ev[e][1 - lv]
    BY <1>0 DEF split_e, split_v, spine_vid, side
  <2>2. /\ output'.op = "split" /\ output'.spine[1] = mesh.ev[e][1 - lv]
        /\ output'.tuple = IF is_free THEN [edge |-> c + 1, vertex |-> m.ev[c + 1][0]]
                           ELSE tuple_at(m, c + 1, w)
    BY <1>2, <2>1 DEF output_of, Sides
  <2>3. c + 1 \in m.e /\ capacity'.e = c + 2 /\ mesh' = m /\ is_free' = is_free
    BY <1>0, <1>2, <1>7
  <2>4. CASE is_free
    <3>1. m.ev[c + 1][0] \in m.v
      BY <1>4, <2>3 DEF Agree, EndsActive, Sides
    <3>2. output'.tuple = [edge |-> c + 1, vertex |-> m.ev[c + 1][0]]
      BY <2>2, <2>4
    <3> HIDE DEF m
    <3> QED
      BY <2>2, <2>3, <2>4, <3>1, <3>2 DEF OutputNavigable, Sides
  <2>5. CASE ~is_free
    <3>1. output'.tuple = [edge |-> c + 1, vertex |-> w]
      BY <1>7, <2>2, <2>5, TupleAt
    <3>2. m.ev[c + 1][lv] = w /\ m.ev[c + 1][1 - lv] = output'.spine[1] /\ w \in m.v
      BY <1>7, <2>2, <2>5
    <3>3. capacity'.e - 1 = c + 1 /\ capacity'.v - 1 = w
      BY <1>0, <1>1, <1>2, <2>5
    <3> HIDE DEF m, c, w
    <3> QED
      BY <2>2, <2>3, <2>5, <3>1, <3>2, <3>3 DEF OutputNavigable
  <2> QED
    BY <1>0, <2>4, <2>5
<1> QED
  BY <1>6, <1>8, <1>9

\* A collapse that is accepted, undone, or refused by the executor.
LEMMA CollapseStep ==
    ASSUME Inv, NEW e \in mesh.e, NEW lv \in Sides, NEW accepted \in BOOLEAN,
           collapse_edge(e, lv, accepted)
    PROVE  Inv' /\ OutputNavigable' /\ Fresh
<1> DEFINE m == collapse_edge_single_mesh(e, lv)
           left == IF neighbor_eid(e, lv, 0) = Null THEN neighbor_eid(e, lv, 1)
                   ELSE neighbor_eid(e, lv, 0)
           refused == collapse_refused(e, lv)
<1>0. /\ capacity \in [v : Nat, e : Nat] /\ is_free \in BOOLEAN
      /\ EndsActive(mesh) /\ Agree(mesh, is_free)
  BY InvParts DEF Inv
<1>1. /\ is_free => accepted
      /\ mesh' = IF accepted /\ ~refused THEN m ELSE mesh
      /\ capacity' = capacity /\ is_free' = is_free
      /\ output' = output_of("collapse", accepted, e, lv,
                      IF is_free \/ refused THEN null_tuple
                      ELSE tuple_at(m, left, spine_vid(e, lv, 1)))
  BY DEF collapse_edge
<1>2. ~refused => m \in MeshType(capacity) /\ Agree(m, is_free)
                  /\ m.v \subseteq mesh.v /\ m.e = mesh.e \ {e}
  <2>1. CASE is_free
    BY <2>1, CollapseFreeAgrees, InvSound
  <2>2. CASE ~is_free
    BY <2>2, CollapseTables, InvSound, CollapseAgrees
  <2> QED
    BY <2>1, <2>2
<1>3. Inv'
  BY <1>0, <1>1, <1>2 DEF Inv, TypeOK
<1>4. Fresh
  BY <1>1, <1>2 DEF Fresh
<1>5. OutputNavigable'
  <2> DEFINE v1 == mesh.ev[e][1 - lv]
  <2>1. CASE ~accepted \/ is_free \/ refused
    BY <1>1, <2>1 DEF OutputNavigable, output_of, no_output
  <2>2. CASE accepted /\ ~is_free /\ ~refused
    <3>1. /\ neighbor_eid(e, lv, 0) = mesh.ee[e][lv]
          /\ neighbor_eid(e, lv, 1) = mesh.ee[e][1 - lv]
          /\ spine_vid(e, lv, 1) = v1 /\ 1 - lv \in Sides
      BY DEF neighbor_eid, spine_vid, side, Sides
    <3>2. left # Null /\ (left = mesh.ee[e][lv] \/ left = mesh.ee[e][1 - lv])
      BY <2>2, <3>1, NotRefused, InvSound
    <3>3. left \in m.e /\ \E k \in Sides : m.ev[left][k] = v1
      BY <2>2, <3>1, <3>2, CollapseAgrees, InvSound
    <3>4. v1 \in m.v
      BY <1>2, <2>2, <3>3 DEF Agree, EndsActive
    <3>5. /\ output'.op = "collapse" /\ output'.spine[1] = v1
          /\ output'.tuple = tuple_at(m, left, v1) /\ mesh' = m
      BY <1>1, <2>2, <3>1 DEF output_of, Sides
    <3> HIDE DEF m, left, v1
    <3>6. output'.tuple = [edge |-> left, vertex |-> v1]
      BY <3>3, <3>5, TupleAt
    <3> QED
      BY <3>3, <3>4, <3>5, <3>6 DEF OutputNavigable
  <2> QED
    BY <2>1, <2>2
<1> QED
  BY <1>3, <1>4, <1>5

\* consolidate returns no tuple.
LEMMA ConsolidateStep ==
    ASSUME Inv, consolidate
    PROVE  Inv' /\ OutputNavigable'
<1>1. /\ mesh' = consolidated
      /\ capacity' = [v |-> Cardinality(mesh.v), e |-> Cardinality(mesh.e)]
      /\ output' = no_output("consolidate", TRUE)
      /\ is_free' = is_free
  BY DEF consolidate
<1>2. /\ capacity.v \in 0 .. MaxVertices /\ capacity.e \in 0 .. MaxEdges
      /\ is_free \in BOOLEAN
  BY InvParts
<1>3. capacity' \in [v : 0 .. MaxVertices, e : 0 .. MaxEdges]
  BY <1>1, <1>2, ConsolidateAgrees, InvSound, BoundsAssumption
<1>4. Inv'
  BY <1>1, <1>2, <1>3, ConsolidateAgrees, InvSound DEF Inv, TypeOK
<1>5. output'.tuple = null_tuple
  BY <1>1 DEF no_output
<1> QED
  BY <1>4, <1>5 DEF OutputNavigable

\* Every step keeps the invariant, and leaves a tuple that can be navigated
\* from.
LEMMA NextInv == Inv /\ OutputNavigable /\ [Next]_vars => Inv' /\ OutputNavigable'
<1> SUFFICES ASSUME Inv, OutputNavigable, [Next]_vars PROVE Inv' /\ OutputNavigable'
  OBVIOUS
<1>1. CASE consolidate
  BY <1>1, ConsolidateStep
<1>2. ASSUME NEW e \in mesh.e, NEW lv \in Sides, NEW accepted \in BOOLEAN,
             split_edge(e, lv, accepted)
      PROVE  Inv' /\ OutputNavigable'
  BY <1>2, SplitStep
<1>3. ASSUME NEW e \in mesh.e, NEW lv \in Sides, NEW accepted \in BOOLEAN,
             collapse_edge(e, lv, accepted)
      PROVE  Inv' /\ OutputNavigable'
  BY <1>3, CollapseStep
<1>4. CASE UNCHANGED vars
  BY <1>4 DEF vars, Inv, TypeOK, OutputNavigable
<1> QED
  BY <1>1, <1>2, <1>3, <1>4 DEF Next

\* The invariant of every run of the mesh.
LEMMA InvHolds == Spec => [](Inv /\ OutputNavigable)
<1>1. Init => Inv /\ OutputNavigable
  BY InitInv DEF Init, OutputNavigable, no_output
<1> QED
  BY <1>1, NextInv, PTL DEF Spec

\* The tables have an entry at every id below the capacity, which names an id
\* below it or none: request_simplex_indices, the writes of both operations
\* and the renaming of consolidate stay inside.
THEOREM TypeCorrect == Spec => []TypeOK
<1>1. Inv => TypeOK
  BY DEF Inv
<1> QED
  BY <1>1, InvHolds, PTL

\* What EdgeMesh::is_connectivity_valid checks holds of every mesh that splits,
\* collapses and consolidations make of an input whose vertices are on at most
\* two edges.
THEOREM ConnectivityIsValid == Spec => []is_connectivity_valid
BY InvHolds, AgreeIsValid, InvSound, PTL

\* The tables of EdgeMesh are exactly what the incidence of the active edges
\* says, self-loops and loops of two edges included.
THEOREM TablesAlwaysAgree == Spec => []TablesAgree
BY InvHolds, AgreeIsTablesAgree, InvSound, PTL

\* The tuple that EdgeSplit or EdgeCollapse returns on an EdgeMesh can be
\* navigated from and is where its callers expect it.
THEOREM OutputIsNavigable == Spec => []OutputNavigable
BY InvHolds, PTL

\* No operation gives an id a second time between two consolidations.
THEOREM IdsStayFresh == Spec => IdsAreFresh
<1>1. ASSUME Inv, [Next]_vars
      PROVE  [output'.op # "consolidate" => Fresh]_vars
  <2>1. CASE consolidate
    BY <2>1 DEF consolidate, no_output
  <2>2. ASSUME NEW e \in mesh.e, NEW lv \in Sides, NEW accepted \in BOOLEAN,
               split_edge(e, lv, accepted) \/ collapse_edge(e, lv, accepted)
        PROVE  Fresh
    BY <1>1, <2>2, SplitStep, CollapseStep
  <2> QED
    BY <1>1, <2>1, <2>2 DEF Next
<1>2. Spec => [][output'.op # "consolidate" => Fresh]_vars
  BY <1>1, InvHolds, PTL DEF Spec
<1> QED
  BY <1>2 DEF IdsAreFresh, Fresh

-----------------------------------------------------------------------------
(* The scheduler over the mesh.                                             *)

Stats == [success : Nat, fail : Nat]
Elements(q) == {q[i] : i \in DOMAIN q}
Distinct(q) == \A i, j \in DOMAIN q : q[i] = q[j] => i = j
queued == Elements(queue)

SchedulerTypes ==
    /\ queue \in Seq(0 .. capacity.e - 1)
    /\ res \in Stats /\ internal_stats \in Stats /\ done \in Stats

\* What the operations returned is in the result or in the count of the pass,
\* which the end of the pass adds to the result.
CountersAgree == done = IF pc = "run" THEN Plus(res, internal_stats) ELSE res

\* A pass by priority that has had no success has changed nothing.
PassCovers ==
    run.flagged /\ ~run.random /\ pc = "run" /\ internal_stats.success = 0 =>
        mesh.e \subseteq tried \cup queued

SInv == /\ Inv /\ SchedulerTypeOK /\ SchedulerTypes
        /\ CountersAgree /\ NothingForgotten /\ PassCovers /\ SettledAtTheEnd

-----------------------------------------------------------------------------
\* An order of a finite set lists every element once.
LEMMA OrdersList ==
    ASSUME NEW S, IsFiniteSet(S), NEW q \in Orders(S)
    PROVE  /\ q \in Seq(S)
           /\ Distinct(q)
           /\ S = Elements(q)
<1> DEFINE n == Cardinality(S)
<1>1. n \in Nat /\ q \in [1 .. n -> S] /\ \A i, j \in 1 .. n : q[i] = q[j] => i = j
  BY FS_CardinalityType DEF Orders
<1>2. IsFiniteSet(1 .. n) /\ Cardinality(1 .. n) = n
  BY <1>1, FS_Interval
<1>3. q \in Injection(1 .. n, S)
  BY <1>1, Fun_IsInj
<1>4. q \in Surjection(1 .. n, S)
  BY <1>2, <1>3, FS_Injection
<1>5. \A s \in S : \E i \in 1 .. n : q[i] = s
  BY <1>4 DEF Surjection
<1>6. q \in Seq(S)
  BY <1>1, SeqDef
<1> QED
  BY <1>1, <1>5, <1>6 DEF Distinct, Elements

\* Taking the head off the queue.
LEMMA QueueTail ==
    ASSUME NEW S, NEW q \in Seq(S), q # << >>,
           Distinct(q)
    PROVE  /\ Head(q) \in S /\ Tail(q) \in Seq(S)
           /\ Distinct(Tail(q))
           /\ Elements(q) = {Head(q)} \cup Elements(Tail(q))
<1>1. /\ Head(q) \in S /\ Tail(q) \in Seq(S) /\ Len(Tail(q)) = Len(q) - 1
      /\ \A i \in 1 .. Len(Tail(q)) : Tail(q)[i] = q[i + 1]
  BY HeadTailProperties
<1>2. /\ Len(q) \in Nat \ {0} /\ DOMAIN q = 1 .. Len(q)
      /\ DOMAIN Tail(q) = 1 .. Len(q) - 1 /\ Head(q) = q[1]
  BY <1>1, EmptySeq, LenProperties
<1>3. Distinct(Tail(q))
  BY <1>1, <1>2 DEF Distinct
<1>4. ASSUME NEW i \in DOMAIN q
      PROVE  q[i] = Head(q) \/ \E j \in DOMAIN Tail(q) : Tail(q)[j] = q[i]
  <2>1. CASE i = 1
    BY <1>2, <2>1
  <2>2. CASE i # 1
    <3>1. i - 1 \in DOMAIN Tail(q) /\ (i - 1) + 1 = i
      BY <1>2, <2>2
    <3> QED
      BY <1>1, <1>2, <3>1
  <2> QED
    BY <2>1, <2>2
<1>5. 1 \in DOMAIN q /\ \A j \in DOMAIN Tail(q) : j + 1 \in DOMAIN q
  BY <1>2
<1>6. Elements(q) \subseteq {Head(q)} \cup Elements(Tail(q))
  BY <1>4 DEF Elements
<1>7. Elements(Tail(q)) \subseteq Elements(q)
  <2>1. \A j \in DOMAIN Tail(q) : Tail(q)[j] = q[j + 1]
    BY <1>1, <1>2
  <2> QED
    BY <2>1, <1>5 DEF Elements
<1>8. Head(q) \in Elements(q)
  BY <1>2, <1>5 DEF Elements
<1> QED
  BY <1>1, <1>3, <1>6, <1>7, <1>8

\* The active edges are finitely many.
LEMMA EdgesFinite == ASSUME Inv PROVE IsFiniteSet(mesh.e)
<1>1. capacity.e \in Nat /\ mesh.e \in SUBSET (0 .. capacity.e - 1)
  BY InvParts
<1>2. IsFiniteSet(0 .. capacity.e - 1)
  BY <1>1, FS_Interval
<1> QED
  BY <1>1, <1>2, FS_Subset

\* What an operation on the edge e does, as far as the scheduler is concerned:
\* where an edge that stays changes its vertices, the operation succeeds and
\* the edge is at the vertex of its output tuple.
LEMMA EdgeStep ==
    ASSUME Inv, NEW e \in mesh.e, NEW lv \in Sides, NEW accepted \in BOOLEAN,
           split_edge(e, lv, accepted) \/ collapse_edge(e, lv, accepted)
    PROVE  /\ Inv'
           /\ capacity.e \in Nat /\ capacity'.e \in Nat /\ capacity.e <= capacity'.e
           /\ mesh'.e \ mesh.e \subseteq capacity.e .. capacity'.e - 1
           /\ output'.ok \in BOOLEAN
           /\ ~output'.ok => mesh'.e = mesh.e
           /\ \A f \in mesh.e \cap mesh'.e : mesh'.ev[f] # mesh.ev[f] =>
                 output'.ok /\ \E j \in Sides : mesh'.ev[f][j] = output'.tuple.vertex
<1>0. /\ capacity.e \in Nat /\ is_free \in BOOLEAN
      /\ mesh.e \subseteq 0 .. capacity.e - 1
      /\ mesh \in MeshType(capacity)
  BY InvParts
<1>1. Inv' /\ Fresh
  BY SplitStep, CollapseStep
<1>2. ASSUME NEW m, NEW c2 \in [v : Nat, e : Nat], m \in MeshType(c2), capacity.e <= c2.e,
             NEW f \in mesh.e, m.ev[f] # mesh.ev[f]
      PROVE  \E k \in Sides : m.ev[f][k] # mesh.ev[f][k]
  <2>1. f \in 0 .. capacity.e - 1 /\ f \in 0 .. c2.e - 1
    BY <1>0, <1>2
  <2>2. \E S : mesh.ev[f] \in [Sides -> S]
    BY <1>0, <2>1 DEF MeshType
  <2>3. \E S : m.ev[f] \in [Sides -> S]
    BY <1>2, <2>1 DEF MeshType
  <2> QED
    BY <1>2, <2>2, <2>3
<1>3. CASE split_edge(e, lv, accepted)
  <2> DEFINE m == split_edge_single_mesh(e, lv)
             g == grown(new_vertex_count, 2)
             C2 == [v |-> capacity.v + new_vertex_count, e |-> capacity.e + 2]
  <2>0. new_vertex_count \in Nat
    BY DEF new_vertex_count
  <2>1. /\ mesh' = IF accepted THEN m ELSE g
        /\ capacity'.e = capacity.e + 2
    BY <1>3 DEF split_edge
  <2>2. output'.ok = accepted
    BY <1>3 DEF split_edge, output_of, no_output
  <2>a. Sound
    BY InvSound
  <2>3. /\ g \in MeshType(C2) /\ g.e = mesh.e
        /\ \A f \in mesh.e : g.ev[f] = mesh.ev[f]
    <3>1. 2 \in Nat
      OBVIOUS
    <3>2. /\ g \in MeshType(C2) /\ g.e = mesh.e
          /\ \A f \in 0 .. capacity.e - 1 : g.ev[f] = mesh.ev[f]
      BY ONLY <2>0, <2>a, <3>1, GrownKeeps
    <3> QED
      BY <1>0, <3>2
  <2>4. ASSUME NEW f \in mesh.e PROVE m.ev[f] = mesh.ev[f]
    <3>1. m \in MeshType(C2) /\ \A k \in Sides : m.ev[f][k] = mesh.ev[f][k]
      BY SplitTables, InvSound
    <3>2. C2 \in [v : Nat, e : Nat] /\ capacity.e <= C2.e
      BY <1>0, <2>0, InvParts
    <3> HIDE DEF m, C2
    <3> QED
      BY <1>2, <3>1, <3>2
  <2> HIDE DEF m, g
  <2> QED
    BY <1>0, <1>1, <2>1, <2>2, <2>3, <2>4 DEF Fresh
<1>4. CASE collapse_edge(e, lv, accepted)
  <2> DEFINE m == collapse_edge_single_mesh(e, lv)
             refused == collapse_refused(e, lv)
  <2>1. /\ mesh' = IF accepted /\ ~refused THEN m ELSE mesh
        /\ capacity' = capacity
    BY <1>4 DEF collapse_edge
  <2>2. output'.ok = accepted
    BY <1>4 DEF collapse_edge, output_of, no_output
  <2>3. ASSUME accepted, ~refused, NEW f \in mesh.e \cap m.e, m.ev[f] # mesh.ev[f]
        PROVE  \E j \in Sides : m.ev[f][j] = output'.tuple.vertex
    <3>1. ~is_free
      <4>1. is_free => m.ev = mesh.ev
        BY <1>0 DEF MeshType, collapse_edge_single_mesh
      <4> QED
        BY <2>3, <4>1
    <3>2. output'.tuple.vertex = mesh.ev[e][1 - lv]
      <4> DEFINE left == IF neighbor_eid(e, lv, 0) = Null THEN neighbor_eid(e, lv, 1)
                         ELSE neighbor_eid(e, lv, 0)
      <4>1. /\ output'.op = "collapse" /\ output'.ok
            /\ output'.spine[1] = spine_vid(e, lv, 1)
            /\ output'.tuple.edge = left
        BY <1>4, <2>3, <3>1 DEF collapse_edge, output_of, tuple_at, Sides
      <4>2. /\ neighbor_eid(e, lv, 0) = mesh.ee[e][lv]
            /\ neighbor_eid(e, lv, 1) = mesh.ee[e][1 - lv]
            /\ spine_vid(e, lv, 1) = mesh.ev[e][1 - lv]
        BY DEF neighbor_eid, spine_vid, side
      <4>3. left # Null
        BY <2>3, <3>1, <4>2, NotRefused, InvSound
      <4>4. output'.tuple # null_tuple
        BY <4>1, <4>3 DEF null_tuple
      <4>5. OutputNavigable'
        BY <1>4, CollapseStep
      <4> QED
        BY <4>1, <4>2, <4>4, <4>5 DEF OutputNavigable
    <3>3. /\ m \in MeshType(capacity) /\ m.e = mesh.e \ {e}
          /\ \A k \in Sides : 
                m.ev[f][k] = IF mesh.ev[f][k] = mesh.ev[e][lv] THEN mesh.ev[e][1 - lv]
                             ELSE mesh.ev[f][k]
      BY <2>3, <3>1, CollapseTables, InvSound
    <3>4. PICK k \in Sides : m.ev[f][k] # mesh.ev[f][k]
      BY <1>0, <1>2, <2>3, <3>3, InvParts
    <3> QED
      BY <3>2, <3>3, <3>4
  <2> HIDE DEF m
  <2> QED
    BY <1>0, <1>1, <2>1, <2>2, <2>3 DEF Fresh
<1> QED
  BY <1>3, <1>4

-----------------------------------------------------------------------------
\* Sums of the counters.
LEMMA Sums ==
    /\ NoStats \in Stats /\ \A a \in Stats : Plus(a, NoStats) = a
    /\ \A a, b \in Stats : Plus(a, b) \in Stats
    /\ \A ok \in BOOLEAN : Count(ok) \in Stats
    /\ \A a, b, c \in Stats : Plus(Plus(a, b), c) = Plus(a, Plus(b, c))
                              /\ Plus(Plus(a, b), c) = Plus(Plus(a, c), b)
BY DEF Stats, NoStats, Plus, Count

\* An attempt is counted once, in the result or in the pass.
LEMMA CountInSums ==
    ASSUME SchedulerTypes, CountersAgree, pc = "run",
           NEW ok \in BOOLEAN, CountIn(ok), pc' = "run",
           ~run.flagged => internal_stats = NoStats
    PROVE  /\ res' \in Stats /\ internal_stats' \in Stats /\ done' \in Stats
           /\ CountersAgree'
           /\ ~run.flagged => internal_stats' = NoStats
           /\ run.flagged /\ ~run.random /\ internal_stats'.success = 0 =>
                 internal_stats.success = 0 /\ ~ok
<1>1. res \in Stats /\ internal_stats \in Stats /\ done \in Stats
      /\ done = Plus(res, internal_stats)
  BY DEF SchedulerTypes, CountersAgree
<1>2. Count(ok) \in Stats
  BY Sums
<1>3. done' = Plus(done, Count(ok))
  BY DEF CountIn
<1>4. CASE run.flagged /\ ~run.random
  <2>1. internal_stats' = Plus(internal_stats, Count(ok)) /\ res' = res
    BY <1>4 DEF CountIn
  <2>2. internal_stats'.success = 0 => internal_stats.success = 0 /\ ~ok
    BY <1>1, <2>1 DEF Plus, Count, Stats
  <2> QED
    BY <1>1, <1>2, <1>3, <1>4, <2>1, <2>2, Sums DEF CountersAgree
<1>5. CASE ~(run.flagged /\ ~run.random)
  <2>1. internal_stats' = internal_stats /\ res' = Plus(res, Count(ok))
    BY <1>5 DEF CountIn
  <2> QED
    BY <1>1, <1>2, <1>3, <1>5, <2>1, Sums DEF CountersAgree
<1> QED
  BY <1>4, <1>5

\* A scheduler that has not been called.
LEMMA SInitInv == SchedulerInit => SInv
<1> SUFFICES ASSUME SchedulerInit PROVE SInv
  OBVIOUS
<1>1. Inv
  BY InitInv DEF SchedulerInit
<1>2. mesh.e \subseteq 0 .. capacity.e - 1
  BY <1>1, InvParts
<1> QED
  BY <1>1, <1>2, Sums, EmptySeq
     DEF SchedulerInit, SInv, SchedulerTypeOK, SchedulerTypes, CountersAgree,
         NothingForgotten, PassCovers, SettledAtTheEnd, NoStats

\* A step that leaves the mesh alone keeps its invariant.
LEMMA MeshKept == Inv /\ UNCHANGED vars => Inv'
BY DEF vars, Inv, TypeOK

\* A call starts with counters at zero and with every active edge queued or
\* flagged.
LEMMA CallStep ==
    ASSUME SInv, NEW op \in {"split", "collapse"}, NEW random \in BOOLEAN,
           run_on_all(op, random) \/ run_on_flagged(op, random)
    PROVE  SInv'
<1>0. /\ Inv /\ SchedulerTypeOK /\ SchedulerTypes
      /\ mesh.e \subseteq 0 .. capacity.e - 1
  BY InvParts DEF SInv
<1>1. /\ res' = NoStats /\ internal_stats' = NoStats /\ done' = NoStats
      /\ mesh' = mesh /\ capacity' = capacity /\ UNCHANGED vars
      /\ run' \in [op : {"split", "collapse"}, flagged : BOOLEAN, random : BOOLEAN]
  <2>1. PICK b \in BOOLEAN : Call(op, b, random)
    BY DEF run_on_all, run_on_flagged
  <2>2. run' = [op |-> op, flagged |-> b, random |-> random]
    BY <2>1 DEF Call
  <2>3. /\ res' = NoStats /\ internal_stats' = NoStats /\ done' = NoStats
        /\ mesh' = mesh /\ capacity' = capacity /\ UNCHANGED vars
    BY <2>1 DEF Call, vars
  <2> QED
    BY <2>2, <2>3
<1>2. Inv'
  BY <1>0, <1>1, MeshKept
<1>3. CASE run_on_all(op, random)
  <2>1. pc' = "run" /\ ~run'.flagged /\ queue' \in Orders(mesh.e) /\ flags' = flags
    BY <1>3 DEF run_on_all, Call
  <2>2. /\ queue' \in Seq(mesh.e)
        /\ Distinct(queue') /\ mesh.e = Elements(queue')
    BY <1>0, <2>1, EdgesFinite, OrdersList
  <2>3. queue' \in Seq(0 .. capacity.e - 1)
    BY <1>0, <2>2, SeqMonotonic
  <2>4. \A i \in DOMAIN queue' : queue'[i] \in 0 .. capacity'.e - 1
    BY <1>1, <2>3, LenProperties, ElementOfSeq
  <2>5. SchedulerTypeOK' /\ SchedulerTypes'
    BY <1>0, <1>1, <2>1, <2>2, <2>3, <2>4, Sums DEF SchedulerTypeOK, SchedulerTypes, Distinct
  <2> QED
    BY <1>1, <1>2, <2>1, <2>5, Sums
       DEF SInv, CountersAgree, NothingForgotten, PassCovers, SettledAtTheEnd
<1>4. CASE run_on_flagged(op, random)
  <2>1. pc' = "collect" /\ queue' = queue /\ flags' = flags \cup mesh.e /\ pc = "idle"
    BY <1>4 DEF run_on_flagged, Call
  <2>2. SchedulerTypeOK' /\ SchedulerTypes'
    BY <1>0, <1>1, <2>1, Sums DEF SchedulerTypeOK, SchedulerTypes
  <2> QED
    BY <1>1, <1>2, <2>1, <2>2, Sums
       DEF SInv, CountersAgree, NothingForgotten, PassCovers, SettledAtTheEnd
<1> QED
  BY <1>3, <1>4

\* The edges that the pass collects are those whose flags it clears.
LEMMA CollectStep == ASSUME SInv, collect PROVE SInv'
<1>0. /\ Inv /\ SchedulerTypeOK /\ SchedulerTypes /\ NothingForgotten /\ CountersAgree
      /\ mesh.e \subseteq 0 .. capacity.e - 1
  BY InvParts DEF SInv
<1>1. /\ pc = "collect" /\ pc' = "run" /\ queue = << >>
      /\ queue' \in Orders(mesh.e \cap flags) /\ flags' = flags \ mesh.e
      /\ internal_stats' = NoStats /\ res' = res /\ done' = done
      /\ run' = run /\ tried' = tried
      /\ mesh' = mesh /\ capacity' = capacity /\ UNCHANGED vars
  BY <1>0 DEF collect, history, vars, SchedulerTypeOK
<1>2. Inv'
  BY <1>0, <1>1, MeshKept
<1>3. /\ queue' \in Seq(mesh.e \cap flags)
      /\ Distinct(queue') /\ mesh.e \cap flags = Elements(queue')
  <2>1. IsFiniteSet(mesh.e \cap flags)
    BY <1>0, EdgesFinite, FS_Subset
  <2> QED
    BY <1>1, <2>1, OrdersList
<1>4. queue' \in Seq(0 .. capacity.e - 1)
  BY <1>0, <1>3, SeqMonotonic
<1>5. SchedulerTypeOK' /\ SchedulerTypes'
  <2>1. \A i \in DOMAIN queue' : queue'[i] \in 0 .. capacity'.e - 1
    BY <1>1, <1>4, LenProperties, ElementOfSeq
  <2> QED
    BY <1>0, <1>1, <1>3, <1>4, <2>1, Sums DEF SchedulerTypeOK, SchedulerTypes, Distinct
<1>6. CountersAgree'
  BY <1>0, <1>1, Sums DEF CountersAgree, SchedulerTypes
<1>7. run.flagged => mesh.e \subseteq tried \cup flags
  BY <1>0, <1>1 DEF NothingForgotten
<1>8. run.flagged => mesh.e \subseteq tried \cup Elements(queue')
  BY <1>3, <1>7
<1> QED
  BY <1>1, <1>2, <1>5, <1>6, <1>8
     DEF SInv, NothingForgotten, PassCovers, SettledAtTheEnd, queued, Elements

\* A refused attempt counts as an attempt of the edge.
LEMMA RefuseStep == ASSUME SInv, refuse PROVE SInv'
<1>0. /\ Inv /\ SchedulerTypeOK /\ SchedulerTypes /\ NothingForgotten
      /\ CountersAgree /\ PassCovers
  BY DEF SInv
<1>1. /\ pc = "run" /\ pc' = "run" /\ queue # << >> /\ queue' = Tail(queue)
      /\ CountIn(FALSE)
      /\ tried' = (tried \cup {Head(queue)}) \cap mesh.e
      /\ run' = run /\ flags' = flags
      /\ mesh' = mesh /\ capacity' = capacity /\ UNCHANGED vars
  BY DEF refuse, vars
<1>2. Inv'
  BY <1>0, <1>1, MeshKept
<1>3. /\ queue' \in Seq(0 .. capacity.e - 1)
      /\ Distinct(queue')
      /\ queued = {Head(queue)} \cup queued'
  <2>1. queue \in Seq(0 .. capacity.e - 1) /\ Distinct(queue)
    BY <1>0 DEF SchedulerTypeOK, SchedulerTypes, Distinct
  <2> QED
    BY <1>1, <2>1, QueueTail DEF queued
<1>4. /\ res' \in Stats /\ internal_stats' \in Stats /\ done' \in Stats
      /\ CountersAgree'
      /\ ~run.flagged => internal_stats' = NoStats
      /\ run.flagged /\ ~run.random /\ internal_stats'.success = 0 =>
            internal_stats.success = 0
  BY <1>0, <1>1, CountInSums DEF SchedulerTypeOK
<1>5. SchedulerTypes'
  BY <1>1, <1>3, <1>4 DEF SchedulerTypes
<1>6. \A i \in DOMAIN queue' : queue'[i] \in 0 .. capacity.e - 1
  BY <1>3, LenProperties, ElementOfSeq
<1>7. SchedulerTypeOK'
  BY <1>0, <1>1, <1>3, <1>4, <1>6 DEF SchedulerTypeOK, Distinct
<1>8. NothingForgotten'
  BY <1>0, <1>1, <1>3 DEF NothingForgotten, queued, Elements
<1>9. PassCovers'
  BY <1>0, <1>1, <1>3, <1>4 DEF PassCovers
<1> QED
  BY <1>1, <1>2, <1>4, <1>5, <1>7, <1>8, <1>9 DEF SInv, SettledAtTheEnd

\* An attempt: what the operation changes is flagged again, unless it failed,
\* and then it has changed nothing.
LEMMA AttemptStep == ASSUME SInv, attempt PROVE SInv'
<1> DEFINE e == Head(queue)
<1>0. /\ Inv /\ SchedulerTypeOK /\ SchedulerTypes /\ NothingForgotten
      /\ CountersAgree /\ PassCovers
  BY DEF SInv
<1>1. /\ pc = "run" /\ pc' = "run" /\ queue # << >> /\ queue' = Tail(queue)
      /\ e \in mesh.e
      /\ CountIn(output'.ok)
      /\ flags' = flags \cup (capacity.e .. capacity'.e - 1)
                        \cup (IF output'.ok THEN flagged_by_transfer ELSE {})
      /\ tried' = {f \in (tried \cup {e}) \cap mesh'.e : mesh'.ev[f] = mesh.ev[f]}
      /\ run' = run
  BY DEF attempt
<1>2. PICK accepted \in BOOLEAN : split_edge(e, 0, accepted) \/ collapse_edge(e, 0, accepted)
  BY <1>0 DEF attempt, SchedulerTypeOK
<1>3. /\ Inv'
      /\ capacity.e \in Nat /\ capacity'.e \in Nat /\ capacity.e <= capacity'.e
      /\ mesh'.e \ mesh.e \subseteq capacity.e .. capacity'.e - 1
      /\ output'.ok \in BOOLEAN
      /\ ~output'.ok => mesh'.e = mesh.e
      /\ \A f \in mesh.e \cap mesh'.e : mesh'.ev[f] # mesh.ev[f] =>
            output'.ok /\ \E j \in Sides : mesh'.ev[f][j] = output'.tuple.vertex
  BY <1>0, <1>1, <1>2, EdgeStep DEF Sides
<1>4. mesh'.e \subseteq 0 .. capacity'.e - 1
  BY <1>3 DEF Inv, TypeOK, MeshType
<1>5. /\ queue' \in Seq(0 .. capacity.e - 1)
      /\ Distinct(queue')
      /\ queued = {e} \cup queued'
  <2>1. queue \in Seq(0 .. capacity.e - 1) /\ Distinct(queue)
    BY <1>0 DEF SchedulerTypeOK, SchedulerTypes, Distinct
  <2> QED
    BY <1>1, <2>1, QueueTail DEF queued
<1>6. /\ res' \in Stats /\ internal_stats' \in Stats /\ done' \in Stats
      /\ CountersAgree'
      /\ ~run.flagged => internal_stats' = NoStats
      /\ run.flagged /\ ~run.random /\ internal_stats'.success = 0 =>
            internal_stats.success = 0 /\ ~output'.ok
  BY <1>0, <1>1, <1>3, CountInSums DEF SchedulerTypeOK
<1>7. queue' \in Seq(0 .. capacity'.e - 1)
  <2>1. 0 .. capacity.e - 1 \subseteq 0 .. capacity'.e - 1
    BY <1>3
  <2> QED
    BY <1>5, <2>1, SeqMonotonic
<1>8. SchedulerTypes'
  BY <1>6, <1>7 DEF SchedulerTypes
<1>9. \A i \in DOMAIN queue' : queue'[i] \in 0 .. capacity'.e - 1
  BY <1>7, LenProperties, ElementOfSeq
<1>10. flags' \subseteq 0 .. capacity'.e - 1
  <2>1. flagged_by_transfer \subseteq mesh'.e
    BY DEF flagged_by_transfer
  <2>2. flags \subseteq 0 .. capacity'.e - 1
    BY <1>0, <1>3 DEF SchedulerTypeOK
  <2>3. capacity.e .. capacity'.e - 1 \subseteq 0 .. capacity'.e - 1
    BY <1>3
  <2> QED
    BY <1>1, <1>4, <2>1, <2>2, <2>3
<1>11. SchedulerTypeOK'
  BY <1>0, <1>1, <1>5, <1>6, <1>9, <1>10 DEF SchedulerTypeOK, Distinct
<1>12. \A f \in mesh.e \cap mesh'.e : mesh'.ev[f] # mesh.ev[f] => output'.ok /\ f \in flags'
  BY <1>1, <1>3 DEF flagged_by_transfer
<1>13. \A f \in mesh.e \cap mesh'.e : f \in tried \cup {e} => f \in tried' \cup flags'
  BY <1>1, <1>12
<1>14. flags \subseteq flags' /\ mesh'.e \ mesh.e \subseteq flags'
  BY <1>1, <1>3
<1>15. NothingForgotten'
  <2> SUFFICES ASSUME run.flagged, NEW f \in mesh'.e
               PROVE  f \in tried' \cup flags' \cup queued'
    BY <1>1 DEF NothingForgotten, queued, Elements
  <2>1. CASE f \notin mesh.e
    BY <1>14, <2>1
  <2>2. CASE f \in mesh.e
    <3>1. f \in tried \cup flags \cup queued
      BY <1>0, <1>1, <2>2 DEF NothingForgotten, queued, Elements
    <3> QED
      BY <1>5, <1>13, <1>14, <2>2, <3>1
  <2> QED
    BY <2>1, <2>2
<1>16. PassCovers'
  <2> SUFFICES ASSUME run.flagged, ~run.random, internal_stats'.success = 0,
                      NEW f \in mesh'.e
               PROVE  f \in tried' \cup queued'
    BY <1>1 DEF PassCovers
  <2>1. internal_stats.success = 0 /\ ~output'.ok /\ f \in mesh.e
    BY <1>3, <1>6
  <2>2. f \in tried \cup queued
    BY <1>0, <1>1, <2>1 DEF PassCovers
  <2>3. mesh'.ev[f] = mesh.ev[f]
    BY <1>12, <2>1
  <2> QED
    BY <1>1, <1>5, <2>2, <2>3
<1> QED
  BY <1>1, <1>3, <1>6, <1>8, <1>11, <1>15, <1>16 DEF SInv, SettledAtTheEnd

\* The end of a pass, or of a run over all edges.
LEMMA EndStep == ASSUME SInv, end_run \/ end_pass PROVE SInv'
<1>0. /\ Inv /\ SchedulerTypeOK /\ SchedulerTypes /\ NothingForgotten
      /\ CountersAgree /\ PassCovers
  BY DEF SInv
<1>1. /\ pc = "run" /\ queue = << >> /\ queue' = queue /\ pc' \in {"idle", "collect"}
      /\ run' = run /\ flags' = flags /\ internal_stats' = internal_stats
      /\ done' = done /\ tried' = tried
      /\ mesh' = mesh /\ capacity' = capacity /\ UNCHANGED vars
  BY DEF end_run, end_pass, history, vars
<1>2. Inv'
  BY <1>0, <1>1, MeshKept
<1>3. /\ res' = Plus(res, internal_stats)
      /\ pc' = "idle" => ~run.flagged \/ internal_stats.success = 0
  <2>1. CASE end_run
    BY <1>0, <2>1, Sums DEF end_run, SchedulerTypeOK, SchedulerTypes
  <2>2. CASE end_pass
    BY <1>0, <2>2 DEF end_pass, SchedulerTypes, Stats
  <2> QED
    BY <2>1, <2>2
<1>4. res' \in Stats /\ CountersAgree'
  BY <1>0, <1>1, <1>3, Sums DEF CountersAgree, SchedulerTypes
<1>5. SchedulerTypeOK' /\ SchedulerTypes'
  BY <1>0, <1>1, <1>4 DEF SchedulerTypeOK, SchedulerTypes
<1>6. NothingForgotten'
  BY <1>0, <1>1 DEF NothingForgotten
<1>7. SettledAtTheEnd' /\ PassCovers'
  <2>1. queued = {}
    BY <1>1 DEF queued, Elements
  <2> QED
    BY <1>0, <1>1, <1>3, <2>1 DEF PassCovers, SettledAtTheEnd
<1> QED
  BY <1>2, <1>4, <1>5, <1>6, <1>7 DEF SInv

\* Every step of the scheduler keeps the invariant.
LEMMA SNextInv == SInv /\ [SchedulerNext]_svars => SInv'
<1> SUFFICES ASSUME SInv, [SchedulerNext]_svars PROVE SInv'
  OBVIOUS
<1>1. CASE Step
  BY <1>1, CollectStep, RefuseStep, AttemptStep, EndStep DEF Step
<1>2. ASSUME NEW op \in {"split", "collapse"}, NEW random \in Randoms,
             run_on_all(op, random) \/ run_on_flagged(op, random)
      PROVE  SInv'
  BY <1>2, CallStep, RandomsAssumption
<1>3. CASE UNCHANGED svars
  <2>1. UNCHANGED vars /\ UNCHANGED <<pc, run, queue, flags, res, internal_stats>>
        /\ UNCHANGED <<tried, done>>
    BY <1>3 DEF svars, scheduler, history
  <2>2. Inv'
    BY <2>1, MeshKept DEF SInv
  <2> QED
    BY <2>1, <2>2
       DEF vars, SInv, SchedulerTypeOK, SchedulerTypes, CountersAgree, NothingForgotten,
           PassCovers, SettledAtTheEnd, queued, Elements
<1> QED
  BY <1>1, <1>2, <1>3 DEF SchedulerNext

\* The inductive invariant: of the mesh, of the counters and of the edges that
\* the pass has not yet attempted.
THEOREM SchedulerInvCorrect == SchedulerSpec => []SInv
BY SInitInv, SNextInv, PTL DEF SchedulerSpec

\* The queue holds every edge once and only ids that exist, also after the
\* operations of the pass have changed the mesh.
THEOREM SchedulerTypeCorrect == SchedulerSpec => []SchedulerTypeOK
<1>1. SInv => SchedulerTypeOK
  BY DEF SInv
<1> QED
  BY <1>1, SchedulerInvCorrect, PTL

\* The flags that the attribute transfer sets reach every edge whose vertices
\* an operation of Scheduler::run_operation_on_all has changed.
THEOREM NothingIsForgotten == SchedulerSpec => []NothingForgotten
<1>1. SInv => NothingForgotten
  BY DEF SInv
<1> QED
  BY <1>1, SchedulerInvCorrect, PTL

\* A flagged run by priority stops only when every active edge has been
\* attempted since its vertices last changed.
THEOREM RunsSettle == SchedulerSpec => []SettledAtTheEnd
<1>1. SInv => SettledAtTheEnd
  BY DEF SInv
<1> QED
  BY <1>1, SchedulerInvCorrect, PTL

\* The statistics a call returns count every attempt once, in each of the
\* branches that count in different places.
THEOREM ResultIsCounted == SchedulerSpec => []ResultCountsAttempts
<1>1. SInv => ResultCountsAttempts
  BY DEF SInv, CountersAgree, ResultCountsAttempts
<1> QED
  BY <1>1, SchedulerInvCorrect, PTL
=============================================================================

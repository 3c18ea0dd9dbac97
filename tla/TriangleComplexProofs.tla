----------------------- MODULE TriangleComplexProofs -----------------------
(***************************************************************************)
(* Proofs about TriangleComplex.tla and MarkedSurface.tla, for every       *)
(* finite set of vertices.  Under the link condition a collapse never      *)
(* gives an edge a third triangle, and never leaves a mark on what is no   *)
(* edge any more.                                                          *)
(***************************************************************************)
EXTENDS MarkedSurface, FiniteSetTheorems, TLAPS

\* The conjuncts of TypeOK that the operations can disturb, without counting:
\* darts of three vertices, each with its rotation; of three triangles at two
\* vertices two are one; in a free mesh darts that meet are of one triangle.
Corners(D) ==
    \A d \in D : /\ d \in Vertex \X Vertex \X Vertex
                 /\ d[1] # d[2] /\ d[2] # d[3] /\ d[3] # d[1]
                 /\ rotated(d) \in D
Manifold(D) ==
    \A s, t, u \in Triangles(D) :
        (\E x \in s \cap t \cap u, y \in s \cap t \cap u : x # y)
            => s = t \/ t = u \/ s = u
Separate(D) == \A d, f \in D : f \in around(d) \/ corners(d) \cap corners(f) = {}

Surface == /\ free \in BOOLEAN
           /\ Corners(darts)
           /\ Manifold(darts)
           /\ free => Separate(darts)

-----------------------------------------------------------------------------
\* What cardinalities of at most three say of the elements.
LEMMA AtMostTwo ==
    ASSUME NEW S, IsFiniteSet(S)
    PROVE  Cardinality(S) <= 2 <=> \A x, y, z \in S : x = y \/ y = z \/ x = z
<1>1. ASSUME Cardinality(S) <= 2, NEW x \in S, NEW y \in S, NEW z \in S,
             x # y, y # z, x # z
      PROVE  FALSE
  <2>1. IsFiniteSet({x}) /\ Cardinality({x}) = 1
    BY FS_Singleton
  <2>2. IsFiniteSet({x} \cup {y}) /\ Cardinality({x} \cup {y}) = 2
    BY <1>1, <2>1, FS_AddElement
  <2>3. IsFiniteSet({x} \cup {y} \cup {z}) /\ Cardinality({x} \cup {y} \cup {z}) = 3
    BY <1>1, <2>2, FS_AddElement
  <2>4. {x} \cup {y} \cup {z} \in SUBSET S
    OBVIOUS
  <2>5. Cardinality({x} \cup {y} \cup {z}) <= Cardinality(S) /\ Cardinality(S) \in Nat
    BY <2>4, FS_Subset, FS_CardinalityType
  <2> QED
    BY <1>1, <2>3, <2>5
<1>2. ASSUME \A x, y, z \in S : x = y \/ y = z \/ x = z
      PROVE  Cardinality(S) <= 2
  <2>1. CASE S = {}
    BY <2>1, FS_EmptySet
  <2>2. CASE S # {}
    <3>1. PICK x \in S : TRUE
      BY <2>2
    <3>2. IsFiniteSet({x}) /\ Cardinality({x}) = 1
      BY FS_Singleton
    <3>3. CASE S = {x}
      BY <3>2, <3>3
    <3>4. CASE S # {x}
      <4>1. PICK y \in S : y # x
        BY <3>1, <3>4
      <4>2. S = {x} \cup {y}
        BY <1>2, <3>1, <4>1
      <4> QED
        BY <3>2, <4>1, <4>2, FS_AddElement
    <3> QED
      BY <3>3, <3>4
  <2> QED
    BY <2>1, <2>2
<1> QED
  BY <1>1, <1>2

LEMMA ThreeCorners ==
    ASSUME NEW d
    PROVE  Cardinality(corners(d)) = 3 <=> d[1] # d[2] /\ d[2] # d[3] /\ d[3] # d[1]
<1>1. IsFiniteSet({d[1]}) /\ Cardinality({d[1]}) = 1
  BY FS_Singleton
<1>2. /\ IsFiniteSet({d[1]} \cup {d[2]})
      /\ Cardinality({d[1]} \cup {d[2]}) = IF d[1] = d[2] THEN 1 ELSE 2
  BY <1>1, FS_AddElement
<1>3. Cardinality({d[1]} \cup {d[2]} \cup {d[3]}) =
        IF d[3] \in {d[1]} \cup {d[2]} THEN Cardinality({d[1]} \cup {d[2]})
        ELSE Cardinality({d[1]} \cup {d[2]}) + 1
  BY <1>2, FS_AddElement
<1>4. corners(d) = {d[1]} \cup {d[2]} \cup {d[3]}
  BY DEF corners
<1> QED
  BY <1>2, <1>3, <1>4

\* A dart and what becomes of it are triples.
LEMMA Triples ==
    ASSUME NEW V, NEW d \in V \X V \X V
    PROVE  /\ d = <<d[1], d[2], d[3]>> /\ d[1] \in V /\ d[2] \in V /\ d[3] \in V
           /\ rotated(d) \in V \X V \X V /\ corners(rotated(d)) = corners(d)
           /\ rotated(d)[1] = d[2] /\ rotated(d)[2] = d[3] /\ rotated(d)[3] = d[1]
           /\ rotated(rotated(rotated(d))) = d
BY DEF rotated, corners

LEMMA MovedTriples ==
    ASSUME NEW V, NEW d \in V \X V \X V, NEW a, NEW b \in V
    PROVE  LET to(v) == IF v = a THEN b ELSE v
           IN  /\ moved(d, a, b) = <<to(d[1]), to(d[2]), to(d[3])>>
               /\ moved(d, a, b) \in V \X V \X V
               /\ rotated(moved(d, a, b)) = moved(rotated(d), a, b)
<1> DEFINE to(v) == IF v = a THEN b ELSE v
<1>1. \A f \in V \X V \X V : moved(f, a, b) = <<to(f[1]), to(f[2]), to(f[3])>>
  <2> SUFFICES ASSUME NEW f \in V \X V \X V
               PROVE  moved(f, a, b) = <<to(f[1]), to(f[2]), to(f[3])>>
    OBVIOUS
  <2> DEFINE g == <<to(f[1]), to(f[2]), to(f[3])>>
  <2>1. g = [i \in 1 .. 3 |-> g[i]]
    OBVIOUS
  <2>2. \A i \in 1 .. 3 : g[i] = IF f[i] = a THEN b ELSE f[i]
    OBVIOUS
  <2> QED
    BY <2>1, <2>2 DEF moved
<1>2. to(d[1]) \in V /\ to(d[2]) \in V /\ to(d[3]) \in V
  BY Triples
<1>3. rotated(moved(d, a, b)) = <<to(d[2]), to(d[3]), to(d[1])>>
  BY <1>1 DEF rotated
<1>4. moved(rotated(d), a, b) = <<to(d[2]), to(d[3]), to(d[1])>>
  BY <1>1, Triples
<1> QED
  BY <1>1, <1>2, <1>3, <1>4


\* Two vertices of a triangle are an edge, and an edge is two vertices of one.
LEMMA EdgesOfTriangles ==
    ASSUME NEW D, Corners(D)
    PROVE  /\ \A d \in D : \A x, y \in corners(d) : x # y => {x, y} \in Edges(D)
           /\ \A e \in Edges(D) : \E d \in D : /\ e = {d[1], d[2]} /\ e \subseteq corners(d)
                                              /\ d[1] # d[2]
<1>1. ASSUME NEW d \in D, NEW x \in corners(d), NEW y \in corners(d), x # y
      PROVE  {x, y} \in Edges(D)
  <2>1. rotated(d) \in D /\ rotated(rotated(d)) \in D
    BY DEF Corners
  <2>2. {d[1], d[2]} \in Edges(D)
    BY DEF Edges
  <2>3. {d[2], d[3]} \in Edges(D)
    BY <2>1 DEF Edges, rotated
  <2>4. {d[3], d[1]} \in Edges(D)
    BY <2>1 DEF Edges, rotated
  <2>5. {x, y} \in {{d[1], d[2]}, {d[2], d[3]}, {d[3], d[1]}}
    BY <1>1 DEF corners
  <2> QED
    BY <2>2, <2>3, <2>4, <2>5
<1>2. ASSUME NEW e \in Edges(D)
      PROVE  \E d \in D : e = {d[1], d[2]} /\ e \subseteq corners(d) /\ d[1] # d[2]
  BY DEF Edges, Corners, corners
<1> QED
  BY <1>1, <1>2

\* TypeOK without its counts.
LEMMA TypeIsSurface ==
    ASSUME IsFiniteSet(Vertex)
    PROVE  TypeOK <=> Surface
<1> DEFINE V3 == Vertex \X Vertex \X Vertex
           at(e) == {t \in Triangles(darts) : e \subseteq t}
<1>1. \A e : (darts \subseteq V3) => IsFiniteSet(at(e))
  <2>1. IsFiniteSet(SUBSET Vertex)
    BY FS_SUBSET
  <2>2. ASSUME darts \subseteq V3, NEW d \in darts PROVE corners(d) \in SUBSET Vertex
    BY <2>2, Triples DEF corners
  <2>3. \A e : (darts \subseteq V3) => at(e) \in SUBSET (SUBSET Vertex)
    BY <2>2 DEF Triangles
  <2> QED
    BY <2>1, <2>3, FS_Subset
<1>2. (/\ darts \subseteq V3
       /\ \A d \in darts : Cardinality(corners(d)) = 3 /\ around(d) \subseteq darts)
      <=> Corners(darts)
  <2>1. ASSUME Corners(darts), NEW d \in darts
        PROVE  d \in V3 /\ Cardinality(corners(d)) = 3 /\ around(d) \subseteq darts
    <3>1. rotated(d) \in darts /\ rotated(rotated(d)) \in darts
      BY <2>1 DEF Corners
    <3>2. d \in V3 /\ d[1] # d[2] /\ d[2] # d[3] /\ d[3] # d[1]
      BY <2>1 DEF Corners
    <3> QED
      BY <3>1, <3>2, ThreeCorners DEF around
  <2>2. ASSUME darts \subseteq V3,
               \A d \in darts : Cardinality(corners(d)) = 3 /\ around(d) \subseteq darts
        PROVE  Corners(darts)
    BY <2>2, ThreeCorners DEF around, Corners
  <2> QED
    BY <2>1, <2>2
<1>3. ASSUME Corners(darts)
      PROVE  (\A e \in Edges(darts) : Cardinality(at(e)) <= 2) <=> Manifold(darts)
  <2>1. \A e : Cardinality(at(e)) <= 2
               <=> \A s, t, u \in at(e) : s = t \/ t = u \/ s = u
    <3> SUFFICES ASSUME NEW e
                 PROVE  Cardinality(at(e)) <= 2
                        <=> \A s, t, u \in at(e) : s = t \/ t = u \/ s = u
      OBVIOUS
    <3>1. IsFiniteSet(at(e))
      BY <1>1, <1>2, <1>3
    <3> HIDE DEF at
    <3> QED
      BY <3>1, AtMostTwo
  <2>2. ASSUME \A e \in Edges(darts) : Cardinality(at(e)) <= 2,
               NEW s \in Triangles(darts), NEW t \in Triangles(darts),
               NEW u \in Triangles(darts),
               NEW x \in s \cap t \cap u, NEW y \in s \cap t \cap u, x # y
        PROVE  s = t \/ t = u \/ s = u
    <3>1. PICK d \in darts : s = corners(d)
      BY DEF Triangles
    <3>2. {x, y} \in Edges(darts)
      BY <1>3, <2>2, <3>1, EdgesOfTriangles
    <3>3. s \in at({x, y}) /\ t \in at({x, y}) /\ u \in at({x, y})
      OBVIOUS
    <3>4. Cardinality(at({x, y})) <= 2
      BY <2>2, <3>2
    <3> HIDE DEF at
    <3> QED
      BY <2>1, <3>3, <3>4
  <2>3. ASSUME Manifold(darts), NEW e \in Edges(darts)
        PROVE  Cardinality(at(e)) <= 2
    <3>1. PICK d \in darts : e = {d[1], d[2]} /\ d[1] # d[2]
      BY <1>3, EdgesOfTriangles
    <3>2. \A s, t, u \in at(e) : s = t \/ t = u \/ s = u
      <4> SUFFICES ASSUME NEW s \in at(e), NEW t \in at(e), NEW u \in at(e)
                   PROVE  s = t \/ t = u \/ s = u
        OBVIOUS
      <4>1. d[1] \in s \cap t \cap u /\ d[2] \in s \cap t \cap u
        BY <3>1
      <4> QED
        BY <2>3, <3>1, <4>1 DEF Manifold
    <3> HIDE DEF at
    <3> QED
      BY <2>1, <3>2
  <2> QED
    BY <2>2, <2>3 DEF Manifold
<1> QED
  BY <1>2, <1>3 DEF TypeOK, Surface, Separate

-----------------------------------------------------------------------------
\* A split: each triangle abc on the edge becomes awc and wbc.
LEMMA SplitKeeps ==
    ASSUME Surface, NEW d \in darts, Split(d[1], d[2])
    PROVE  Surface'
<1> DEFINE a == d[1]
           b == d[2]
           on == On(darts, a, b)
<1>1. PICK w \in Vertex \ Used(darts) :
         darts' = (darts \ on) \cup {moved(f, a, w) : f \in on} \cup {moved(f, b, w) : f \in on}
  BY DEF Split
<1>2. ~free /\ free' = free
  BY DEF Split
<1>3. /\ a # b /\ Corners(darts) /\ Manifold(darts)
  BY DEF Surface, Corners
<1>4. ASSUME NEW f \in darts
      PROVE  f[1] # w /\ f[2] # w /\ f[3] # w /\ w \notin corners(f)
  BY <1>1, <1>4 DEF Used, corners
<1>5. ASSUME NEW f \in on
      PROVE  /\ f \in darts /\ f \in Vertex \X Vertex \X Vertex
             /\ a \in corners(f) /\ b \in corners(f) /\ rotated(f) \in on
  <2>1. f \in darts /\ a \in corners(f) /\ b \in corners(f)
    BY DEF On
  <2>2. f \in Vertex \X Vertex \X Vertex /\ rotated(f) \in darts
    BY <1>3, <2>1 DEF Corners
  <2>3. corners(rotated(f)) = corners(f)
    BY <2>2, Triples
  <2> QED
    BY <2>1, <2>2, <2>3 DEF On
<1>6. ASSUME NEW f \in on, NEW c \in {a, b}
      PROVE  LET g == moved(f, c, w)
             IN  /\ g \in Vertex \X Vertex \X Vertex
                 /\ g[1] # g[2] /\ g[2] # g[3] /\ g[3] # g[1]
                 /\ rotated(g) \in darts'
                 /\ corners(g) = (corners(f) \ {c}) \cup {w}
  <2>1. LET to(v) == IF v = c THEN w ELSE v
        IN  /\ moved(f, c, w) = <<to(f[1]), to(f[2]), to(f[3])>>
            /\ moved(f, c, w) \in Vertex \X Vertex \X Vertex
            /\ rotated(moved(f, c, w)) = moved(rotated(f), c, w)
    BY <1>5, MovedTriples
  <2>2. f[1] # f[2] /\ f[2] # f[3] /\ f[3] # f[1]
    BY <1>3, <1>5 DEF Corners
  <2>3. rotated(moved(f, c, w)) \in darts'
    BY <1>1, <1>5, <2>1
  <2>4. f[1] # w /\ f[2] # w /\ f[3] # w
    BY <1>4, <1>5
  <2>5. corners(moved(f, c, w)) = (corners(f) \ {c}) \cup {w}
    <3>1. c \in corners(f)
      BY <1>5
    <3> QED
      BY <2>1, <2>2, <3>1 DEF corners
  <2> QED
    BY <2>1, <2>2, <2>3, <2>4, <2>5
<1>7. ASSUME NEW g \in darts \ on PROVE rotated(g) \in darts'
  <2>1. rotated(g) \in darts /\ corners(rotated(g)) = corners(g)
    BY <1>3, Triples DEF Corners
  <2> QED
    BY <1>1, <2>1 DEF On
<1>8. Corners(darts')
  <2> SUFFICES ASSUME NEW g \in darts'
               PROVE  /\ g \in Vertex \X Vertex \X Vertex
                      /\ g[1] # g[2] /\ g[2] # g[3] /\ g[3] # g[1]
                      /\ rotated(g) \in darts'
    BY DEF Corners
  <2>1. CASE g \in darts \ on
    BY <1>3, <1>7, <2>1 DEF Corners
  <2>2. CASE g \notin darts \ on
    <3>1. PICK f \in on, c \in {a, b} : g = moved(f, c, w)
      BY <1>1, <2>2
    <3> QED
      BY <1>6, <3>1
  <2> QED
    BY <2>1, <2>2
\* A triangle of the new surface is an old one or has w in place of an end.
<1>9. ASSUME NEW t \in Triangles(darts')
      PROVE  \/ t \in Triangles(darts) /\ w \notin t /\ ~ {a, b} \subseteq t
             \/ \E s \in Triangles(darts), c \in {a, b} :
                   /\ {a, b} \subseteq s /\ w \notin s
                   /\ t = (s \ {c}) \cup {w}
  <2>1. PICK g \in darts' : t = corners(g)
    BY DEF Triangles
  <2>2. CASE g \in darts \ on
    BY <1>4, <2>1, <2>2 DEF Triangles, On
  <2>3. CASE g \notin darts \ on
    <3>1. PICK f \in on, c \in {a, b} : g = moved(f, c, w)
      BY <1>1, <2>3
    <3>2. corners(f) \in Triangles(darts) /\ {a, b} \subseteq corners(f) /\ w \notin corners(f)
      BY <1>4, <1>5 DEF Triangles
    <3> QED
      BY <1>6, <2>1, <3>1, <3>2
  <2> QED
    BY <2>2, <2>3
<1>10. \A s \in Triangles(darts) : \A p, q, r, z \in s :
          p = q \/ p = r \/ p = z \/ q = r \/ q = z \/ r = z
  BY DEF Triangles, corners
<1>11. Manifold(darts')
  <2> SUFFICES ASSUME NEW t1 \in Triangles(darts'), NEW t2 \in Triangles(darts'),
                      NEW t3 \in Triangles(darts'),
                      NEW x \in t1 \cap t2 \cap t3, NEW y \in t1 \cap t2 \cap t3, x # y
               PROVE  t1 = t2 \/ t2 = t3 \/ t1 = t3
    BY DEF Manifold
  \* On an edge of old vertices a triangle goes back to an old one there.
  <2>1. CASE w \notin {x, y}
    <3> DEFINE From(t, s) ==
                 /\ s \in Triangles(darts) /\ x \in s /\ y \in s
                 /\ \/ t = s /\ ~ {a, b} \subseteq s
                    \/ \E c \in {a, b} : /\ {a, b} \subseteq s /\ c \notin {x, y}
                                         /\ t = (s \ {c}) \cup {w}
    <3>1. ASSUME NEW t \in Triangles(darts'), x \in t, y \in t
          PROVE  \E s : From(t, s)
      <4>1. CASE t \in Triangles(darts) /\ w \notin t /\ ~ {a, b} \subseteq t
        BY <3>1, <4>1
      <4>2. ASSUME NEW s \in Triangles(darts), NEW c \in {a, b},
                   {a, b} \subseteq s, w \notin s, t = (s \ {c}) \cup {w}
            PROVE  \E r : From(t, r)
        <5>1. x \in s /\ y \in s /\ c \notin {x, y}
          BY <2>1, <3>1, <4>2
        <5>2. From(t, s)
          BY <4>2, <5>1
        <5> QED
          BY <5>2
      <4> QED
        BY <1>9, <4>1, <4>2
    <3>2. ASSUME NEW s, NEW t, NEW u, From(t, s), From(u, s)
          PROVE  t = u
      <4>1. CASE ~ {a, b} \subseteq s
        BY <3>2, <4>1
      <4>2. CASE {a, b} \subseteq s
        <5>1. PICK c \in {a, b} : c \notin {x, y} /\ t = (s \ {c}) \cup {w}
          BY <3>2, <4>2
        <5>2. PICK e \in {a, b} : e \notin {x, y} /\ u = (s \ {e}) \cup {w}
          BY <3>2, <4>2
        <5>3. c = e
          <6>1. x \in s /\ y \in s /\ c \in s /\ e \in s /\ s \in Triangles(darts)
            BY <3>2, <4>2
          <6> QED
            BY <1>10, <5>1, <5>2, <6>1
        <5> QED
          BY <5>1, <5>2, <5>3
      <4> QED
        BY <4>1, <4>2
    <3>3. PICK s1 : From(t1, s1)
      BY <3>1
    <3>4. PICK s2 : From(t2, s2)
      BY <3>1
    <3>5. PICK s3 : From(t3, s3)
      BY <3>1
    <3>6. s1 = s2 \/ s2 = s3 \/ s1 = s3
      <4>1. x \in s1 \cap s2 \cap s3 /\ y \in s1 \cap s2 \cap s3
        BY <3>3, <3>4, <3>5
      <4> QED
        BY <1>3, <3>3, <3>4, <3>5, <4>1 DEF Manifold
    <3> HIDE DEF From
    <3> QED
      BY <3>2, <3>3, <3>4, <3>5, <3>6
  \* At w they come from the triangles on the edge.
  <2>2. CASE w \in {x, y}
    <3>1. PICK z \in {x, y} : z # w
      BY <2>2
    <3> DEFINE From(t, s, c) == /\ s \in Triangles(darts) /\ {a, b, z} \subseteq s
                                /\ c \in {a, b} \ {z} /\ t = (s \ {c}) \cup {w}
    <3>2. ASSUME NEW t \in Triangles(darts'), x \in t, y \in t
          PROVE  \E s, c : From(t, s, c)
      <4>1. w \in t /\ z \in t
        BY <2>2, <3>1, <3>2
      <4>2. PICK s \in Triangles(darts), c \in {a, b} :
               {a, b} \subseteq s /\ w \notin s /\ t = (s \ {c}) \cup {w}
        BY <1>9, <3>2, <4>1
      <4>3. z \in s /\ z # c
        BY <3>1, <4>1, <4>2
      <4>4. From(t, s, c)
        BY <4>2, <4>3
      <4> QED
        BY <4>4
    <3>3. PICK s1, c1 : From(t1, s1, c1)
      BY <3>2
    <3>4. PICK s2, c2 : From(t2, s2, c2)
      BY <3>2
    <3>5. PICK s3, c3 : From(t3, s3, c3)
      BY <3>2
    <3>6. CASE z \in {a, b}
      <4>1. c1 = c2 /\ c2 = c3
        BY <3>3, <3>4, <3>5, <3>6
      <4>2. s1 = s2 \/ s2 = s3 \/ s1 = s3
        <5>1. a \in s1 \cap s2 \cap s3 /\ b \in s1 \cap s2 \cap s3
          BY <3>3, <3>4, <3>5
        <5> QED
          BY <1>3, <3>3, <3>4, <3>5, <5>1 DEF Manifold
      <4> QED
        BY <3>3, <3>4, <3>5, <4>1, <4>2
    <3>7. CASE z \notin {a, b}
      <4>1. \A s \in Triangles(darts) : {a, b, z} \subseteq s => s = {a, b, z}
        BY <1>3, <1>10, <3>7
      <4>2. s1 = s2 /\ s2 = s3
        BY <3>3, <3>4, <3>5, <4>1
      <4>3. c1 = c2 \/ c2 = c3 \/ c1 = c3
        BY <3>3, <3>4, <3>5
      <4> QED
        BY <3>3, <3>4, <3>5, <4>2, <4>3
    <3> QED
      BY <3>6, <3>7
  <2> QED
    BY <2>1, <2>2
<1>12. Corners(darts)' /\ Manifold(darts)'
  BY <1>8, <1>11
<1> QED
  BY <1>2, <1>12 DEF Surface


-----------------------------------------------------------------------------
\* The triangles of a surface and those of the cone over its boundary.
Closed(D) == Triangles(D) \cup {e \cup {Apex} : e \in Boundary(D)}

\* The link condition, read from right to left: what both ends of the edge have
\* in their links is in the link of the edge.
LEMMA LinksMeet ==
    ASSUME NEW D, NEW a, NEW b, LinkCondition(D, a, b), NEW r, r # {},
           NEW s \in Closed(D), a \in s, r \subseteq s \ {a},
           NEW t \in Closed(D), b \in t, r \subseteq t \ {b}
    PROVE  \E u \in Closed(D) : {a, b} \subseteq u /\ r \subseteq u \ {a, b}
<1> DEFINE closed == Triangles(D) \cup {e \cup {Apex} : e \in Boundary(D)}
           Link(p) == {q \in UNION {SUBSET (v \ p) : v \in {u \in closed : p \subseteq u}} :
                          q # {}}
<1>1. Link({a}) \cap Link({b}) = Link({a, b})
  BY Zenon DEF LinkCondition
<1>2. closed = Closed(D)
  BY DEF Closed
<1>3. \A p, v : v \in closed /\ p \subseteq v /\ r \subseteq v \ p => r \in Link(p)
  OBVIOUS
<1>4. \A p : r \in Link(p) => \E v \in closed : p \subseteq v /\ r \subseteq v \ p
  OBVIOUS
<1>5. r \in Link({a}) /\ r \in Link({b})
  <2>1. s \in closed /\ {a} \subseteq s /\ r \subseteq s \ {a}
    BY <1>2
  <2>2. t \in closed /\ {b} \subseteq t /\ r \subseteq t \ {b}
    BY <1>2
  <2> HIDE DEF closed, Link
  <2> QED
    BY <1>3, <2>1, <2>2
<1>6. r \in Link({a, b})
  <2> HIDE DEF Link
  <2> QED
    BY <1>1, <1>5
<1> HIDE DEF closed, Link
<1> QED
  BY <1>2, <1>4, <1>6

\* No set of the closed surface has four elements.
LEMMA ClosedIsThin ==
    ASSUME NEW D, Corners(D), NEW u \in Closed(D), NEW p \in u, NEW q \in u, NEW r \in u,
           NEW z \in u
    PROVE  p = q \/ p = r \/ p = z \/ q = r \/ q = z \/ r = z
<1>1. CASE u \in Triangles(D)
  BY <1>1 DEF Triangles, corners
<1>2. CASE u \notin Triangles(D)
  <2>1. PICK e \in Boundary(D) : u = e \cup {Apex}
    BY <1>2 DEF Closed
  <2>2. e \in Edges(D)
    BY DEF Boundary
  <2>3. PICK d \in D : e = {d[1], d[2]}
    BY <2>2 DEF Edges
  <2> QED
    BY <2>1, <2>3
<1> QED
  BY <1>1, <1>2

\* Triangles at the two ends of the edge that share another vertex: then that
\* vertex makes a triangle with the edge.
LEMMA TriangleBetween ==
    ASSUME Apex \notin Vertex,
           NEW D, Corners(D), NEW a \in Vertex, NEW b \in Vertex, a # b,
           LinkCondition(D, a, b), NEW z, z \notin {a, b},
           NEW s \in Triangles(D), {a, z} \subseteq s,
           NEW t \in Triangles(D), {b, z} \subseteq t
    PROVE  {a, b, z} \in Triangles(D)
<1>1. z \in Vertex
  BY Triples DEF Triangles, corners, Corners
<1>2. s \in Closed(D) /\ t \in Closed(D)
  BY DEF Closed
<1>3. PICK u \in Closed(D) : {a, b} \subseteq u /\ {z} \subseteq u \ {a, b}
  <2> DEFINE r == {z}
  <2>1. r # {} /\ a \in s /\ b \in t /\ r \subseteq s \ {a} /\ r \subseteq t \ {b}
    OBVIOUS
  <2> HIDE DEF r
  <2>2. \E u \in Closed(D) : {a, b} \subseteq u /\ r \subseteq u \ {a, b}
    BY <1>2, <2>1, LinksMeet
  <2> QED
    BY <2>2 DEF r
<1>4. u \in Triangles(D)
  <2>1. SUFFICES ASSUME NEW e \in Boundary(D), u = e \cup {Apex} PROVE FALSE
    BY DEF Closed
  <2>2. Apex \in u
    BY <2>1
  <2> QED
    BY <1>1, <1>3, <2>2, ClosedIsThin
<1>5. u = {a, b, z}
  BY <1>3, ClosedIsThin
<1> QED
  BY <1>4, <1>5

\* A collapse: b takes the place of a.
LEMMA CollapseKeeps ==
    ASSUME Apex \notin Vertex, Surface,
           NEW a \in Vertex, NEW b \in Vertex, a # b, Collapse(a, b)
    PROVE  Surface'
<1> DEFINE on == On(darts, a, b)
<1>1. darts' = {moved(f, a, b) : f \in darts \ on}
  BY DEF Collapse
<1>2. ~free /\ free' = free /\ LinkCondition(darts, a, b)
  BY DEF Collapse
<1>3. Corners(darts) /\ Manifold(darts)
  BY DEF Surface
<1>4. ASSUME NEW f \in darts \ on
      PROVE  LET g == moved(f, a, b)
             IN  /\ g \in Vertex \X Vertex \X Vertex
                 /\ g[1] # g[2] /\ g[2] # g[3] /\ g[3] # g[1]
                 /\ rotated(g) \in darts'
                 /\ corners(g) = IF a \in corners(f) THEN (corners(f) \ {a}) \cup {b}
                                 ELSE corners(f)
  <2>1. /\ f \in Vertex \X Vertex \X Vertex /\ rotated(f) \in darts
        /\ f[1] # f[2] /\ f[2] # f[3] /\ f[3] # f[1]
    BY <1>3 DEF Corners
  <2>2. LET to(v) == IF v = a THEN b ELSE v
        IN  /\ moved(f, a, b) = <<to(f[1]), to(f[2]), to(f[3])>>
            /\ moved(f, a, b) \in Vertex \X Vertex \X Vertex
            /\ rotated(moved(f, a, b)) = moved(rotated(f), a, b)
    BY <2>1, MovedTriples
  <2>3. ~ {a, b} \subseteq corners(f)
    BY DEF On
  <2>4. rotated(f) \in darts \ on
    BY <2>1, <2>3, Triples DEF On
  <2>5. rotated(moved(f, a, b)) \in darts'
    BY <1>1, <2>2, <2>4
  <2> QED
    BY <2>1, <2>2, <2>3, <2>5 DEF corners
<1>5. Corners(darts')
  BY <1>1, <1>4 DEF Corners
<1> DEFINE Image(t, s) == /\ s \in Triangles(darts) /\ ~ {a, b} \subseteq s
                          /\ t = IF a \in s THEN (s \ {a}) \cup {b} ELSE s
<1>6. ASSUME NEW t \in Triangles(darts')
      PROVE  \E s : Image(t, s)
  <2>1. PICK g \in darts' : t = corners(g)
    BY DEF Triangles
  <2>2. PICK f \in darts \ on : g = moved(f, a, b)
    BY <1>1
  <2>3. Image(t, corners(f))
    BY <1>4, <2>1, <2>2 DEF Triangles, On
  <2> QED
    BY <2>3
<1>7. Manifold(darts')
  <2> SUFFICES ASSUME NEW t1 \in Triangles(darts'), NEW t2 \in Triangles(darts'),
                      NEW t3 \in Triangles(darts'),
                      NEW x \in t1 \cap t2 \cap t3, NEW y \in t1 \cap t2 \cap t3, x # y
               PROVE  t1 = t2 \/ t2 = t3 \/ t1 = t3
    BY DEF Manifold
  <2>1. PICK s1 : Image(t1, s1)
    BY <1>6
  <2>2. PICK s2 : Image(t2, s2)
    BY <1>6
  <2>3. PICK s3 : Image(t3, s3)
    BY <1>6
  <2>4. SUFFICES s1 = s2 \/ s2 = s3 \/ s1 = s3
    BY <2>1, <2>2, <2>3
  <2>5. CASE b \notin {x, y}
    <3>1. x \in s1 \cap s2 \cap s3 /\ y \in s1 \cap s2 \cap s3
      BY <2>1, <2>2, <2>3, <2>5
    <3> QED
      BY <1>3, <2>1, <2>2, <2>3, <3>1 DEF Manifold
  \* At b they come from triangles at a or at b.  Where both kinds are, the
  \* triangle between takes one of the two places on either side.
  <2>6. CASE b \in {x, y}
    <3>1. PICK z \in {x, y} : z # b
      BY <2>6
    <3>2. z # a
      BY <2>1, <3>1
    <3> DEFINE Side(s, q) == /\ s \in Triangles(darts) /\ ~ {a, b} \subseteq s
                             /\ z \in s /\ q \in s
    <3>3. ASSUME NEW t, NEW s, Image(t, s), b \in t, z \in t
          PROVE  \E q \in {a, b} : Side(s, q)
      BY <3>1, <3>3
    <3>4. b \in t1 /\ b \in t2 /\ b \in t3 /\ z \in t1 /\ z \in t2 /\ z \in t3
      BY <2>6
    <3>5. PICK q1 \in {a, b} : Side(s1, q1)
      BY <2>1, <3>3, <3>4
    <3>6. PICK q2 \in {a, b} : Side(s2, q2)
      BY <2>2, <3>3, <3>4
    <3>7. PICK q3 \in {a, b} : Side(s3, q3)
      BY <2>3, <3>3, <3>4
    <3>8. ASSUME NEW s, NEW t, NEW u, NEW q \in {a, b}, NEW r \in {a, b}, q # r,
                 Side(s, q), Side(t, q), Side(u, r)
          PROVE  s = t
      <4>1. {a, b, z} \in Triangles(darts)
        <5>1. CASE q = a
          BY <1>2, <1>3, <3>1, <3>2, <3>8, <5>1, TriangleBetween
        <5>2. CASE q = b
          BY <1>2, <1>3, <3>1, <3>2, <3>8, <5>2, TriangleBetween
        <5> QED
          BY <5>1, <5>2
      <4>2. z \in s \cap t \cap {a, b, z} /\ q \in s \cap t \cap {a, b, z} /\ z # q
        BY <3>1, <3>2, <3>8
      <4>3. s = t \/ t = {a, b, z} \/ s = {a, b, z}
        BY <1>3, <3>8, <4>1, <4>2 DEF Manifold
      <4> QED
        BY <3>8, <4>3
    <3>9. CASE q1 = q2 /\ q2 = q3
      <4>1. z \in s1 \cap s2 \cap s3 /\ q1 \in s1 \cap s2 \cap s3 /\ z # q1
        BY <3>1, <3>2, <3>5, <3>6, <3>7, <3>9
      <4> QED
        BY <1>3, <2>1, <2>2, <2>3, <4>1 DEF Manifold
    <3> HIDE DEF Side
    <3>10. CASE q1 = q2 /\ q2 # q3
      BY <3>5, <3>6, <3>7, <3>8, <3>10
    <3>11. CASE q1 = q3 /\ q2 # q3
      BY <3>5, <3>6, <3>7, <3>8, <3>11
    <3>12. CASE q2 = q3 /\ q1 # q2
      BY <3>5, <3>6, <3>7, <3>8, <3>12
    <3> QED
      BY <3>9, <3>10, <3>11, <3>12
  <2> QED
    BY <2>5, <2>6
<1>8. Corners(darts)' /\ Manifold(darts)'
  BY <1>5, <1>7
<1> QED
  BY <1>2, <1>8 DEF Surface


-----------------------------------------------------------------------------
\* The three darts of a triangle.
LEMMA Around ==
    ASSUME NEW V, NEW d \in V \X V \X V
    PROVE  /\ around(d) \subseteq V \X V \X V
           /\ d \in around(d)
           /\ \A f \in around(d) : corners(f) = corners(d) /\ around(f) = around(d)
           /\ \A f \in V \X V \X V : rotated(f) \in around(d) => f \in around(d)
<1>1. /\ rotated(d) \in V \X V \X V
      /\ rotated(rotated(d)) \in V \X V \X V
      /\ rotated(rotated(rotated(d))) = d
  BY Triples
<1>2. corners(rotated(d)) = corners(d) /\ corners(rotated(rotated(d))) = corners(d)
  BY <1>1, Triples
<1>3. around(rotated(d)) = around(d) /\ around(rotated(rotated(d))) = around(d)
  BY <1>1 DEF around
<1>4. ASSUME NEW f \in V \X V \X V, rotated(f) \in around(d)
      PROVE  f \in around(d)
  <2>1. rotated(rotated(rotated(f))) = f
    BY Triples
  <2> QED
    BY <1>1, <1>4, <2>1 DEF around
<1> QED
  BY <1>1, <1>2, <1>3, <1>4 DEF around

\* Triangles that share no vertex are two at no edge.
LEMMA SeparateIsManifold ==
    ASSUME NEW D, Corners(D), Separate(D)
    PROVE  Manifold(D)
<1> SUFFICES ASSUME NEW s \in Triangles(D), NEW t \in Triangles(D), NEW x \in s \cap t
             PROVE  s = t
  BY DEF Manifold
<1>1. PICK d \in D : s = corners(d)
  BY DEF Triangles
<1>2. PICK f \in D : t = corners(f)
  BY DEF Triangles
<1>3. f \in around(d)
  BY <1>1, <1>2 DEF Separate
<1>4. d \in Vertex \X Vertex \X Vertex
  BY DEF Corners
<1> QED
  BY <1>1, <1>2, <1>3, <1>4, Around

\* Without a triangle, and with a triangle of new vertices.
LEMMA WithoutTriangle ==
    ASSUME NEW D, Corners(D), Separate(D), NEW d \in D
    PROVE  /\ Corners(D \ around(d)) /\ Separate(D \ around(d))
           /\ \A f \in D \ around(d) : corners(f) \cap corners(d) = {}
<1>1. d \in Vertex \X Vertex \X Vertex
  BY DEF Corners
<1>2. ASSUME NEW f \in D \ around(d)
      PROVE  /\ f \in Vertex \X Vertex \X Vertex
             /\ f[1] # f[2] /\ f[2] # f[3] /\ f[3] # f[1]
             /\ rotated(f) \in D \ around(d)
  <2>1. /\ f \in Vertex \X Vertex \X Vertex /\ rotated(f) \in D
        /\ f[1] # f[2] /\ f[2] # f[3] /\ f[3] # f[1]
    BY DEF Corners
  <2> QED
    BY <1>1, <2>1, Around
<1>3. Corners(D \ around(d))
  BY <1>2 DEF Corners
<1> QED
  BY <1>3 DEF Separate

LEMMA WithTriangle ==
    ASSUME NEW D, Corners(D), Separate(D),
           NEW d \in Vertex \X Vertex \X Vertex,
           d[1] # d[2], d[2] # d[3], d[3] # d[1],
           \A f \in D : corners(f) \cap corners(d) = {}
    PROVE  Corners(D \cup around(d)) /\ Separate(D \cup around(d))
<1> DEFINE V3 == Vertex \X Vertex \X Vertex
<1>1. ASSUME NEW f \in around(d)
      PROVE  /\ f \in V3 /\ f[1] # f[2] /\ f[2] # f[3] /\ f[3] # f[1]
             /\ rotated(f) \in around(d)
             /\ corners(f) = corners(d) /\ around(f) = around(d)
  <2>1. /\ rotated(d) \in V3 /\ rotated(rotated(d)) \in V3
        /\ rotated(rotated(rotated(d))) = d
    BY Triples
  <2>2. f \in V3 /\ corners(f) = corners(d) /\ around(f) = around(d)
    BY <1>1, Around
  <2>3. f[1] # f[2] /\ f[2] # f[3] /\ f[3] # f[1]
    BY <1>1, <2>1, Triples DEF around
  <2>4. rotated(f) \in around(d)
    BY <1>1, <2>1 DEF around
  <2> QED
    BY <2>2, <2>3, <2>4
<1>2. Corners(D \cup around(d))
  BY <1>1 DEF Corners
<1>3. ASSUME NEW f \in D \cup around(d), NEW g \in D \cup around(d)
      PROVE  g \in around(f) \/ corners(f) \cap corners(g) = {}
  <2>1. CASE f \in D /\ g \in D
    BY <2>1 DEF Separate
  <2>2. CASE f \in around(d) /\ g \in around(d)
    BY <1>1, <2>2
  <2>3. CASE f \in around(d) /\ g \in D
    BY <1>1, <2>3
  <2>4. CASE f \in D /\ g \in around(d)
    BY <1>1, <2>4
  <2> QED
    BY <2>1, <2>2, <2>3, <2>4
<1> QED
  BY <1>2, <1>3 DEF Separate

\* A triangle abc of a free mesh becomes awc and xby.
LEMMA SplitFreeKeeps ==
    ASSUME Surface, NEW d \in darts, SplitFree(d)
    PROVE  Surface'
<1> DEFINE V3 == Vertex \X Vertex \X Vertex
<1>1. PICK w \in Vertex \ Used(darts), x \in Vertex \ Used(darts), y \in Vertex \ Used(darts) :
         /\ Cardinality({w, x, y}) = 3
         /\ darts' = (darts \ around(d)) \cup around(moved(d, d[2], w))
                        \cup around(moved(moved(d, d[1], x), d[3], y))
  BY DEF SplitFree
<1>2. free /\ free' = free /\ Corners(darts) /\ Separate(darts)
  BY DEF SplitFree, Surface
<1>3. d \in V3 /\ d[1] # d[2] /\ d[2] # d[3] /\ d[3] # d[1]
  BY <1>2 DEF Corners
<1>4. w # x /\ x # y /\ y # w
  <2>1. corners(<<w, x, y>>) = {w, x, y}
    BY DEF corners
  <2> QED
    BY <1>1, <2>1, ThreeCorners
<1>5. ASSUME NEW f \in darts
      PROVE  w \notin corners(f) /\ x \notin corners(f) /\ y \notin corners(f)
  BY <1>1 DEF Used
<1>6. d[1] \in corners(d) /\ d[2] \in corners(d) /\ d[3] \in corners(d)
  BY DEF corners
<1> DEFINE p == <<d[1], w, d[3]>>
           q == <<x, d[2], y>>
<1>7. moved(d, d[2], w) = p
  BY <1>1, <1>3, MovedTriples
<1>8. moved(moved(d, d[1], x), d[3], y) = q
  <2>1. moved(d, d[1], x) = <<x, d[2], d[3]>>
    BY <1>1, <1>3, MovedTriples
  <2>2. <<x, d[2], d[3]>> \in V3
    BY <1>3, <1>1, Triples
  <2>3. x # d[3] /\ d[2] # d[3]
    BY <1>3, <1>5, <1>6
  <2> QED
    BY <1>1, <2>1, <2>2, <2>3, MovedTriples
<1> DEFINE A == darts \ around(d)
           B == A \cup around(p)
<1>9. Corners(A) /\ Separate(A) /\ \A f \in A : corners(f) \cap corners(d) = {}
  BY <1>2, WithoutTriangle
<1>10. /\ p \in V3 /\ q \in V3
       /\ p[1] # p[2] /\ p[2] # p[3] /\ p[3] # p[1]
       /\ q[1] # q[2] /\ q[2] # q[3] /\ q[3] # q[1]
       /\ corners(p) = {d[1], w, d[3]} /\ corners(q) = {x, d[2], y}
  <2>1. p \in V3 /\ q \in V3
    BY <1>1, <1>3, Triples
  <2>2. corners(p) = {d[1], w, d[3]} /\ corners(q) = {x, d[2], y}
    BY DEF corners
  <2> QED
    BY <1>3, <1>4, <1>5, <1>6, <2>1, <2>2
<1>11. Corners(B) /\ Separate(B)
  <2>1. \A f \in A : corners(f) \cap corners(p) = {}
    BY <1>5, <1>6, <1>9, <1>10
  <2> HIDE DEF A, p
  <2> QED
    BY <1>9, <1>10, <2>1, WithTriangle
<1>12. Corners(B \cup around(q)) /\ Separate(B \cup around(q))
  <2>1. \A f \in A : corners(f) \cap corners(q) = {}
    BY <1>5, <1>6, <1>9, <1>10
  <2>2. corners(p) \cap corners(q) = {}
    BY <1>3, <1>4, <1>5, <1>6, <1>10
  <2>3. \A f \in around(p) : corners(f) = corners(p)
    <3> HIDE DEF p
    <3> QED
      BY <1>10, Around
  <2>4. \A f \in B : corners(f) \cap corners(q) = {}
    BY <2>1, <2>2, <2>3
  <2> HIDE DEF B, q
  <2> QED
    BY <1>10, <1>11, <2>4, WithTriangle
<1>13. darts' = B \cup around(q)
  BY <1>1, <1>7, <1>8
<1>14. Corners(darts)' /\ Separate(darts)' /\ Manifold(darts)'
  <2> HIDE DEF B, q
  <2>1. Corners(darts') /\ Separate(darts')
    BY <1>12, <1>13
  <2> QED
    BY <2>1, SeparateIsManifold
<1> QED
  BY <1>2, <1>14 DEF Surface

LEMMA CollapseFreeKeeps ==
    ASSUME Surface, NEW d \in darts, CollapseFree(d)
    PROVE  Surface'
<1>1. free /\ free' = free /\ Corners(darts) /\ Separate(darts)
  BY DEF CollapseFree, Surface
<1>2. Corners(darts') /\ Separate(darts')
  BY <1>1, WithoutTriangle DEF CollapseFree
<1>3. Corners(darts)' /\ Separate(darts)' /\ Manifold(darts)'
  BY <1>2, SeparateIsManifold
<1> QED
  BY <1>1, <1>3 DEF Surface


-----------------------------------------------------------------------------
\* The number that Renumber gives a vertex: different ones for different
\* vertices, below the number of vertices there can be.
place(U, v) == Cardinality({u \in U : u < v})

LEMMA Places ==
    ASSUME NEW N \in Nat, NEW U \in SUBSET (0 .. N - 1)
    PROVE  /\ \A v \in U : place(U, v) \in 0 .. N - 1
           /\ \A v, w \in U : place(U, v) = place(U, w) => v = w
<1> DEFINE below(v) == {u \in U : u < v}
<1>1. IsFiniteSet(U) /\ Cardinality(U) \in Nat /\ Cardinality(U) <= N
  <2>1. IsFiniteSet(0 .. N - 1) /\ Cardinality(0 .. N - 1) = N
    BY FS_Interval
  <2> QED
    BY <2>1, FS_Subset, FS_CardinalityType
<1>2. \A v : below(v) \in SUBSET U /\ IsFiniteSet(below(v)) /\ Cardinality(below(v)) \in Nat
  <2>1. \A v : below(v) \in SUBSET U
    OBVIOUS
  <2> HIDE DEF below
  <2>2. \A v : IsFiniteSet(below(v))
    BY <1>1, <2>1, FS_Subset
  <2> QED
    BY <2>1, <2>2, FS_CardinalityType
<1>3. ASSUME NEW v \in U, NEW T \in SUBSET U, below(v) \subseteq T, v \in T
      PROVE  Cardinality(below(v)) < Cardinality(T)
  <2>1. v \notin below(v)
    OBVIOUS
  <2>2. below(v) \in SUBSET T /\ below(v) # T /\ IsFiniteSet(T)
    BY <1>1, <1>3, <2>1, FS_Subset
  <2> HIDE DEF below
  <2>3. Cardinality(below(v)) <= Cardinality(T) /\ Cardinality(below(v)) # Cardinality(T)
    BY <2>2, FS_Subset
  <2>4. Cardinality(T) \in Nat
    BY <2>2, FS_CardinalityType
  <2> QED
    BY <1>2, <2>3, <2>4
<1>4. ASSUME NEW v \in U PROVE place(U, v) \in 0 .. N - 1
  <2>1. Cardinality(below(v)) < Cardinality(U)
    BY <1>2, <1>3
  <2>2. place(U, v) = Cardinality(below(v))
    BY DEF place
  <2> HIDE DEF below
  <2> QED
    BY <1>1, <1>2, <2>1, <2>2
<1>5. ASSUME NEW v \in U, NEW w \in U, v < w PROVE place(U, v) # place(U, w)
  <2>1. below(v) \subseteq below(w) /\ v \in below(w)
    <3>1. v \in Int /\ w \in Int /\ \A u \in U : u \in Int
      OBVIOUS
    <3>2. \A u \in U : u < v => u < w
      BY <1>5, <3>1
    <3> QED
      BY <1>5, <3>2
  <2>2. place(U, v) = Cardinality(below(v)) /\ place(U, w) = Cardinality(below(w))
    BY DEF place
  <2> HIDE DEF below
  <2> QED
    BY <1>2, <1>3, <2>1, <2>2
<1>6. \A v, w \in U : v # w => v < w \/ w < v
  OBVIOUS
<1> QED
  BY <1>4, <1>5, <1>6

LEMMA RenumberKeeps ==
    ASSUME NEW N \in Nat, Vertex = 0 .. N - 1, Surface, Renumber
    PROVE  Surface'
<1> DEFINE U == Used(darts)
           to(d) == <<place(U, d[1]), place(U, d[2]), place(U, d[3])>>
<1>1. darts' = {to(d) : d \in darts} /\ free' = free
  BY Zenon DEF Renumber, place
<1>2. Corners(darts) /\ Manifold(darts) /\ (free => Separate(darts))
  BY DEF Surface
<1>3. U \in SUBSET (0 .. N - 1) /\ \A d \in darts : d[1] \in U /\ d[2] \in U /\ d[3] \in U
  BY <1>2, Triples DEF Used, corners, Corners
<1>4. /\ \A v \in U : place(U, v) \in Vertex
      /\ \A v, w \in U : place(U, v) = place(U, w) => v = w
  BY <1>3, Places
<1> HIDE DEF U
<1>5. ASSUME NEW d \in darts
      PROVE  /\ to(d) \in Vertex \X Vertex \X Vertex
             /\ to(d)[1] # to(d)[2] /\ to(d)[2] # to(d)[3] /\ to(d)[3] # to(d)[1]
             /\ rotated(to(d)) = to(rotated(d)) /\ rotated(d) \in darts
             /\ corners(to(d)) = {place(U, v) : v \in corners(d)}
             /\ corners(d) \subseteq U
  <2>1. /\ d \in Vertex \X Vertex \X Vertex /\ rotated(d) \in darts
        /\ d[1] # d[2] /\ d[2] # d[3] /\ d[3] # d[1]
    BY <1>2 DEF Corners
  <2>2. d[1] \in U /\ d[2] \in U /\ d[3] \in U
    BY <1>3
  <2>3. to(d) \in Vertex \X Vertex \X Vertex
    BY <1>4, <2>2
  <2>4. place(U, d[1]) # place(U, d[2]) /\ place(U, d[2]) # place(U, d[3])
        /\ place(U, d[3]) # place(U, d[1])
    BY <1>4, <2>1, <2>2
  <2>5. rotated(to(d)) = to(rotated(d))
    BY <2>1, Triples DEF rotated
  <2>6. corners(to(d)) = {place(U, v) : v \in corners(d)}
    BY DEF corners
  <2> QED
    BY <2>1, <2>2, <2>3, <2>4, <2>5, <2>6 DEF corners
<1>6. Corners(darts')
  <2> SUFFICES ASSUME NEW d \in darts
               PROVE  /\ to(d) \in Vertex \X Vertex \X Vertex
                      /\ to(d)[1] # to(d)[2] /\ to(d)[2] # to(d)[3] /\ to(d)[3] # to(d)[1]
                      /\ rotated(to(d)) \in darts'
    BY <1>1 DEF Corners
  <2> QED
    BY <1>1, <1>5
<1>7. Manifold(darts')
  <2> DEFINE image(s) == {place(U, v) : v \in s}
  <2>1. ASSUME NEW t \in Triangles(darts')
        PROVE  \E s \in Triangles(darts) : s \subseteq U /\ t = image(s)
    <3>1. PICK d \in darts : t = corners(to(d))
      BY <1>1 DEF Triangles
    <3> QED
      BY <1>5, <3>1 DEF Triangles
  <2> SUFFICES ASSUME NEW t1 \in Triangles(darts'), NEW t2 \in Triangles(darts'),
                      NEW t3 \in Triangles(darts'),
                      NEW x \in t1 \cap t2 \cap t3, NEW y \in t1 \cap t2 \cap t3, x # y
               PROVE  t1 = t2 \/ t2 = t3 \/ t1 = t3
    BY DEF Manifold
  <2>2. PICK s1 \in Triangles(darts) : s1 \subseteq U /\ t1 = image(s1)
    BY <2>1
  <2>3. PICK s2 \in Triangles(darts) : s2 \subseteq U /\ t2 = image(s2)
    BY <2>1
  <2>4. PICK s3 \in Triangles(darts) : s3 \subseteq U /\ t3 = image(s3)
    BY <2>1
  <2>5. ASSUME NEW z \in t1 \cap t2 \cap t3
        PROVE  \E v \in s1 \cap s2 \cap s3 : z = place(U, v)
    <3>1. PICK v1 \in s1 : z = place(U, v1)
      BY <2>2
    <3>2. PICK v2 \in s2 : z = place(U, v2)
      BY <2>3
    <3>3. PICK v3 \in s3 : z = place(U, v3)
      BY <2>4
    <3>4. v1 = v2 /\ v2 = v3
      BY <1>4, <2>2, <2>3, <2>4, <3>1, <3>2, <3>3
    <3> QED
      BY <3>1, <3>4
  <2>6. PICK v \in s1 \cap s2 \cap s3 : x = place(U, v)
    BY <2>5
  <2>7. PICK w \in s1 \cap s2 \cap s3 : y = place(U, w)
    BY <2>5
  <2>8. s1 = s2 \/ s2 = s3 \/ s1 = s3
    BY <1>2, <2>6, <2>7 DEF Manifold
  <2> QED
    BY <2>2, <2>3, <2>4, <2>8
<1>8. ASSUME free PROVE Separate(darts')
  <2> SUFFICES ASSUME NEW d \in darts, NEW f \in darts
               PROVE  to(f) \in around(to(d)) \/ corners(to(d)) \cap corners(to(f)) = {}
    BY <1>1 DEF Separate
  <2>1. CASE f \in around(d)
    <3>1. /\ rotated(to(d)) = to(rotated(d))
          /\ rotated(rotated(to(d))) = to(rotated(rotated(d)))
      BY <1>5
    <3> QED
      BY <2>1, <3>1 DEF around
  <2>2. CASE corners(d) \cap corners(f) = {}
    <3> SUFFICES ASSUME NEW x \in corners(to(d)) \cap corners(to(f)) PROVE FALSE
      OBVIOUS
    <3> HIDE DEF to
    <3>1. PICK v \in corners(d) : x = place(U, v)
      BY <1>5
    <3>2. PICK u \in corners(f) : x = place(U, u)
      BY <1>5
    <3>3. v \in U /\ u \in U
      BY <1>5
    <3>4. u = v
      BY <1>4, <3>1, <3>2, <3>3
    <3> QED
      BY <2>2, <3>4
  <2>3. f \in around(d) \/ corners(d) \cap corners(f) = {}
    BY <1>2, <1>8 DEF Separate
  <2> HIDE DEF to
  <2> QED
    BY <2>1, <2>2, <2>3
<1>9. Corners(darts)' /\ Manifold(darts)' /\ (free' => Separate(darts)')
  BY <1>1, <1>6, <1>7, <1>8
<1> QED
  BY <1>1, <1>9 DEF Surface

-----------------------------------------------------------------------------
LEMMA SurfaceKept ==
    ASSUME NEW N \in Nat, Vertex = 0 .. N - 1
    PROVE  Surface /\ [Next]_vars => Surface'
<1> SUFFICES ASSUME Surface, [Next]_vars PROVE Surface'
  OBVIOUS
<1>1. Apex \notin Vertex
  BY DEF Apex
<1>2. ASSUME NEW d \in darts
      PROVE  d[1] \in Vertex /\ d[2] \in Vertex /\ d[1] # d[2]
  BY Triples DEF Surface, Corners
<1>3. ASSUME NEW d \in darts, SplitFree(d) PROVE Surface'
  BY <1>3, SplitFreeKeeps
<1>4. ASSUME NEW d \in darts, CollapseFree(d) PROVE Surface'
  BY <1>4, CollapseFreeKeeps
<1>5. ASSUME NEW d \in darts, Split(d[1], d[2]) PROVE Surface'
  BY <1>5, SplitKeeps
<1>6. ASSUME NEW d \in darts, Collapse(d[1], d[2]) PROVE Surface'
  BY <1>1, <1>2, <1>6, CollapseKeeps
<1>7. ASSUME NEW d \in darts, Collapse(d[2], d[1]) PROVE Surface'
  BY <1>1, <1>2, <1>7, CollapseKeeps
<1>8. CASE Renumber
  BY <1>8, RenumberKeeps
<1>9. CASE UNCHANGED vars
  BY <1>9 DEF vars, Surface
<1> QED
  BY <1>3, <1>4, <1>5, <1>6, <1>7, <1>8, <1>9 DEF Next

\* Whatever surface the operations start from and in whatever order they come,
\* a triangle keeps three different vertices and no edge is ever on more than
\* two triangles; in a free mesh triangles never meet.  The link condition is
\* what makes it true of collapses.
THEOREM SurfaceStaysManifold ==
    ASSUME NEW N \in Nat, Vertex = 0 .. N - 1
    PROVE  Spec => []TypeOK
<1>1. IsFiniteSet(Vertex)
  BY FS_Interval
<1>2. TypeOK <=> Surface
  BY <1>1, TypeIsSurface
<1>3. Init => Surface
  BY <1>2 DEF Init
<1>4. Surface /\ [Next]_vars => Surface'
  BY SurfaceKept
<1> QED
  BY <1>2, <1>3, <1>4, PTL DEF Spec


-----------------------------------------------------------------------------
\* The marks of MarkedSurface.

MarksOnEdges == marked \subseteq Edges(darts)

LEMMA MovedCorners ==
    ASSUME NEW V, NEW d \in V \X V \X V, d[1] # d[2], d[2] # d[3], d[3] # d[1],
           NEW a \in corners(d), NEW b \in V
    PROVE  corners(moved(d, a, b)) = (corners(d) \ {a}) \cup {b}
<1>1. LET to(v) == IF v = a THEN b ELSE v
      IN  moved(d, a, b) = <<to(d[1]), to(d[2]), to(d[3])>>
  BY MovedTriples
<1> QED
  BY <1>1 DEF corners

\* A split leaves the other edges and makes two of its own.
LEMMA SplitMarks ==
    ASSUME Surface, MarksOnEdges, NEW d \in darts, SplitMarked(d[1], d[2])
    PROVE  MarksOnEdges'
<1> DEFINE a == d[1]
           b == d[2]
           on == On(darts, a, b)
<1>1. Split(a, b)
  BY DEF SplitMarked
<1>2. PICK w \in Vertex \ Used(darts) :
         darts' = (darts \ on) \cup {moved(f, a, w) : f \in on} \cup {moved(f, b, w) : f \in on}
  BY <1>1 DEF Split
<1>3. Corners(darts) /\ Corners(darts')
  <2>1. Corners(darts) /\ Corners(darts)'
    BY <1>1, SplitKeeps DEF Surface
  <2> QED
    BY <2>1
<1>4. a # b /\ d \in on
  BY <1>3 DEF Corners, On, corners
<1>5. ASSUME NEW f \in on, NEW c \in {a, b}
      PROVE  /\ moved(f, c, w) \in darts'
             /\ corners(moved(f, c, w)) = (corners(f) \ {c}) \cup {w}
  <2>1. f \in darts /\ c \in corners(f)
    BY DEF On
  <2>2. f \in Vertex \X Vertex \X Vertex /\ f[1] # f[2] /\ f[2] # f[3] /\ f[3] # f[1]
    BY <1>3, <2>1 DEF Corners
  <2>3. corners(moved(f, c, w)) = (corners(f) \ {c}) \cup {w}
    BY <2>1, <2>2, MovedCorners
  <2> QED
    BY <1>2, <2>3
<1>6. w \in Used(darts') /\ \A v \in Used(darts') : v \notin Used(darts) => v = w
  <2>1. w \in Used(darts')
    BY <1>4, <1>5 DEF Used
  <2>2. ASSUME NEW g \in darts' PROVE corners(g) \subseteq Used(darts) \cup {w}
    <3>1. CASE g \in darts
      BY <3>1 DEF Used
    <3>2. CASE g \notin darts
      <4>1. PICK f \in on, c \in {a, b} : g = moved(f, c, w)
        BY <1>2, <3>2
      <4>2. corners(f) \subseteq Used(darts)
        BY DEF On, Used
      <4> QED
        BY <1>5, <4>1, <4>2
    <3> QED
      BY <3>1, <3>2
  <2>3. \A v \in Used(darts') : \E g \in darts' : v \in corners(g)
    BY DEF Used
  <2> QED
    BY <2>1, <2>2, <2>3
<1>7. (CHOOSE v \in Used(darts') : v \notin Used(darts)) = w
  BY <1>6
<1>8. marked' = IF {a, b} \in marked THEN (marked \ {{a, b}}) \cup {{a, w}, {b, w}} ELSE marked
  BY <1>7 DEF SplitMarked
<1>9. ASSUME NEW e \in Edges(darts), e # {a, b} PROVE e \in Edges(darts')
  <2>1. PICK f \in darts : e = {f[1], f[2]} /\ e \subseteq corners(f) /\ f[1] # f[2]
    BY <1>3, EdgesOfTriangles
  <2>2. CASE f \in on
    <3>1. PICK c \in {a, b} : c \notin e
      <4> SUFFICES ASSUME a \in e, b \in e PROVE FALSE
        OBVIOUS
      <4>1. e = {a, b}
        BY <1>4, <2>1
      <4> QED
        BY <1>9, <4>1
    <3>2. f[1] \in corners(moved(f, c, w)) /\ f[2] \in corners(moved(f, c, w))
      BY <1>5, <2>1, <2>2, <3>1
    <3> QED
      BY <1>3, <1>5, <2>1, <2>2, <3>2, EdgesOfTriangles
  <2>3. CASE f \notin on
    BY <1>2, <2>1, <2>3 DEF Edges
  <2> QED
    BY <2>2, <2>3
<1>10. {a, w} \in Edges(darts') /\ {b, w} \in Edges(darts')
  <2>1. w \notin corners(d) /\ a \in corners(d) /\ b \in corners(d)
    BY DEF Used, corners
  <2>2. a \in corners(moved(d, b, w)) /\ w \in corners(moved(d, b, w)) /\ a # w
    BY <1>4, <1>5, <2>1
  <2>3. b \in corners(moved(d, a, w)) /\ w \in corners(moved(d, a, w)) /\ b # w
    BY <1>4, <1>5, <2>1
  <2>4. {a, w} \in Edges(darts')
    BY <1>3, <1>4, <1>5, <2>2, EdgesOfTriangles
  <2>5. {b, w} \in Edges(darts')
    BY <1>3, <1>4, <1>5, <2>3, EdgesOfTriangles
  <2> QED
    BY <2>4, <2>5
<1> QED
  BY <1>8, <1>9, <1>10 DEF MarksOnEdges

\* Of a triangle abc one of ac and bc is on another triangle: were both at the
\* boundary, the cone would meet the links of a and b in an edge that the link
\* of ab does not have.
LEMMA OtherTriangle ==
    ASSUME Apex \notin Vertex, NEW D, Corners(D),
           NEW a \in Vertex, NEW b \in Vertex, a # b, LinkCondition(D, a, b),
           NEW c, c \notin {a, b}, {a, b, c} \in Triangles(D)
    PROVE  \E s \in Triangles(D) : c \in s /\ (a \in s <=> b \notin s)
<1> SUFFICES ASSUME \A s \in Triangles(D) : c \in s => (a \in s <=> b \in s)
             PROVE  FALSE
  OBVIOUS
<1>1. \A s \in Triangles(D) : \A p, q, r, z \in s :
         p = q \/ p = r \/ p = z \/ q = r \/ q = z \/ r = z
  BY DEF Triangles, corners
<1>2. \A s \in Triangles(D) : {a, b, c} \subseteq s => s = {a, b, c}
  BY <1>1
<1>3. ASSUME NEW x \in {a, b} PROVE {x, c} \cup {Apex} \in Closed(D)
  <2>1. {t \in Triangles(D) : {x, c} \subseteq t} = {{a, b, c}}
    <3>1. \A t \in Triangles(D) : {x, c} \subseteq t => {a, b, c} \subseteq t
      BY <1>3
    <3>2. \A t \in Triangles(D) : {x, c} \subseteq t <=> t = {a, b, c}
      BY <1>2, <1>3, <3>1
    <3> QED
      BY <3>2
  <2>2. Cardinality({t \in Triangles(D) : {x, c} \subseteq t}) = 1
    BY <2>1, FS_Singleton
  <2>3. {x, c} \in Edges(D)
    <3>1. PICK d \in D : {a, b, c} = corners(d)
      BY DEF Triangles
    <3> QED
      BY <3>1, EdgesOfTriangles
  <2> QED
    BY <2>2, <2>3 DEF Boundary, Closed
<1>4. c \in Vertex
  BY Triples DEF Triangles, corners, Corners
<1> DEFINE r == {c, Apex}
           s == {a, c} \cup {Apex}
           t == {b, c} \cup {Apex}
<1>5. r # {} /\ a \in s /\ b \in t /\ r \subseteq s \ {a} /\ r \subseteq t \ {b}
  BY <1>4
<1>6. s \in Closed(D) /\ t \in Closed(D)
  BY <1>3
<1>7. \E u \in Closed(D) : {a, b} \subseteq u /\ r \subseteq u \ {a, b}
  <2> HIDE DEF r, s, t
  <2> QED
    BY <1>5, <1>6, LinksMeet
<1> QED
  BY <1>4, <1>7, ClosedIsThin

\* A collapse moves the marks with the edges.
LEMMA CollapseMarks ==
    ASSUME Apex \notin Vertex, Surface, MarksOnEdges,
           NEW a \in Vertex, NEW b \in Vertex, a # b, CollapseMarked(a, b)
    PROVE  MarksOnEdges'
<1> DEFINE on == On(darts, a, b)
<1>1. Collapse(a, b) /\ marked' = {renamed(e, a, b) : e \in marked \ {{a, b}}}
  BY DEF CollapseMarked
<1>2. darts' = {moved(f, a, b) : f \in darts \ on} /\ LinkCondition(darts, a, b)
  BY <1>1 DEF Collapse
<1>3. Corners(darts) /\ Corners(darts')
  <2>1. Corners(darts) /\ Corners(darts)'
    BY <1>1, CollapseKeeps DEF Surface
  <2> QED
    BY <2>1
<1>4. ASSUME NEW f \in darts \ on
      PROVE  LET to(v) == IF v = a THEN b ELSE v
             IN  moved(f, a, b) = <<to(f[1]), to(f[2]), to(f[3])>>
  <2>1. f \in Vertex \X Vertex \X Vertex
    BY <1>3 DEF Corners
  <2> QED
    BY <2>1, MovedTriples
<1>5. ASSUME NEW e \in Edges(darts), e # {a, b} PROVE renamed(e, a, b) \in Edges(darts')
  <2>1. PICK f \in darts : e = {f[1], f[2]} /\ e \subseteq corners(f) /\ f[1] # f[2]
    BY <1>3, EdgesOfTriangles
  <2>2. CASE f \notin on
    <3> DEFINE g == moved(f, a, b)
    <3>1. g \in darts'
      BY <1>2, <2>2
    <3>2. renamed(e, a, b) = {g[1], g[2]}
      BY <1>4, <2>1, <2>2 DEF renamed
    <3> HIDE DEF g
    <3> QED
      BY <3>1, <3>2 DEF Edges
  <2>3. CASE f \in on
    <3>1. PICK c \in e : c \notin {a, b}
      <4>1. f[1] \in e /\ f[2] \in e
        BY <2>1
      <4> QED
        BY <1>5, <2>1, <4>1
    <3>2. corners(f) = {a, b, c}
      <4>1. {a, b, c} \subseteq corners(f)
        BY <2>1, <2>3, <3>1 DEF On
      <4> QED
        BY <3>1, <4>1 DEF corners
    <3>3. renamed(e, a, b) = {b, c}
      BY <1>5, <2>1, <3>1, <3>2 DEF renamed
    <3>4. PICK s \in Triangles(darts) : c \in s /\ (a \in s <=> b \notin s)
      <4>1. {a, b, c} \in Triangles(darts)
        BY <3>2 DEF Triangles
      <4> QED
        BY <1>2, <1>3, <3>1, <4>1, OtherTriangle
    <3>5. PICK h \in darts : s = corners(h)
      BY DEF Triangles
    <3>6. h \in darts \ on
      BY <3>4, <3>5 DEF On
    <3>7. moved(h, a, b) \in darts' /\ b \in corners(moved(h, a, b))
          /\ c \in corners(moved(h, a, b))
      BY <1>2, <1>4, <3>1, <3>4, <3>5, <3>6 DEF corners
    <3> QED
      BY <1>3, <3>1, <3>3, <3>7, EdgesOfTriangles
  <2> QED
    BY <2>2, <2>3
<1> QED
  BY <1>1, <1>5 DEF MarksOnEdges

LEMMA RenumberMarks ==
    ASSUME MarksOnEdges, RenumberMarked
    PROVE  MarksOnEdges'
<1> DEFINE U == Used(darts)
           to(d) == <<place(U, d[1]), place(U, d[2]), place(U, d[3])>>
<1>1. darts' = {to(d) : d \in darts}
  BY Zenon DEF RenumberMarked, Renumber, place
<1>2. marked' = {{place(U, v) : v \in e} : e \in marked}
  BY Zenon DEF RenumberMarked, place
<1> HIDE DEF U
<1> SUFFICES ASSUME NEW e \in marked PROVE {place(U, v) : v \in e} \in Edges(darts')
  BY <1>2 DEF MarksOnEdges
<1>3. PICK d \in darts : e = {d[1], d[2]}
  BY DEF MarksOnEdges, Edges
<1>4. {place(U, v) : v \in e} = {to(d)[1], to(d)[2]} /\ to(d) \in darts'
  BY <1>1, <1>3
<1> QED
  BY <1>4 DEF Edges

\* The operations that carry marks are operations on the surface.
LEMMA MarkedStep == MarkedNext => Next
BY DEF MarkedNext, Next, SplitMarked, CollapseMarked, RenumberMarked

\* A curve that runs along the edges of a surface runs along edges after every
\* operation: no split and no collapse leaves a mark on a pair of vertices that
\* have come apart, and the surface below stays a manifold.
THEOREM MarksStayOnEdges ==
    ASSUME NEW N \in Nat, Vertex = 0 .. N - 1
    PROVE  MarkedSpec => [](TypeOK /\ MarksOnEdges)
<1>1. IsFiniteSet(Vertex)
  BY FS_Interval
<1>2. TypeOK <=> Surface
  BY <1>1, TypeIsSurface
<1>3. MarkedInit => Surface /\ MarksOnEdges
  BY <1>2 DEF MarkedInit, Init, MarksOnEdges
<1>4. Surface /\ MarksOnEdges /\ [MarkedNext]_marked_vars => Surface' /\ MarksOnEdges'
  <2> SUFFICES ASSUME Surface, MarksOnEdges, [MarkedNext]_marked_vars
               PROVE  Surface' /\ MarksOnEdges'
    OBVIOUS
  <2>1. [Next]_vars
    BY MarkedStep DEF vars, marked_vars
  <2>2. Surface'
    BY <2>1, SurfaceKept
  <2>3. Apex \notin Vertex
    BY DEF Apex
  <2>4. ASSUME NEW d \in darts
        PROVE  d[1] \in Vertex /\ d[2] \in Vertex /\ d[1] # d[2]
    BY Triples DEF Surface, Corners
  <2>5. ASSUME NEW d \in darts, SplitMarked(d[1], d[2]) PROVE MarksOnEdges'
    BY <2>5, SplitMarks
  <2>6. ASSUME NEW d \in darts, CollapseMarked(d[1], d[2]) PROVE MarksOnEdges'
    BY <2>3, <2>4, <2>6, CollapseMarks
  <2>7. ASSUME NEW d \in darts, CollapseMarked(d[2], d[1]) PROVE MarksOnEdges'
    BY <2>3, <2>4, <2>7, CollapseMarks
  <2>8. CASE RenumberMarked
    BY <2>2, <2>8, RenumberMarks
  <2>9. CASE UNCHANGED marked_vars
    BY <2>2, <2>9 DEF marked_vars, MarksOnEdges
  <2> QED
    BY <2>2, <2>5, <2>6, <2>7, <2>8, <2>9 DEF MarkedNext
<1> QED
  BY <1>2, <1>3, <1>4, PTL DEF MarkedSpec
=============================================================================

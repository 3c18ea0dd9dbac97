--------------------------- MODULE TriMeshProofs ---------------------------
(***************************************************************************)
(* Proofs about TriMesh.tla and Multimesh.tla, for every capacity, every   *)
(* bound and all inputs that are oriented surfaces or not oriented ones.   *)
(* The inductive invariant is that the mesh is Manifold: a collapse that   *)
(* the link condition allows, consolidate and initialize keep it, as a     *)
(* split does.  From it follow the properties of TriMesh, that the link    *)
(* condition of the code is the one of the textbooks, and that the tables  *)
(* implement TriangleComplex.  The last sections add the child: the maps   *)
(* between it and the parent agree.                                        *)
(***************************************************************************)
EXTENDS Multimesh, TriMeshExecutorProofs

-----------------------------------------------------------------------------
(* The faces of a vertex that has no boundary: no part of them is left     *)
(* across one edge only.                                                   *)

\* The members of a finite set, in pairs.
Paired(S, s) == s \in [S -> S] /\ \A x \in S : s[x] # x /\ s[s[x]] = x

\* A finite set whose members are paired is even: pairs are taken away until none
\* is left.
LEMMA PairsEven ==
    ASSUME NEW S, IsFiniteSet(S), NEW s, Paired(S, s)
    PROVE  \E n \in Nat : Cardinality(S) = 2 * n
<1> DEFINE odd(c) == \A n \in Nat : c # 2 * n
           Bad == {c \in Nat : \E T \in SUBSET S :
                      Cardinality(T) = c /\ odd(c) /\ \A x \in T : s[x] \in T}
<1>1. \A x \in S : s[x] \in S /\ s[x] # x /\ s[s[x]] = x
  BY DEF Paired
<1>2. Bad = {}
  <2> SUFFICES ASSUME Bad # {}
               PROVE  FALSE
    OBVIOUS
  <2>1. PICK r \in Bad : \A c \in Bad : r <= c
    <3>1. Bad \in SUBSET Nat
      OBVIOUS
    <3> HIDE DEF Bad
    <3> QED
      BY <3>1, LeastNatural
  <2>2. PICK T \in SUBSET S : Cardinality(T) = r /\ odd(r) /\ \A x \in T : s[x] \in T
    BY <2>1
  <2>3. r \in Nat /\ IsFiniteSet(T)
    BY <2>1, FS_Subset
  <2>4. PICK x \in T : TRUE
    <3>1. r # 2 * 0
      BY <2>2
    <3>2. T # {}
      BY <2>2, <3>1, FS_EmptySet
    <3> QED
      BY <3>2
  <2>5. s[x] \in T /\ s[x] # x /\ s[s[x]] = x
    BY <1>1, <2>2, <2>4
  <2> DEFINE R == (T \ {x}) \ {s[x]}
  <2>6. Cardinality(R) = r - 2 /\ IsFiniteSet(R)
    <3>1. IsFiniteSet(T \ {x}) /\ Cardinality(T \ {x}) = r - 1
      BY <2>2, <2>3, <2>4, FS_RemoveElement
    <3>2. s[x] \in T \ {x}
      BY <2>5
    <3>3. ASSUME NEW Q, IsFiniteSet(Q), NEW y \in Q
          PROVE  IsFiniteSet(Q \ {y}) /\ Cardinality(Q \ {y}) = Cardinality(Q) - 1
      BY <3>3, FS_RemoveElement
    <3>4. IsFiniteSet(R) /\ Cardinality(R) = (r - 1) - 1
      BY <3>1, <3>2, <3>3
    <3> QED
      BY <3>4, <2>3
  <2>7. r - 2 \in Nat
    BY <2>6, FS_CardinalityType
  <2>8. \A y \in R : s[y] \in R
    <3> SUFFICES ASSUME NEW y \in R
                 PROVE  s[y] \in R
      OBVIOUS
    <3>1. y \in T /\ y # x /\ y # s[x] /\ s[y] \in T /\ s[s[y]] = y
      BY <1>1, <2>2
    <3>2. s[y] # x /\ s[y] # s[x]
      BY <3>1, <2>5
    <3> QED
      BY <3>1, <3>2
  <2>9. odd(r - 2)
    <3> SUFFICES ASSUME NEW n \in Nat, r - 2 = 2 * n
                 PROVE  FALSE
      OBVIOUS
    <3>1. n + 1 \in Nat /\ r = 2 * (n + 1)
      BY <2>3
    <3> QED
      BY <3>1, <2>2
  <2>10. R \in SUBSET S
    OBVIOUS
  <2>11. r - 2 \in Bad
    <3> HIDE DEF R, odd
    <3> QED
      BY <2>6, <2>7, <2>8, <2>9, <2>10
  <2> QED
    <3>1. r <= r - 2
      BY <2>1, <2>11
    <3> QED
      BY <3>1, <2>3
<1>3. Cardinality(S) \in Nat
  BY FS_CardinalityType
<1>4. \A x \in S : s[x] \in S
  BY <1>1
<1>5. ~odd(Cardinality(S))
  <2> SUFFICES ASSUME odd(Cardinality(S))
               PROVE  FALSE
    OBVIOUS
  <2>1. S \in SUBSET S
    OBVIOUS
  <2>2. Cardinality(S) \in Bad
    <3> HIDE DEF odd
    <3> QED
      BY <2>1, <1>3, <1>4
  <2> QED
    BY <2>2, <1>2
<1> QED
  BY <1>5

\* So a set and the set without one of its members are not both paired.
LEMMA NotBothPaired ==
    ASSUME NEW S, IsFiniteSet(S), NEW s, Paired(S, s), NEW x \in S, NEW q, Paired(S \ {x}, q)
    PROVE  FALSE
<1>1. IsFiniteSet(S \ {x}) /\ Cardinality(S \ {x}) = Cardinality(S) - 1
  BY FS_RemoveElement
<1>2. PICK n \in Nat : Cardinality(S) = 2 * n
  BY PairsEven
<1>3. PICK k \in Nat : Cardinality(S \ {x}) = 2 * k
  BY <1>1, PairsEven
<1>4. 2 * n - 1 = 2 * k
  BY <1>1, <1>2, <1>3
<1> QED
  BY <1>4

\* The other local edge at v of a face of v.
LEMMA OtherEdge ==
    ASSUME NEW m, Corners(m), NEW v, NEW f \in star(m, v), NEW k \in Locals, m.fv[f][k] # v
    PROVE  \E l \in Locals : /\ l # k /\ m.fv[f][l] # v
                             /\ \A i \in Locals : i # k /\ m.fv[f][i] # v => i = l
<1>1. PICK p \in Locals : m.fv[f][p] = v
  BY DEF star
<1>2. f \in faces(m) /\ p # k /\ \A i \in Locals : m.fv[f][i] = v => i = p
  BY <1>1 DEF Corners, star
<1>3. PICK l \in Locals : l # p /\ l # k /\ Locals = {p, k, l}
  BY <1>2, Between
<1> QED
  BY <1>1, <1>2, <1>3

\* Of faces A at v, whose edges at v are inside, all but one edge lead to A:
\* this cannot be.
LEMMA NoOddPart ==
    ASSUME NEW m, Manifold(m), NEW v, NEW A \in SUBSET star(m, v),
           NEW g \in A, NEW l \in Locals, m.fv[g][l] # v, m.ff[g][l] \notin A,
           \A f \in A, k \in Locals :
              m.fv[f][k] # v /\ ~(f = g /\ k = l) => m.ff[f][k] \in A
    PROVE  FALSE
<1> DEFINE H == {p \in faces(m) \X Locals : p[1] \in A /\ m.fv[p[1]][p[2]] # v}
           other(f, k) == CHOOSE i \in Locals : i # k /\ m.fv[f][i] # v
           s == [p \in H |-> <<p[1], other(p[1], p[2])>>]
           x == <<g, l>>
           mate(f, k) == CHOOSE j \in Locals : m.fe[m.ff[f][k]][j] = m.fe[f][k]
           q == [p \in H \ {x} |-> <<m.ff[p[1]][p[2]], mate(p[1], p[2])>>]
<1>1. \A f \in A : f \in faces(m) /\ f \in star(m, v)
  BY DEF star
<1>2. IsFiniteSet(H)
  <2>1. IsFiniteSet(faces(m) \X Locals)
    <3>1. IsFiniteSet(Locals)
      <4>1. 0 \in Int /\ 2 \in Int
        OBVIOUS
      <4>2. IsFiniteSet(0 .. 2)
        BY <4>1, FS_Interval
      <4> QED
        BY <4>2 DEF Locals
    <3>2. IsFiniteSet(faces(m))
      BY FacesFinite DEF Manifold
    <3> QED
      BY <3>1, <3>2, FS_Product
  <2>2. H \in SUBSET (faces(m) \X Locals)
    OBVIOUS
  <2> HIDE DEF H
  <2> QED
    BY <2>1, <2>2, FS_Subset
<1>3. \A f \in A, k \in Locals : m.fv[f][k] # v =>
         /\ other(f, k) \in Locals /\ other(f, k) # k /\ m.fv[f][other(f, k)] # v
         /\ other(f, other(f, k)) = k
  <2> SUFFICES ASSUME NEW f \in A, NEW k \in Locals, m.fv[f][k] # v
               PROVE  /\ other(f, k) \in Locals /\ other(f, k) # k /\ m.fv[f][other(f, k)] # v
                      /\ other(f, other(f, k)) = k
    OBVIOUS
  <2>1. Corners(m) /\ f \in star(m, v)
    BY <1>1 DEF Manifold
  <2>2. \A i \in Locals : m.fv[f][i] # v =>
           \E j \in Locals : /\ j # i /\ m.fv[f][j] # v
                             /\ \A n \in Locals : n # i /\ m.fv[f][n] # v => n = j
    BY <2>1, OtherEdge
  <2>3. \A i \in Locals : m.fv[f][i] # v =>
           /\ other(f, i) \in Locals /\ other(f, i) # i /\ m.fv[f][other(f, i)] # v
           /\ \A n \in Locals : n # i /\ m.fv[f][n] # v => n = other(f, i)
    BY <2>2
  <2> HIDE DEF other
  <2>4. /\ other(f, k) \in Locals /\ other(f, k) # k /\ m.fv[f][other(f, k)] # v
    BY <2>3
  <2>5. k = other(f, other(f, k))
    BY <2>3, <2>4
  <2> QED
    BY <2>4, <2>5
<1>4. Paired(H, s)
  <2> HIDE DEF other
  <2>1. \A p \in H : /\ p = <<p[1], p[2]>> /\ p[1] \in A /\ p[2] \in Locals /\ m.fv[p[1]][p[2]] # v
                     /\ p[1] \in faces(m)
    OBVIOUS
  <2>2. \A p \in H : s[p] = <<p[1], other(p[1], p[2])>>
    OBVIOUS
  <2>3. \A f \in A, k \in Locals : m.fv[f][k] # v => <<f, k>> \in H
    BY <1>1
  <2>4. \A p \in H : s[p] \in H
    <3> HIDE DEF H, s
    <3> QED
      BY <2>1, <2>2, <2>3, <1>3
  <2>5. s \in [H -> H]
    <3>1. s = [p \in H |-> s[p]]
      OBVIOUS
    <3> HIDE DEF H, s
    <3> QED
      BY <2>4, <3>1
  <2>6. \A p \in H : s[p] # p /\ s[s[p]] = p
    <3> HIDE DEF H, s
    <3> TAKE p \in H
    <3>1. /\ p = <<p[1], p[2]>> /\ p[1] \in A /\ p[2] \in Locals /\ m.fv[p[1]][p[2]] # v
          /\ s[p] = <<p[1], other(p[1], p[2])>> /\ s[p] \in H
      BY <2>1, <2>2, <2>4
    <3>2. s[s[p]] = <<p[1], other(p[1], other(p[1], p[2]))>>
      BY <2>2, <3>1
    <3> QED
      BY <3>1, <3>2, <1>3
  <2> HIDE DEF H, s
  <2> QED
    BY <2>5, <2>6 DEF Paired
<1>5. x \in H
  BY <1>1
<1> HIDE DEF H, s, q, x, mate, other
<1>6. \A f \in A, k \in Locals : m.fv[f][k] # v /\ ~(f = g /\ k = l) =>
         /\ m.ff[f][k] \in A /\ m.ff[f][k] # f
         /\ mate(f, k) \in Locals /\ m.fe[m.ff[f][k]][mate(f, k)] = m.fe[f][k]
         /\ m.ff[m.ff[f][k]][mate(f, k)] = f
         /\ m.fv[m.ff[f][k]][mate(f, k)] # v
  <2> SUFFICES ASSUME NEW f \in A, NEW k \in Locals, m.fv[f][k] # v, ~(f = g /\ k = l)
               PROVE  /\ m.ff[f][k] \in A /\ m.ff[f][k] # f
                      /\ mate(f, k) \in Locals /\ m.fe[m.ff[f][k]][mate(f, k)] = m.fe[f][k]
                      /\ m.ff[m.ff[f][k]][mate(f, k)] = f
                      /\ m.fv[m.ff[f][k]][mate(f, k)] # v
    OBVIOUS
  <2>1. m.ff[f][k] \in A /\ f \in faces(m) /\ m.ff[f][k] \in faces(m)
    BY <1>1
  <2>2. m.ff[f][k] # Null
    <3>1. Null \notin faces(m)
      BY Rows DEF Manifold
    <3> QED
      BY <3>1, <2>1
  <2>3. /\ m.ff[f][k] # f
        /\ \E j \in Locals : m.fe[m.ff[f][k]][j] = m.fe[f][k] /\ m.ff[m.ff[f][k]][j] = f
    BY <2>1, <2>2, MateOf
  <2>4. mate(f, k) \in Locals /\ m.fe[m.ff[f][k]][mate(f, k)] = m.fe[f][k]
    BY <2>3 DEF mate
  <2> DEFINE h == m.ff[f][k]
             j == mate(f, k)
  <2> HIDE DEF j
  <2> HIDE DEF h
  <2>5. m.ff[h][j] = f
    <3>1. PICK i \in Locals : m.fe[h][i] = m.fe[f][k] /\ m.ff[h][i] = f
      BY <2>3 DEF h
    <3>0. m.fe[h][j] = m.fe[f][k] /\ j \in Locals /\ h \in faces(m)
      BY <2>1, <2>4 DEF h, j
    <3>2. i = j
      BY <3>1, <3>0, EdgeOnce
    <3> QED
      BY <3>1, <3>2
  <2>6. m.fv[h][j] # v
    <3>0. /\ m.fe[h][j] = m.fe[f][k] /\ j \in Locals /\ h \in faces(m) /\ f \in faces(m)
          /\ EdgesAgree(m)
      BY <2>1, <2>4 DEF h, j, Manifold
    <3>1. ends(m, h, j) = ends(m, f, k)
      BY <3>0 DEF EdgesAgree
    <3>2. PICK i \in Locals : m.fv[f][i] = v
      BY DEF star
    <3>3. v \in ends(m, f, k)
      BY <3>2 DEF ends
    <3>5. v \in ends(m, h, j)
      BY <3>1, <3>3
    <3>4. PICK n \in Locals \ {j} : m.fv[h][n] = v
      BY <3>5 DEF ends
    <3> QED
      BY <3>4, <3>0 DEF Manifold, Corners
  <2> QED
    BY <2>1, <2>3, <2>4, <2>5, <2>6 DEF j, h
<1>7. \A f \in A, k \in Locals : m.fv[f][k] # v /\ ~(f = g /\ k = l) =>
         /\ ~(m.ff[f][k] = g /\ mate(f, k) = l)
         /\ mate(m.ff[f][k], mate(f, k)) = k
  <2> SUFFICES ASSUME NEW f \in A, NEW k \in Locals, m.fv[f][k] # v, ~(f = g /\ k = l)
               PROVE  /\ ~(m.ff[f][k] = g /\ mate(f, k) = l)
                      /\ mate(m.ff[f][k], mate(f, k)) = k
    OBVIOUS
  <2> DEFINE h == m.ff[f][k]
             j == mate(f, k)
  <2>1. /\ h \in A /\ j \in Locals /\ m.fe[h][j] = m.fe[f][k] /\ m.ff[h][j] = f
        /\ m.fv[h][j] # v
    BY <1>6
  <2>7. mate(m.ff[f][k], mate(f, k)) = mate(h, j) /\ ~(m.ff[f][k] = g /\ mate(f, k) = l) <=> ~(h = g /\ j = l)
    OBVIOUS
  <2> HIDE DEF h, j
  <2>2. ~(h = g /\ j = l)
    BY <2>1
  <2>3. mate(h, j) \in Locals /\ m.fe[m.ff[h][j]][mate(h, j)] = m.fe[h][j]
    <3> HIDE DEF mate
    <3> QED
      BY <2>1, <2>2, <1>6
  <2>4. m.fe[f][mate(h, j)] = m.fe[f][k] /\ f \in faces(m)
    <3> HIDE DEF mate
    <3> QED
      BY <2>1, <2>3, <1>1
  <2>5. mate(h, j) = k
    <3> HIDE DEF mate
    <3> QED
      BY <2>3, <2>4, EdgeOnce
  <2> QED
    BY <2>2, <2>5, <2>7
<1>8. Paired(H \ {x}, q)
  <2> USE DEF H, x, q
  <2>1. \A p \in H \ {x} : /\ p = <<p[1], p[2]>> /\ p[1] \in A /\ p[2] \in Locals
                           /\ m.fv[p[1]][p[2]] # v /\ ~(p[1] = g /\ p[2] = l)
    OBVIOUS
  <2>2. \A p \in H \ {x} : q[p] = <<m.ff[p[1]][p[2]], mate(p[1], p[2])>>
    OBVIOUS
  <2>3. \A f \in A, k \in Locals : m.fv[f][k] # v /\ ~(f = g /\ k = l) => <<f, k>> \in H \ {x}
    BY <1>1
  <2>4. \A p \in H \ {x} : q[p] \in H \ {x}
    <3> HIDE DEF H, q, x
    <3> TAKE p \in H \ {x}
    <3>1. /\ p[1] \in A /\ p[2] \in Locals
          /\ m.fv[p[1]][p[2]] # v /\ ~(p[1] = g /\ p[2] = l)
      BY <2>1
    <3> DEFINE h == m.ff[p[1]][p[2]]
               j == mate(p[1], p[2])
    <3>2. h \in A /\ j \in Locals /\ m.fv[h][j] # v
      BY <3>1, <1>6
    <3>3. ~(h = g /\ j = l)
      BY <3>1, <1>7
    <3>4. q[p] = <<h, j>>
      BY <2>2
    <3> HIDE DEF h, j
    <3> QED
      BY <3>2, <3>3, <3>4, <2>3
  <2>5. q \in [H \ {x} -> H \ {x}]
    <3>1. q = [p \in H \ {x} |-> q[p]]
      OBVIOUS
    <3> HIDE DEF H, q, x
    <3> QED
      BY <2>4, <3>1
  <2>6. \A p \in H \ {x} : q[p] # p /\ q[q[p]] = p
    <3> HIDE DEF H, q, x
    <3> TAKE p \in H \ {x}
    <3>1. /\ p = <<p[1], p[2]>> /\ p[1] \in A /\ p[2] \in Locals
          /\ m.fv[p[1]][p[2]] # v /\ ~(p[1] = g /\ p[2] = l)
      BY <2>1
    <3> DEFINE h == m.ff[p[1]][p[2]]
               j == mate(p[1], p[2])
    <3>2. h # p[1] /\ m.ff[h][j] = p[1]
      BY <3>1, <1>6
    <3>3. mate(h, j) = p[2]
      BY <3>1, <1>7
    <3>4. q[p] = <<h, j>> /\ q[p] \in H \ {x}
      BY <2>2, <2>4
    <3> HIDE DEF h, j
    <3>5. q[q[p]] = <<m.ff[h][j], mate(h, j)>>
      BY <3>4, <2>2
    <3> QED
      BY <3>1, <3>2, <3>3, <3>4, <3>5
  <2> HIDE DEF H, q, x
  <2> QED
    BY <2>5, <2>6 DEF Paired
<1> QED
  BY <1>2, <1>4, <1>5, <1>8, NotBothPaired

\* A face that stays and shares an edge at an end with an incident face is what
\* is behind its ear there.
LEMMA BehindMeet ==
    ASSUME NEW m, Manifold(m), NEW t, NEW r, NEW U, IsCollapse(r, m, t, U),
           NEW i \in 1 .. Len(U), NEW j \in Sides, NEW g \in faces(r),
           Has(m, g, spine_vid(m, t, j)), NEW x, x # spine_vid(m, t, j),
           Has(m, g, x), Has(m, U[i].f, x)
    PROVE  g = behind(m, U[i], j)
<1> DEFINE v == spine_vid(m, t, j)
           f == U[i].f
<1>1. /\ t \in Tuples(m) /\ U = Fan(m, t) /\ g \in faces(m) /\ g \notin Gone(m, t)
      /\ IsWedge(m, t, U[i]) /\ IsFan(m, t, U) /\ f \in faces(m) /\ f \in Gone(m, t)
  BY DEF IsCollapse, IsWedge
<1>2. Has(m, f, v)
  BY <1>1, Opps
<1>3. f \in star(m, v) /\ g \in star(m, v)
  BY <1>1, <1>2 DEF star, Has
<1>4. PICK k \in Locals, l \in Locals : m.fv[f][k] = x /\ m.fv[g][l] = x
  BY DEF Has
<1>5. f = g \/ \E n \in Locals : m.fv[f][n] # v /\ m.ff[f][n] = g
  <2>1. m.fv[f][k] = m.fv[g][l] /\ m.fv[f][k] # v
    BY <1>4
  <2>2. Corners(m) /\ EdgesAgree(m) /\ Mates(m)
    BY DEF Manifold
  <2> HIDE DEF v, f
  <2> QED
    BY <2>1, <2>2, <1>3, MeetAcross
<1>6. PICK n \in Locals : m.fv[f][n] # v /\ m.ff[f][n] = g
  BY <1>1, <1>5
<1>7. n = U[i].e \/ n = pos(U[i], 1 - j)
  <2>1. Locals = {U[i].e, pos(U[i], j), pos(U[i], 1 - j)} /\ m.fv[f][pos(U[i], j)] = v
    BY <1>1 DEF IsWedge
  <2> QED
    BY <2>1, <1>6
<1>8. n # U[i].e
  <2>1. m.ff[f][U[i].e] = Null \/ (m.ff[f][U[i].e] = U[3 - i].f /\ 3 - i \in 1 .. Len(U))
    BY <1>1 DEF IsFan
  <2>2. Null \notin faces(m)
    BY Rows DEF Manifold
  <2>3. \A k1 \in 1 .. Len(U) : U[k1].f \in Gone(m, t)
    BY DEF IsCollapse, IsWedge
  <2> QED
    BY <2>1, <2>2, <2>3, <1>1, <1>6
<1> QED
  BY <1>6, <1>7, <1>8 DEF behind

\* A part of the faces that stay at the end j of the edge, that no edge at it
\* leads out of but to the incident faces.
Stay(m, t, j) == star(m, spine_vid(m, t, j)) \ Gone(m, t)
IsPart(m, t, j, A) ==
    /\ A \in SUBSET Stay(m, t, j)
    /\ \A f \in A, g \in Stay(m, t, j) : \A x :
          Has(m, f, x) /\ Has(m, g, x) /\ x # spine_vid(m, t, j) => g \in A

\* Faces at the ends.
LEMMA StayFaces ==
    ASSUME NEW m, Manifold(m), NEW t, NEW r, NEW U, IsCollapse(r, m, t, U), NEW j \in Sides
    PROVE  /\ \A f : f \in Stay(m, t, j) <=> f \in faces(r) /\ Has(m, f, spine_vid(m, t, j))
           /\ \A f : f \in Gone(m, t) => \E i \in 1 .. Len(U) : f = U[i].f
           /\ \A i \in 1 .. Len(U) : U[i].f \in Gone(m, t) /\ U[i].f \in star(m, spine_vid(m, t, j))
           /\ \A i \in 1 .. Len(U) : behind(m, U[i], j) # Null => behind(m, U[i], j) \in Stay(m, t, j)
           /\ spine_vid(m, t, j) \in vertices(m)
<1>1. /\ t \in Tuples(m) /\ U = Fan(m, t) /\ faces(r) = faces(m) \ Gone(m, t) /\ DOMAIN U = 1 .. Len(U)
      /\ \A i \in 1 .. Len(U) : U[i].f \in Gone(m, t) /\ U[i].f \in faces(m)
  BY DEF IsCollapse, IsFan, IsWedge
<1>2. \A f : f \in Stay(m, t, j) <=> f \in faces(r) /\ Has(m, f, spine_vid(m, t, j))
  BY <1>1 DEF Stay, star, Has
<1>3. \A f : f \in Gone(m, t) => \E i \in 1 .. Len(U) : f = U[i].f
  BY <1>1 DEF Gone
<1>4. \A i \in 1 .. Len(U) : Has(m, U[i].f, spine_vid(m, t, j)) /\ spine_vid(m, t, j) \in vertices(m)
  BY <1>1, Opps
<1>5. \A i \in 1 .. Len(U) : U[i].f \in star(m, spine_vid(m, t, j))
  BY <1>1, <1>4 DEF star, Has
<1>6. spine_vid(m, t, j) \in vertices(m)
  <2>1. 1 \in 1 .. Len(U)
    BY DEF IsCollapse, IsFan
  <2> QED
    BY <2>1, <1>4
<1>7. ASSUME NEW i \in 1 .. Len(U), behind(m, U[i], j) # Null
      PROVE  behind(m, U[i], j) \in Stay(m, t, j)
  <2>1. /\ behind(m, U[i], j) \in faces(r) /\ glue(m, U[i], j) \in Locals
        /\ m.fe[behind(m, U[i], j)][glue(m, U[i], j)] = ear(m, U[i], j)
    BY <1>7, BehindStays
  <2>2. ends(m, behind(m, U[i], j), glue(m, U[i], j)) = {spine_vid(m, t, j), opp(m, U[i])}
    BY <2>1, <1>1, <1>7, Opps
  <2>3. spine_vid(m, t, j) \in ends(m, behind(m, U[i], j), glue(m, U[i], j))
    BY <2>2
  <2>4. Has(m, behind(m, U[i], j), spine_vid(m, t, j))
    BY <2>3 DEF ends, Has
  <2> QED
    BY <2>1, <2>4, <1>2
<1> QED
  BY <1>1, <1>2, <1>3, <1>5, <1>6, <1>7

\* A part of the faces that stay at an end is bounded by the gap that the faces going
\* away leave, so it holds a face behind one of their ears.
LEMMA PartReaches ==
    ASSUME NEW m, Manifold(m), NEW t, NEW r, NEW U, IsCollapse(r, m, t, U), NEW j \in Sides,
           NEW A, IsPart(m, t, j, A), A # {}
    PROVE  \E i \in 1 .. Len(U) : behind(m, U[i], j) \in A
<1> DEFINE v == spine_vid(m, t, j)
<1> SUFFICES ASSUME \A i \in 1 .. Len(U) : behind(m, U[i], j) \notin A
             PROVE  FALSE
  OBVIOUS
<1>1. /\ \A f : f \in Stay(m, t, j) <=> f \in faces(r) /\ Has(m, f, v)
      /\ \A f : f \in Gone(m, t) => \E i \in 1 .. Len(U) : f = U[i].f
      /\ \A i \in 1 .. Len(U) : U[i].f \in Gone(m, t) /\ U[i].f \in star(m, v)
      /\ v \in vertices(m)
  BY StayFaces
<1>2. A \in SUBSET star(m, v) /\ A \cap Gone(m, t) = {}
  BY DEF IsPart, Stay
<1>3. \A f \in A, g \in star(m, v) : \A x : Has(m, f, x) /\ Has(m, g, x) /\ x # v => g \in A
  <2> SUFFICES ASSUME NEW f \in A, NEW g \in star(m, v), NEW x, Has(m, f, x), Has(m, g, x), x # v
               PROVE  g \in A
    OBVIOUS
  <2>1. CASE g \in Gone(m, t)
    <3>1. PICK i \in 1 .. Len(U) : g = U[i].f
      BY <1>1, <2>1
    <3>2. f \in faces(r) /\ Has(m, f, v)
      BY <1>1 DEF IsPart
    <3>3. f = behind(m, U[i], j)
      BY <3>1, <3>2, BehindMeet
    <3> QED
      BY <3>3
  <2>2. CASE g \notin Gone(m, t)
    BY <2>2 DEF IsPart, Stay
  <2> QED
    BY <2>1, <2>2
<1>4. MeetClosed(m, v, A)
  <2> HIDE DEF v
  <2> QED
    BY <1>2, <1>3, MeetHas
<1>5. A = star(m, v)
  <2>1. MeetStars(m)
    BY StarsMeet DEF Manifold
  <2> QED
    BY <2>1, <1>1, <1>2, <1>4 DEF MeetStars
<1>6. 1 \in 1 .. Len(U)
  BY DEF IsCollapse, IsFan
<1> QED
  BY <1>1, <1>2, <1>5, <1>6

\* A part that holds all the faces behind the ears is all that stays at the end.
LEMMA PartAll ==
    ASSUME NEW m, Manifold(m), NEW t, NEW r, NEW U, IsCollapse(r, m, t, U), NEW j \in Sides,
           NEW A, IsPart(m, t, j, A),
           \A i \in 1 .. Len(U) : behind(m, U[i], j) # Null => behind(m, U[i], j) \in A
    PROVE  A = Stay(m, t, j)
<1> DEFINE v == spine_vid(m, t, j)
           S == A \cup Gone(m, t)
<1>1. /\ \A f : f \in Stay(m, t, j) <=> f \in faces(r) /\ Has(m, f, v)
      /\ \A f : f \in Gone(m, t) => \E i \in 1 .. Len(U) : f = U[i].f
      /\ \A i \in 1 .. Len(U) : U[i].f \in Gone(m, t) /\ U[i].f \in star(m, v)
      /\ v \in vertices(m)
  BY StayFaces
<1>2. S \in SUBSET star(m, v) /\ A \in SUBSET Stay(m, t, j)
  BY <1>1 DEF IsPart, Stay
<1>3. \A f \in S, g \in star(m, v) : \A x : Has(m, f, x) /\ Has(m, g, x) /\ x # v => g \in S
  <2> SUFFICES ASSUME NEW f \in S, NEW g \in star(m, v), NEW x, Has(m, f, x), Has(m, g, x), x # v,
                      g \notin Gone(m, t)
               PROVE  g \in A
    OBVIOUS
  <2>1. g \in Stay(m, t, j)
    BY DEF Stay
  <2>2. CASE f \in Gone(m, t)
    <3>1. PICK i \in 1 .. Len(U) : f = U[i].f
      BY <1>1, <2>2
    <3>2. g \in faces(r) /\ Has(m, g, v)
      BY <1>1, <2>1
    <3>3. g = behind(m, U[i], j)
      BY <3>1, <3>2, BehindMeet
    <3>4. g # Null
      <4>1. Null \notin faces(m)
        BY Rows DEF Manifold
      <4> QED
        BY <4>1 DEF star
    <3> QED
      BY <3>3, <3>4
  <2>3. CASE f \in A
    BY <2>1, <2>3 DEF IsPart
  <2> QED
    BY <2>2, <2>3
<1>4. MeetClosed(m, v, S)
  <2> HIDE DEF v, S
  <2> QED
    BY <1>2, <1>3, MeetHas
<1>6. 1 \in 1 .. Len(U)
  BY DEF IsCollapse, IsFan
<1>5. S = star(m, v)
  <2>1. MeetStars(m)
    BY StarsMeet DEF Manifold
  <2>2. S # {}
    BY <1>1, <1>6
  <2> HIDE DEF S
  <2> QED
    BY <2>1, <2>2, <1>1, <1>2, <1>4 DEF MeetStars
<1> QED
  BY <1>2, <1>5 DEF Stay

\* At an inner vertex a part that reaches one ear reaches the other one: each of its
\* faces has two edges at the vertex, and all but one would be shared in pairs.
LEMMA PartBoth ==
    ASSUME NEW m, Manifold(m), NEW t, NEW r, NEW U, IsCollapse(r, m, t, U), NEW j \in Sides,
           NEW A, IsPart(m, t, j, A), Len(U) = 2, Inner(m, spine_vid(m, t, j)),
           NEW i \in 1 .. Len(U), behind(m, U[i], j) \in A
    PROVE  behind(m, U[3 - i], j) \in A
<1> DEFINE v == spine_vid(m, t, j)
           g == behind(m, U[i], j)
           l == glue(m, U[i], j)
<1> SUFFICES ASSUME behind(m, U[3 - i], j) \notin A
             PROVE  FALSE
  OBVIOUS
<1>1. /\ \A f : f \in Stay(m, t, j) <=> f \in faces(r) /\ Has(m, f, v)
      /\ \A f : f \in Gone(m, t) => \E k \in 1 .. Len(U) : f = U[k].f
      /\ \A k \in 1 .. Len(U) : U[k].f \in Gone(m, t) /\ U[k].f \in star(m, v)
      /\ v \in vertices(m)
  BY ONLY StayFaces, Manifold(m), IsCollapse(r, m, t, U), j \in Sides
<1>2. /\ t \in Tuples(m) /\ U = Fan(m, t) /\ faces(r) = faces(m) \ Gone(m, t)
      /\ Null \notin faces(m)
  BY Rows DEF IsCollapse, Manifold
<1>3. A \in SUBSET Stay(m, t, j) /\ A \in SUBSET star(m, v) /\ A \cap Gone(m, t) = {}
  BY DEF IsPart, Stay
<1>4. g \in faces(m) /\ g # Null /\ g \in faces(r)
  BY <1>1, <1>2, <1>3 DEF star
<1>5. l \in Locals /\ m.fe[g][l] = ear(m, U[i], j)
  BY <1>4, BehindStays
<1>6. m.ff[g][l] = U[i].f /\ m.fv[g][l] # v
  <2>1. IsWedge(m, t, U[i])
    BY DEF IsCollapse
  <2>2. m.ff[g][l] = U[i].f
    BY <2>1, <1>4 DEF IsWedge, IsEar
  <2>3. ends(m, g, l) = {v, opp(m, U[i])}
    <3>1. \A f \in faces(m), k \in Locals :
             m.fe[f][k] = ear(m, U[i], j) <=> ends(m, f, k) = {v, opp(m, U[i])}
      BY ONLY <1>2, Opps, Manifold(m), i \in 1 .. Len(U), j \in Sides
    <3> HIDE DEF g, l
    <3> QED
      BY ONLY <3>1, <1>4, <1>5
  <2>4. v \in ends(m, g, l)
    BY <2>3
  <2>5. PICK n \in Locals \ {l} : m.fv[g][n] = v
    BY <2>4 DEF ends
  <2>6. Corners(m)
    BY DEF Manifold
  <2> QED
    BY <2>2, <2>5, <2>6, <1>4, <1>5 DEF Corners
<1>7. m.ff[g][l] \notin A
  BY <1>1, <1>3, <1>6
<1>8. \A f \in A, k \in Locals : m.fv[f][k] # v /\ ~(f = g /\ k = l) => m.ff[f][k] \in A
  <2> SUFFICES ASSUME NEW f \in A, NEW k \in Locals, m.fv[f][k] # v, ~(f = g /\ k = l)
               PROVE  m.ff[f][k] \in A
    OBVIOUS
  <2>1. f \in faces(m) /\ f \in faces(r) /\ f \in star(m, v) /\ Has(m, f, v)
    BY <1>1, <1>2, <1>3
  <2>2. m.ff[f][k] # Null
    BY <2>1 DEF Inner
  <2> DEFINE h == m.ff[f][k]
  <2>3. /\ h \in star(m, v)
        /\ \E p, n \in Locals : m.fv[f][p] = m.fv[h][n] /\ m.fv[f][p] # v
    BY <2>1, <2>2, AcrossMeets DEF Manifold
  <2>4. PICK x : Has(m, f, x) /\ Has(m, h, x) /\ x # v
    BY <2>3 DEF Has
  <2>5. CASE h \in Gone(m, t)
    <3>1. \E n \in 1 .. Len(U), o \in Sides : m.fe[f][k] = ear(m, U[n], o)
      BY <2>1, <2>5, EarPlaces
    <3>2. PICK n \in 1 .. Len(U), o \in Sides : m.fe[f][k] = ear(m, U[n], o)
      BY <3>1
    <3>3. f = behind(m, U[n], o) /\ k = glue(m, U[n], o)
      BY ONLY <3>2, <2>1, EarPlaces, k \in Locals, n \in 1 .. Len(U), o \in Sides, Manifold(m),
              IsCollapse(r, m, t, U)
    <3>4. ends(m, f, k) = {spine_vid(m, t, o), opp(m, U[n])}
      <4>1. \A c \in faces(m), z \in Locals :
               m.fe[c][z] = ear(m, U[n], o) <=> ends(m, c, z) = {spine_vid(m, t, o), opp(m, U[n])}
        BY ONLY <1>2, Opps, n \in 1 .. Len(U), o \in Sides, Manifold(m)
      <4> QED
        BY <2>1, <3>2, <4>1
    <3>5. v \in ends(m, f, k)
      BY <2>1 DEF Has, ends
    <3>6. v # opp(m, U[n])
      <4>1. opp(m, U[n]) # spine_vid(m, t, j)
        BY ONLY <1>2, Opps, n \in 1 .. Len(U), j \in Sides, Manifold(m)
      <4> QED
        BY <4>1
    <3>7. v = spine_vid(m, t, o)
      BY <3>4, <3>5, <3>6
    <3>8. o = j
      <4>1. spine_vid(m, t, 0) # spine_vid(m, t, 1)
        BY <2>1, CollapseHas
      <4> QED
        BY <3>7, <4>1 DEF Sides
    <3>9. n = i \/ n = 3 - i
      OBVIOUS
    <3> QED
      BY <3>3, <3>8, <3>9
  <2>6. CASE h \notin Gone(m, t)
    <3>1. h \in Stay(m, t, j)
      BY <2>3, <2>6 DEF Stay
    <3> HIDE DEF h
    <3>2. h \in A
      BY <3>1, <2>4 DEF IsPart
    <3> QED
      BY <3>2 DEF h
  <2> QED
    BY <2>5, <2>6
<1>9. g \in A
  OBVIOUS
<1> HIDE DEF v, g, l
<1> QED
  BY <1>3, <1>5, <1>6, <1>7, <1>8, <1>9, NoOddPart

\* Around a vertex other than the one that stays at the edge.
LEMMA CollapseStarsElsewhere ==
    ASSUME NEW m, Manifold(m), NEW t, NEW r, NEW U, IsCollapse(r, m, t, U),
           NEW v \in vertices(m), v # spine_vid(m, t, 0), v # spine_vid(m, t, 1),
           NEW S \in SUBSET star(r, v), S # {}, MeetClosed(r, v, S)
    PROVE  S = star(r, v)
<1> DEFINE a == spine_vid(m, t, 0)
           b == spine_vid(m, t, 1)
           atEdge(f) == Has(m, f, a) \/ Has(m, f, b)
           T == S \cup {f \in star(m, v) \cap Gone(m, t) : \E h \in S : atEdge(h)}
<1>1. /\ t \in Tuples(m) /\ U = Fan(m, t) /\ faces(r) = faces(m) \ Gone(m, t)
      /\ a # b
      /\ \A f \in faces(r) : \A x : Has(r, f, x) <=> (x # a /\ Has(m, f, x)) \/ (x = b /\ Has(m, f, a))
  <2>1. /\ t \in Tuples(m) /\ U = Fan(m, t) /\ faces(r) = faces(m) \ Gone(m, t)
    BY DEF IsCollapse
  <2>2. a # b
    BY <2>1, IncidentAll
  <2>3. \A f \in faces(r) : \A x : Has(r, f, x) <=> (x # a /\ Has(m, f, x)) \/ (x = b /\ Has(m, f, a))
    BY CollapseHas
  <2> QED
    BY <2>1, <2>2, <2>3
<1>2. \A f : f \in star(r, v) <=> f \in star(m, v) /\ f \notin Gone(m, t)
  <2>1. \A f : f \in star(r, v) <=> f \in faces(r) /\ Has(r, f, v)
    BY DEF star, Has
  <2>2. \A f : f \in star(m, v) <=> f \in faces(m) /\ Has(m, f, v)
    BY DEF star, Has
  <2> QED
    BY <2>1, <2>2, <1>1
<1>3. \A f \in S, g \in star(r, v) : \A x : Has(r, f, x) /\ Has(r, g, x) /\ x # v => g \in S
  BY MeetHas
\* An incident face at v has the ends of the edge besides v, and nothing else.
<1>4. \A f \in star(m, v) \cap Gone(m, t) : \A x : Has(m, f, x) /\ x # v => x = a \/ x = b
  <2> SUFFICES ASSUME NEW f \in star(m, v), f \in Gone(m, t), NEW x, Has(m, f, x), x # v,
                      x # a, x # b
               PROVE  FALSE
    OBVIOUS
  <2>1. PICK i \in 1 .. Len(U) : f = U[i].f
    <3>1. DOMAIN U = 1 .. Len(U)
      BY DEF IsCollapse, IsFan
    <3> QED
      BY <3>1, <1>1 DEF Gone
  <2>2. IsWedge(m, t, U[i]) /\ 0 \in Sides /\ 1 \in Sides /\ 1 - 0 = 1
    BY DEF IsCollapse, Sides
  <2>3. /\ Locals = {U[i].e, pos(U[i], 0), pos(U[i], 1)}
        /\ m.fv[f][pos(U[i], 0)] = a /\ m.fv[f][pos(U[i], 1)] = b
    BY <2>1, <2>2 DEF IsWedge
  <2>4. PICK k \in Locals, l \in Locals : m.fv[f][k] = x /\ m.fv[f][l] = v
    BY DEF Has, star
  <2>6. v # a /\ v # b
    OBVIOUS
  <2> HIDE DEF a, b
  <2>5. k = U[i].e /\ l = U[i].e
    BY <2>3, <2>4, <2>6
  <2> QED
    BY <2>4, <2>5
<1>5. T \in SUBSET star(m, v) /\ T # {} /\ \A f : f \in T /\ f \notin Gone(m, t) => f \in S
  BY <1>2
<1>6. \A f : f \in S => f \in star(r, v) /\ f \in faces(r) /\ f \notin Gone(m, t)
  BY <1>1, <1>2 DEF star
<1>7. \A f \in T, g \in star(m, v) : \A x : Has(m, f, x) /\ Has(m, g, x) /\ x # v => g \in T
  <2> SUFFICES ASSUME NEW f \in T, NEW g \in star(m, v), NEW x, Has(m, f, x), Has(m, g, x), x # v
               PROVE  g \in T
    OBVIOUS
  <2>1. CASE g \in Gone(m, t)
    <3>1. x = a \/ x = b
      BY <1>4, <2>1
    <3>2. CASE f \in S
      BY <3>1, <3>2, <2>1
    <3>3. CASE f \notin S
      BY <3>3, <2>1
    <3> QED
      BY <3>2, <3>3
  <2>2. CASE g \notin Gone(m, t)
    <3>1. g \in star(r, v) /\ g \in faces(r)
      BY <2>2, <1>1, <1>2 DEF star
    <3>2. CASE f \in S
      <4>1. Has(r, f, IF x = a THEN b ELSE x) /\ Has(r, g, IF x = a THEN b ELSE x)
        BY <1>1, <1>6, <3>1, <3>2
      <4>2. (IF x = a THEN b ELSE x) # v
        OBVIOUS
      <4> QED
        BY <4>1, <4>2, <3>1, <3>2, <1>3
    <3>3. CASE f \notin S
      <4>1. f \in star(m, v) \cap Gone(m, t)
        BY <3>3
      <4>2. PICK h \in S : atEdge(h)
        BY <3>3
      <4>3. Has(r, h, b) /\ Has(r, g, b)
        <5>1. x = a \/ x = b
          BY <4>1, <1>4
        <5> QED
          BY <5>1, <4>2, <1>1, <1>6, <3>1
      <4> QED
        BY <4>3, <3>1, <1>3
    <3> QED
      BY <3>2, <3>3
  <2> QED
    BY <2>1, <2>2
<1> HIDE DEF T, a, b, atEdge
<1>8. MeetClosed(m, v, T)
  BY <1>5, <1>7, MeetHas
<1>9. T = star(m, v)
  <2>1. MeetStars(m)
    BY StarsMeet DEF Manifold
  <2> QED
    BY <2>1, <1>5, <1>8 DEF MeetStars
<1> QED
  BY <1>2, <1>5, <1>9

\* Around the vertex that stays: the parts at the two ends are joined across
\* the merged ears.
LEMMA CollapseStarsThere ==
    ASSUME NEW m, Manifold(m), NEW t, NEW r, NEW U, IsCollapse(r, m, t, U),
           NEW S \in SUBSET star(r, spine_vid(m, t, 1)), S # {},
           MeetClosed(r, spine_vid(m, t, 1), S)
    PROVE  S = star(r, spine_vid(m, t, 1))
<1> DEFINE a == spine_vid(m, t, 0)
           b == spine_vid(m, t, 1)
           sv(j) == spine_vid(m, t, j)
           A(j) == S \cap Stay(m, t, j)
           I == 1 .. Len(U)
           q(i, j) == behind(m, U[i], j)
<1>1. /\ t \in Tuples(m) /\ U = Fan(m, t) /\ faces(r) = faces(m) \ Gone(m, t)
      /\ a # b /\ 0 \in Sides /\ 1 \in Sides /\ Sides = {0, 1}
      /\ \A f \in faces(r) : ~(Has(m, f, a) /\ Has(m, f, b))
      /\ \A f \in faces(r) : \A x : Has(r, f, x) <=> (x # a /\ Has(m, f, x)) \/ (x = b /\ Has(m, f, a))
  <2>1. /\ t \in Tuples(m) /\ U = Fan(m, t) /\ faces(r) = faces(m) \ Gone(m, t)
    BY DEF IsCollapse
  <2>2. a # b
    BY <2>1, IncidentAll
  <2>3. /\ \A f \in faces(r) : ~(Has(m, f, a) /\ Has(m, f, b))
        /\ \A f \in faces(r) : \A x : Has(r, f, x) <=> (x # a /\ Has(m, f, x)) \/ (x = b /\ Has(m, f, a))
    BY CollapseHas
  <2> QED
    BY <2>1, <2>2, <2>3 DEF Sides
<1>2. /\ \A j \in Sides : \A f : f \in Stay(m, t, j) <=> f \in faces(r) /\ Has(m, f, sv(j))
      /\ \A j \in Sides : \A i \in I : q(i, j) # Null => q(i, j) \in Stay(m, t, j)
  BY StayFaces
<1>3. \A f : f \in star(r, b) <=> f \in Stay(m, t, 0) \/ f \in Stay(m, t, 1)
  <2>1. \A f : f \in star(r, b) <=> f \in faces(r) /\ Has(r, f, b)
    BY DEF star, Has
  <2> QED
    BY <2>1, <1>1, <1>2
<1>4. \A f \in S, g \in star(r, b) : \A x : Has(r, f, x) /\ Has(r, g, x) /\ x # b => g \in S
  BY MeetHas
<1>5. \A j \in Sides : IsPart(m, t, j, A(j))
  <2> SUFFICES ASSUME NEW j \in Sides, NEW f \in A(j), NEW g \in Stay(m, t, j), NEW x,
                      Has(m, f, x), Has(m, g, x), x # sv(j)
               PROVE  g \in S
    BY DEF IsPart
  <2>1. f \in faces(r) /\ g \in faces(r) /\ Has(m, f, sv(j)) /\ g \in star(r, b) /\ j \in {0, 1}
    BY <1>1, <1>2, <1>3
  <2>2. x # a /\ x # b
    BY <2>1, <1>1
  <2>3. Has(r, f, x) /\ Has(r, g, x)
    BY <2>1, <2>2, <1>1
  <2> QED
    BY <2>1, <2>2, <2>3, <1>4
\* What is behind the ears of one face is in S together.
<1>6. \A i \in I, j, l \in Sides : q(i, j) # Null /\ q(i, l) # Null /\ q(i, j) \in S => q(i, l) \in S
  <2> SUFFICES ASSUME NEW i \in I, NEW j \in Sides, NEW l \in Sides, q(i, j) # Null,
                      q(i, l) # Null, q(i, j) \in S
               PROVE  q(i, l) \in S
    OBVIOUS
  <2>1. Has(r, q(i, j), opp(m, U[i])) /\ Has(r, q(i, l), opp(m, U[i]))
    BY MergedFace
  <2>2. opp(m, U[i]) # b
    BY <1>1, Opps
  <2>3. q(i, l) \in star(r, b)
    BY <1>1, <1>2, <1>3
  <2> QED
    BY <2>1, <2>2, <2>3, <1>4
<1>7. \E i \in I, j \in Sides : q(i, j) \in A(j)
  <2>1. PICK j \in Sides : A(j) # {}
    BY <1>1, <1>3
  <2>2. IsPart(m, t, j, A(j))
    BY <1>5
  <2> HIDE DEF A
  <2>3. \E i \in I : q(i, j) \in A(j)
    BY <2>1, <2>2, PartReaches
  <2> QED
    BY <2>3
<1>8. \A i \in I : q(i, 0) # Null \/ q(i, 1) # Null
  BY DEF IsCollapse, LinkHolds
<1>9. \A i \in I, j \in Sides : q(i, j) \in A(j) => q(i, j) # Null /\ q(i, j) \in S
  <2>1. Null \notin faces(m)
    BY Rows DEF Manifold
  <2> QED
    BY <2>1, <1>1, <1>2
<1>10. \A i \in I, j \in Sides : q(i, j) # Null => q(i, j) \in S
  <2>1. PICK i \in I, j \in Sides : q(i, j) \in A(j)
    BY <1>7
  <2>2. \A l \in Sides : q(i, l) # Null => q(i, l) \in S
    BY <2>1, <1>6, <1>9
  <2>3. CASE Len(U) = 1
    <3>1. \A k \in I : k = i
      BY <2>3
    <3> QED
      BY <3>1, <2>2
  <2>4. CASE Len(U) = 2
    <3>1. \A k \in I : k = i \/ k = 3 - i
      BY <2>4
    <3>2. 3 - i \in I
      BY <2>4
    <3>3. PICK o \in Sides : Inner(m, sv(o))
      BY <2>4, <1>1 DEF IsCollapse, LinkHolds
    <3>4. q(i, o) # Null
      <4>1. IsWedge(m, t, U[i])
        BY DEF IsCollapse
      <4>2. /\ pos(U[i], 1 - o) \in Locals /\ pos(U[i], o) \in Locals /\ U[i].f \in faces(m)
            /\ m.fv[U[i].f][pos(U[i], o)] = sv(o) /\ pos(U[i], o) # pos(U[i], 1 - o)
        BY <4>1, <1>1 DEF IsWedge
      <4>3. U[i].f \in star(m, sv(o))
        BY <4>2 DEF star
      <4>4. m.fv[U[i].f][pos(U[i], 1 - o)] # sv(o)
        BY <4>2 DEF Manifold, Corners
      <4> QED
        BY <4>2, <4>3, <4>4, <3>3 DEF Inner, behind
    <3>5. q(i, o) \in A(o)
      BY <3>4, <2>2, <1>2
    <3>6. q(3 - i, o) \in A(o)
      <4>1. IsPart(m, t, o, A(o))
        BY <1>5
      <4> HIDE DEF A
      <4> QED
        BY <4>1, <3>3, <3>5, <2>4, PartBoth
    <3>7. \A l \in Sides : q(3 - i, l) # Null => q(3 - i, l) \in S
      BY <3>2, <3>6, <1>6, <1>9
    <3> QED
      BY <3>1, <3>7, <2>2
  <2>5. Len(U) = 1 \/ Len(U) = 2
    BY DEF IsCollapse, IsFan
  <2> QED
    BY <2>3, <2>4, <2>5
<1>11. \A j \in Sides : A(j) = Stay(m, t, j)
  <2> TAKE j \in Sides
  <2>1. IsPart(m, t, j, A(j))
    BY <1>5
  <2>2. \A i \in I : q(i, j) # Null => q(i, j) \in A(j)
    BY <1>10, <1>2
  <2> HIDE DEF A
  <2> QED
    BY <2>1, <2>2, PartAll
<1>12. Stay(m, t, 0) \subseteq S /\ Stay(m, t, 1) \subseteq S
  BY <1>1, <1>11
<1> QED
  BY <1>3, <1>12

\* After a collapse, the faces at a vertex are still connected around it.
LEMMA CollapseStars ==
    ASSUME NEW m, Manifold(m), NEW t, NEW r, NEW U, IsCollapse(r, m, t, U),
           vertices(r) = vertices(m) \ {spine_vid(m, t, 0)}
    PROVE  MeetStars(r)
<1> SUFFICES ASSUME NEW v \in vertices(r), NEW S \in SUBSET star(r, v), S # {}, MeetClosed(r, v, S)
             PROVE  S = star(r, v)
  BY DEF MeetStars
<1>1. v \in vertices(m) /\ v # spine_vid(m, t, 0)
  OBVIOUS
<1>2. CASE v = spine_vid(m, t, 1)
  BY <1>2, CollapseStarsThere
<1>3. CASE v # spine_vid(m, t, 1)
  BY <1>1, <1>3, CollapseStarsElsewhere
<1> QED
  BY <1>2, <1>3

\* Collapses that the link condition allows keep the invariant, for surfaces.
LEMMA CollapseKeepsSurface ==
    ASSUME NEW m, Manifold(m), ~m.free, NEW t \in Tuples(m), LinkHolds(m, t),
           NEW r, CollapseTables(r, m, t)
    PROVE  Manifold(r)
<1> DEFINE U == Fan(m, t)
<1>1. IsCollapse(r, m, t, U)
  BY CollapseFacts
<1> HIDE DEF U
<1>2. /\ Tables(r) /\ r.free = m.free /\ r.cap = m.cap
      /\ vertices(r) = vertices(m) \ {spine_vid(m, t, 0)}
      /\ faces(r) = faces(m) \ Gone(m, t)
      /\ edges(r) = edges(m) \ ({id_edge(m, t)} \cup MergedEars(m, t))
  BY DEF CollapseTables
<1>3. Fields(r)
  BY <1>2 DEF Tables, Fields, Manifold
<1>4. /\ vertices(r) \subseteq 0 .. r.cap.v - 1 /\ edges(r) \subseteq 0 .. r.cap.e - 1
      /\ faces(r) \subseteq 0 .. r.cap.f - 1
  BY <1>2 DEF Manifold, Typed
<1>5. \A f \in faces(r), k \in Locals :
         r.fv[f][k] \in vertices(r) /\ r.fe[f][k] \in edges(r) /\ r.ff[f][k] \in faces(r) \cup {Null}
  BY <1>1, CollapseRows
<1>6. /\ \A v \in vertices(r) : r.vf[v] \in faces(r) /\ \E k \in Locals : r.fv[r.vf[v]][k] = v
      /\ \A e \in edges(r) : r.ef[e] \in faces(r) /\ \E k \in Locals : r.fe[r.ef[e]][k] = e
  BY <1>1, CollapseNamed
<1>7. Typed(r) /\ Named(r)
  BY <1>2, <1>4, <1>5, <1>6, TypedRows DEF Named
<1>8. EdgesAgree(r) /\ Mates(r) /\ Corners(r)
  BY <1>1, CollapseEdgesAgree, CollapseMates, CollapseCorners
<1>9. Across(r)
  <2>1. ~r.free
    BY <1>1 DEF IsCollapse
  <2> QED
    BY <1>1, <2>1, CollapseAcross DEF Across
<1>10. MeetStars(r)
  BY <1>1, <1>2, CollapseStars
<1>11. Stars(r)
  BY <1>3, <1>7, <1>8, <1>9, <1>10, StarsMeet
<1> QED
  BY <1>3, <1>7, <1>8, <1>9, <1>11 DEF Manifold

\* A collapse that the link condition lets pass leaves a manifold.
LEMMA CollapseKeepsManifold ==
    ASSUME NEW m, Manifold(m), NEW t \in Tuples(m), m.free \/ link_condition(m, t)
    PROVE  /\ Manifold(collapse_edge(m, t)) /\ collapse_edge(m, t).free = m.free
           /\ collapse_edge(m, t).cap = m.cap
<1>1. CASE m.free
  <2>1. collapse_edge(m, t) = collapse_free(m, t)
    BY <1>1 DEF collapse_edge
  <2> QED
    BY <1>1, <2>1, CollapseKeepsFree
<1>2. CASE ~m.free
  <2>1. CollapseTables(collapse_edge(m, t), m, t)
    BY <1>2, CollapseEdgeIs
  <2>2. LinkHolds(m, t)
    BY <1>2, LinkFacts
  <2>3. ASSUME NEW r, CollapseTables(r, m, t)
        PROVE  Manifold(r) /\ r.free = m.free /\ r.cap = m.cap
    <3>1. Manifold(r)
      BY <1>2, <2>2, <2>3, CollapseKeepsSurface
    <3>2. r.free = m.free /\ r.cap = m.cap
      BY <2>3 DEF CollapseTables
    <3> QED
      BY <3>1, <3>2
  <2> QED
    BY ONLY <2>1, <2>3
<1> QED
  BY <1>1, <1>2

-----------------------------------------------------------------------------
(* Numbering the members of a finite set, from 0, in an order of them.     *)
upto(S) == 0 .. Cardinality(S) - 1

\* upto has as many members as the set it numbers.
LEMMA UptoFinite ==
    ASSUME NEW S, IsFiniteSet(S)
    PROVE  IsFiniteSet(upto(S)) /\ Cardinality(upto(S)) = Cardinality(S) /\ Cardinality(S) \in Nat
<1> DEFINE n == Cardinality(S)
<1>1. n \in Nat
  BY FS_CardinalityType
<1>2. 0 \in Int /\ n - 1 \in Int
  BY <1>1
<1> HIDE DEF n
<1>3. /\ IsFiniteSet(0 .. n - 1)
      /\ Cardinality(0 .. n - 1) = IF 0 > n - 1 THEN 0 ELSE (n - 1) - 0 + 1
  BY <1>2, FS_Interval
<1>4. Cardinality(0 .. n - 1) = n
  BY <1>1, <1>3
<1> QED
  BY <1>1, <1>3, <1>4 DEF upto, n

\* below[x] is what comes before x in S.
Ordered(S, below) ==
    /\ below \in [S -> SUBSET S]
    /\ \A x \in S : x \notin below[x] /\ \A y \in below[x] : below[y] \subseteq below[x]
    /\ \A x, y \in S : x = y \/ x \in below[y] \/ y \in below[x]
Ranked(S, below) ==
    /\ \A x \in S : Cardinality(below[x]) \in upto(S)
    /\ \A x, y \in S : Cardinality(below[x]) = Cardinality(below[y]) => x = y
    /\ \A n \in upto(S) : \E x \in S : Cardinality(below[x]) = n
\* The number of members before a member numbers the set from 0 without a gap.
LEMMA Ranks ==
    ASSUME NEW S, IsFiniteSet(S), NEW below, Ordered(S, below)
    PROVE  Ranked(S, below)
<1> DEFINE c == [x \in S |-> Cardinality(below[x])]
<1>1. Cardinality(S) \in Nat
  BY FS_CardinalityType
<1>2. \A x \in S : /\ below[x] \in SUBSET S /\ x \notin below[x]
                   /\ \A y \in below[x] : below[y] \subseteq below[x]
  BY DEF Ordered
<1>3. \A x \in S : IsFiniteSet(below[x]) /\ Cardinality(below[x]) \in Nat
  BY <1>2, FS_Subset, FS_CardinalityType
\* What comes before has a smaller number.
<1>4. \A x \in S : \A T \in SUBSET S :
         x \in T /\ below[x] \subseteq T => Cardinality(below[x]) < Cardinality(T)
  <2> SUFFICES ASSUME NEW x \in S, NEW T \in SUBSET S, x \in T, below[x] \subseteq T
               PROVE  Cardinality(below[x]) < Cardinality(T)
    OBVIOUS
  <2>1. IsFiniteSet(T) /\ Cardinality(T) \in Nat
    BY FS_Subset, FS_CardinalityType
  <2>2. below[x] \in SUBSET T /\ below[x] # T
    BY <1>2
  <2>3. Cardinality(below[x]) <= Cardinality(T) /\ Cardinality(below[x]) # Cardinality(T)
    BY <2>1, <2>2, FS_Subset
  <2> QED
    BY <2>1, <2>3, <1>3
<1>5. \A x \in S : Cardinality(below[x]) < Cardinality(S)
  BY <1>2, <1>4
<1>6. \A x, y \in S : x \in below[y] => Cardinality(below[x]) < Cardinality(below[y])
  BY <1>2, <1>4
<1>7. \A x \in S : Cardinality(below[x]) \in upto(S)
  BY <1>1, <1>3, <1>5 DEF upto
<1>8. \A x, y \in S : Cardinality(below[x]) = Cardinality(below[y]) => x = y
  <2> SUFFICES ASSUME NEW x \in S, NEW y \in S, Cardinality(below[x]) = Cardinality(below[y]), x # y
               PROVE  FALSE
    OBVIOUS
  <2>1. x \in below[y] \/ y \in below[x]
    BY DEF Ordered
  <2>2. Cardinality(below[x]) < Cardinality(below[x])
    BY <2>1, <1>6
  <2> QED
    BY <2>2, <1>3
<1>9. c \in Injection(S, upto(S))
  <2>1. c \in [S -> upto(S)] /\ \A x, y \in S : c[x] = c[y] => x = y
    BY <1>7, <1>8
  <2> HIDE DEF c
  <2> QED
    BY <2>1 DEF Injection, IsInjective
<1>10. c \in Surjection(S, upto(S))
  <2> HIDE DEF c
  <2> QED
    BY <1>9, UptoFinite, FS_Injection
<1>11. \A n \in upto(S) : \E x \in S : Cardinality(below[x]) = n
  <2>1. \A n \in upto(S) : \E x \in S : c[x] = n
    <3> HIDE DEF c
    <3> QED
      BY <1>10 DEF Surjection
  <2> QED
    BY <2>1
<1> QED
  BY <1>7, <1>8, <1>11 DEF Ranked

-----------------------------------------------------------------------------
(* consolidate: the ids are packed.                                        *)

\* old2new and packed number a set.
Numbers(S) ==
    /\ \A i \in S : old2new(S, i) \in upto(S) /\ packed(S, old2new(S, i)) = i
    /\ \A i, j \in S : old2new(S, i) = old2new(S, j) => i = j
    /\ \A n \in upto(S) : packed(S, n) \in S /\ old2new(S, packed(S, n)) = n
    /\ old2new(S, Null) = Null
    /\ Null \notin upto(S)
\* old2new and packed are inverse to each other, between a set of ids and 0, 1, ...
LEMMA Packed ==
    ASSUME NEW S \in SUBSET Nat, IsFiniteSet(S)
    PROVE  Numbers(S)
<1> DEFINE below == [i \in S |-> {a \in S : a < i}]
<1>1. \A i \in S : below[i] = {a \in S : a < i}
  OBVIOUS
<1>2. Ordered(S, below)
  <2>0. below \in [S -> SUBSET S]
    OBVIOUS
  <2> HIDE DEF below
  <2>1. \A x \in S : x \in Nat
    OBVIOUS
  <2>4. \A x, y \in S : y \in below[x] <=> y < x
    BY <1>1
  <2>5. \A x \in S : below[x] \subseteq S
    BY <1>1
  <2>6. ASSUME NEW x \in S, NEW y \in below[x], NEW z \in below[y]
        PROVE  z \in below[x]
    <3>1. y \in S /\ z \in S
      BY <2>5
    <3>2. z < y /\ y < x
      BY <3>1, <2>4
    <3>4. x \in Nat /\ y \in Nat /\ z \in Nat
      BY <3>1, <2>1
    <3>3. z < x
      BY ONLY <3>2, <3>4
    <3> QED
      BY <3>1, <3>3, <2>4
  <2>7. \A x \in S : x \notin below[x]
    BY <2>1, <2>4
  <2>2. \A x \in S : x \notin below[x] /\ \A y \in below[x] : below[y] \subseteq below[x]
    BY <2>6, <2>7
  <2>3. \A x, y \in S : x = y \/ x \in below[y] \/ y \in below[x]
    <3>1. \A x, y \in Nat : x = y \/ x < y \/ y < x
      OBVIOUS
    <3> QED
      BY ONLY <2>1, <2>4, <3>1
  <2> QED
    BY <2>0, <2>2, <2>3 DEF Ordered
<1>3. \A i \in S : old2new(S, i) = Cardinality(below[i])
  BY DEF old2new
<1> HIDE DEF below
<1>11. Ranked(S, below)
  BY <1>2, Ranks
<1>4. \A i \in S : old2new(S, i) \in upto(S)
  BY <1>3, <1>11 DEF Ranked
<1>5. \A i, j \in S : old2new(S, i) = old2new(S, j) => i = j
  BY <1>3, <1>11 DEF Ranked
<1>6. \A n \in upto(S) : \E i \in S : old2new(S, i) = n
  BY <1>3, <1>11 DEF Ranked
<1>7. \A n \in upto(S) : packed(S, n) \in S /\ old2new(S, packed(S, n)) = n
  BY <1>6 DEF packed
<1>8. \A i \in S : packed(S, old2new(S, i)) = i
  BY <1>4, <1>5, <1>7
<1>9. old2new(S, Null) = Null
  BY DEF old2new, Null
<1>10. Null \notin upto(S)
  BY UptoFinite DEF upto, Null
<1> QED
  BY <1>4, <1>5, <1>7, <1>8, <1>9, <1>10 DEF Numbers

\* r has the ids of m, packed.
IsPacked(r, m) ==
    LET V == vertices(m)
        E == edges(m)
        F == faces(m)
    IN  /\ Numbers(V) /\ Numbers(E) /\ Numbers(F)
        /\ r.free = m.free /\ Fields(r)
        /\ r.cap.v = Cardinality(V) /\ r.cap.e = Cardinality(E) /\ r.cap.f = Cardinality(F)
        /\ vertices(r) = upto(V) /\ edges(r) = upto(E) /\ faces(r) = upto(F)
        /\ r.fv = [f \in upto(F) |-> [k \in Locals |-> old2new(V, m.fv[packed(F, f)][k])]]
        /\ r.fe = [f \in upto(F) |-> [k \in Locals |-> old2new(E, m.fe[packed(F, f)][k])]]
        /\ r.ff = [f \in upto(F) |-> [k \in Locals |-> old2new(F, m.ff[packed(F, f)][k])]]
        /\ r.vf = [v \in upto(V) |-> old2new(F, m.vf[packed(V, v)])]
        /\ r.ef = [e \in upto(E) |-> old2new(F, m.ef[packed(E, e)])]
\* consolidated renames every id in every table.
LEMMA ConsolidatedIs ==
    ASSUME NEW m, Fields(m), Typed(m)
    PROVE  IsPacked(consolidated(m), m)
<1> DEFINE V == vertices(m)
           E == edges(m)
           F == faces(m)
           r == consolidated(m)
<1>1. /\ IsFiniteSet(V) /\ IsFiniteSet(E) /\ IsFiniteSet(F)
      /\ Cardinality(V) \in Nat /\ Cardinality(E) \in Nat /\ Cardinality(F) \in Nat
  BY FacesFinite
<1>2. V \in SUBSET Nat /\ E \in SUBSET Nat /\ F \in SUBSET Nat
  BY Rows
<1>3. Numbers(V) /\ Numbers(E) /\ Numbers(F)
  BY <1>1, <1>2, Packed
<1>4. /\ r.free = m.free
      /\ r.cap = [v |-> Cardinality(V), e |-> Cardinality(E), f |-> Cardinality(F)]
      /\ r.fv = [f \in upto(F) |-> [k \in Locals |-> old2new(V, m.fv[packed(F, f)][k])]]
      /\ r.fe = [f \in upto(F) |-> [k \in Locals |-> old2new(E, m.fe[packed(F, f)][k])]]
      /\ r.ff = [f \in upto(F) |-> [k \in Locals |-> old2new(F, m.ff[packed(F, f)][k])]]
      /\ r.vf = [v \in upto(V) |-> old2new(F, m.vf[packed(V, v)])]
      /\ r.ef = [e \in upto(E) |-> old2new(F, m.ef[packed(E, e)])]
  BY DEF consolidated, upto
<1>5. Plain(r)
  BY DEF consolidated, Plain, Attributes
<1>6. r.cap \in [v : Nat, e : Nat, f : Nat]
  <2> HIDE DEF r, V, E, F
  <2> QED
    BY <1>1, <1>4
<1>7. Fields(r)
  <2> HIDE DEF r
  <2> QED
    BY <1>4, <1>5, <1>6 DEF Fields
<1>8. vertices(r) = upto(V) /\ edges(r) = upto(E) /\ faces(r) = upto(F)
  <2> HIDE DEF r, V, E, F
  <2> QED
    BY <1>4 DEF vertices, edges, faces
<1> HIDE DEF r
<1> QED
  BY <1>3, <1>4, <1>7, <1>8 DEF IsPacked, r

\* The rows of r, in terms of those of m.
PackedRows(r, m) ==
    LET V == vertices(m)
        E == edges(m)
        F == faces(m)
    IN  /\ \A f \in faces(r) : packed(F, f) \in F
        /\ \A f, g \in faces(r) : packed(F, f) = packed(F, g) => f = g
        /\ \A f \in faces(r), k \in Locals :
              /\ r.fv[f][k] = old2new(V, m.fv[packed(F, f)][k])
              /\ r.fe[f][k] = old2new(E, m.fe[packed(F, f)][k])
              /\ m.fv[packed(F, f)][k] \in V /\ m.fe[packed(F, f)][k] \in E
              /\ r.ff[f][k] = Null <=> m.ff[packed(F, f)][k] = Null
              /\ r.ff[f][k] # Null => /\ r.ff[f][k] \in faces(r)
                                      /\ packed(F, r.ff[f][k]) = m.ff[packed(F, f)][k]
        /\ \A f, g \in faces(r), i, j \in Locals :
              /\ r.fv[f][i] = r.fv[g][j] <=> m.fv[packed(F, f)][i] = m.fv[packed(F, g)][j]
              /\ r.fe[f][i] = r.fe[g][j] <=> m.fe[packed(F, f)][i] = m.fe[packed(F, g)][j]
\* So rows agree after consolidate where they agreed before.
LEMMA PackedRowsAre ==
    ASSUME NEW m, Manifold(m), NEW r, IsPacked(r, m)
    PROVE  PackedRows(r, m)
<1> DEFINE V == vertices(m)
           E == edges(m)
           F == faces(m)
           p(f) == packed(F, f)
<1>1. /\ Numbers(V) /\ Numbers(E) /\ Numbers(F) /\ faces(r) = upto(F)
      /\ \A f \in faces(r), k \in Locals :
            /\ r.fv[f][k] = old2new(V, m.fv[p(f)][k])
            /\ r.fe[f][k] = old2new(E, m.fe[p(f)][k])
            /\ r.ff[f][k] = old2new(F, m.ff[p(f)][k])
  BY DEF IsPacked
<1>2. \A f \in faces(r) : p(f) \in F /\ old2new(F, p(f)) = f
  <2> HIDE DEF F
  <2> QED
    BY <1>1 DEF Numbers
<1>3. \A f, g \in faces(r) : p(f) = p(g) => f = g
  <2> HIDE DEF F, p
  <2> QED
    BY <1>2
<1>4. \A f \in F, k \in Locals :
         m.fv[f][k] \in V /\ m.fe[f][k] \in E /\ m.ff[f][k] \in F \cup {Null}
  BY Rows DEF Manifold
<1>5. \A f \in faces(r), k \in Locals : m.fv[p(f)][k] \in V /\ m.fe[p(f)][k] \in E
  BY <1>2, <1>4
<1>6. \A f \in faces(r), k \in Locals :
         /\ r.ff[f][k] = Null <=> m.ff[p(f)][k] = Null
         /\ r.ff[f][k] # Null => r.ff[f][k] \in faces(r) /\ p(r.ff[f][k]) = m.ff[p(f)][k]
  <2> SUFFICES ASSUME NEW f \in faces(r), NEW k \in Locals
               PROVE  /\ r.ff[f][k] = Null <=> m.ff[p(f)][k] = Null
                      /\ r.ff[f][k] # Null => r.ff[f][k] \in faces(r) /\ p(r.ff[f][k]) = m.ff[p(f)][k]
    OBVIOUS
  <2> DEFINE g == m.ff[p(f)][k]
  <2>1. g \in F \/ g = Null
    BY <1>2, <1>4
  <2>2. r.ff[f][k] = old2new(F, g)
    BY <1>1
  <2> HIDE DEF g, F
  <2>3. CASE g \in F
    BY <2>2, <2>3, <1>1 DEF Numbers, g
  <2>4. CASE g = Null
    BY <2>2, <2>4, <1>1 DEF Numbers, g
  <2> QED
    BY <2>1, <2>3, <2>4
<1>7. \A f, g \in faces(r), i, j \in Locals :
         /\ r.fv[f][i] = r.fv[g][j] <=> m.fv[p(f)][i] = m.fv[p(g)][j]
         /\ r.fe[f][i] = r.fe[g][j] <=> m.fe[p(f)][i] = m.fe[p(g)][j]
  <2> HIDE DEF V, E, F, p
  <2> QED
    BY <1>1, <1>5 DEF Numbers
<1> QED
  BY <1>1, <1>2, <1>3, <1>5, <1>6, <1>7 DEF PackedRows

values(x, I) == {x[k] : k \in I}
Matched(x, y, I, J) ==
    /\ \A k \in I : \E l \in J : x[k] = y[l]
    /\ \A l \in J : \E k \in I : x[k] = y[l]
\* Two rows have the same values if each value of either is one of the other.
LEMMA SameValues ==
    ASSUME NEW x, NEW y, NEW I, NEW J
    PROVE  values(x, I) = values(y, J) <=> Matched(x, y, I, J)
<1>1. (\A k \in I : \E l \in J : x[k] = y[l]) <=> values(x, I) \subseteq values(y, J)
  BY DEF values
<1>2. (\A l \in J : \E k \in I : x[k] = y[l]) <=> values(y, J) \subseteq values(x, I)
  BY DEF values
<1> QED
  BY <1>1, <1>2 DEF Matched

\* The ends of a local edge are renamed with it.
LEMMA PackedEnds ==
    ASSUME NEW m, Manifold(m), NEW r, IsPacked(r, m),
           NEW f \in faces(r), NEW g \in faces(r), NEW i \in Locals, NEW j \in Locals
    PROVE  ends(r, f, i) = ends(r, g, j) <=>
              ends(m, packed(faces(m), f), i) = ends(m, packed(faces(m), g), j)
<1> DEFINE p(h) == packed(faces(m), h)
<1>1. PackedRows(r, m)
  BY PackedRowsAre
<1>2. \A k, l \in Locals : r.fv[f][k] = r.fv[g][l] <=> m.fv[p(f)][k] = m.fv[p(g)][l]
  BY <1>1 DEF PackedRows
<1> HIDE DEF p
<1>3. Matched(r.fv[f], r.fv[g], Locals \ {i}, Locals \ {j}) <=>
         Matched(m.fv[p(f)], m.fv[p(g)], Locals \ {i}, Locals \ {j})
  BY <1>2 DEF Matched
<1>4. /\ ends(r, f, i) = values(r.fv[f], Locals \ {i})
      /\ ends(r, g, j) = values(r.fv[g], Locals \ {j})
      /\ ends(m, p(f), i) = values(m.fv[p(f)], Locals \ {i})
      /\ ends(m, p(g), j) = values(m.fv[p(g)], Locals \ {j})
  BY DEF ends, values
<1>5. ends(r, f, i) = ends(r, g, j) <=> ends(m, p(f), i) = ends(m, p(g), j)
  BY <1>3, <1>4, SameValues
<1> QED
  BY <1>5 DEF p

\* After consolidate, rows name simplices, and simplices name faces that have them.
LEMMA PackedTyped ==
    ASSUME NEW m, Manifold(m), NEW r, IsPacked(r, m)
    PROVE  Typed(r) /\ Named(r)
<1> DEFINE V == vertices(m)
           E == edges(m)
           F == faces(m)
<1>1. /\ Numbers(V) /\ Numbers(E) /\ Numbers(F)
      /\ r.cap.v = Cardinality(V) /\ r.cap.e = Cardinality(E) /\ r.cap.f = Cardinality(F)
      /\ vertices(r) = upto(V) /\ edges(r) = upto(E) /\ faces(r) = upto(F)
      /\ r.fv = [f \in upto(F) |-> [k \in Locals |-> old2new(V, m.fv[packed(F, f)][k])]]
      /\ r.fe = [f \in upto(F) |-> [k \in Locals |-> old2new(E, m.fe[packed(F, f)][k])]]
      /\ r.ff = [f \in upto(F) |-> [k \in Locals |-> old2new(F, m.ff[packed(F, f)][k])]]
      /\ r.vf = [v \in upto(V) |-> old2new(F, m.vf[packed(V, v)])]
      /\ r.ef = [e \in upto(E) |-> old2new(F, m.ef[packed(E, e)])]
  BY DEF IsPacked
<1>2. /\ \A f \in F, k \in Locals :
            m.fv[f][k] \in V /\ m.fe[f][k] \in E /\ m.ff[f][k] \in F \cup {Null}
      /\ \A v \in V : m.vf[v] \in F /\ \E k \in Locals : m.fv[m.vf[v]][k] = v
      /\ \A e \in E : m.ef[e] \in F /\ \E k \in Locals : m.fe[m.ef[e]][k] = e
  <2>1. Fields(m) /\ Typed(m) /\ Named(m)
    BY DEF Manifold
  <2> QED
    BY <2>1, Rows DEF Named
<1> HIDE DEF V, E, F
<1>3. \A f \in upto(F), k \in Locals :
         /\ old2new(V, m.fv[packed(F, f)][k]) \in upto(V)
         /\ old2new(E, m.fe[packed(F, f)][k]) \in upto(E)
         /\ old2new(F, m.ff[packed(F, f)][k]) \in upto(F) \cup {Null}
  BY <1>1, <1>2 DEF Numbers
<1>4. \A v \in upto(V) : /\ r.vf[v] \in upto(F) /\ packed(F, r.vf[v]) = m.vf[packed(V, v)]
                         /\ packed(V, v) \in V /\ old2new(V, packed(V, v)) = v
  BY <1>1, <1>2 DEF Numbers
<1>5. \A e \in upto(E) : /\ r.ef[e] \in upto(F) /\ packed(F, r.ef[e]) = m.ef[packed(E, e)]
                         /\ packed(E, e) \in E /\ old2new(E, packed(E, e)) = e
  BY <1>1, <1>2 DEF Numbers
<1>6. /\ vertices(r) \subseteq 0 .. r.cap.v - 1 /\ edges(r) \subseteq 0 .. r.cap.e - 1
      /\ faces(r) \subseteq 0 .. r.cap.f - 1
  BY <1>1 DEF upto
<1>7. r.fv \in [faces(r) -> [Locals -> vertices(r)]]
  BY <1>1, <1>3
<1>8. r.fe \in [faces(r) -> [Locals -> edges(r)]]
  BY <1>1, <1>3
<1>9. r.ff \in [faces(r) -> [Locals -> faces(r) \cup {Null}]]
  BY <1>1, <1>3
<1>10. r.vf \in [vertices(r) -> faces(r)] /\ r.ef \in [edges(r) -> faces(r)]
  BY <1>1, <1>4, <1>5
<1>11. \A v \in vertices(r) : \E k \in Locals : r.fv[r.vf[v]][k] = v
  <2> SUFFICES ASSUME NEW v \in upto(V)
               PROVE  \E k \in Locals : r.fv[r.vf[v]][k] = v
    BY <1>1
  <2>1. PICK k \in Locals : m.fv[m.vf[packed(V, v)]][k] = packed(V, v)
    BY <1>2, <1>4
  <2>2. r.fv[r.vf[v]][k] = old2new(V, m.fv[packed(F, r.vf[v])][k])
    BY <1>1, <1>4
  <2>3. r.fv[r.vf[v]][k] = v
    BY <2>1, <2>2, <1>4
  <2> QED
    BY <2>3
<1>12. \A e \in edges(r) : \E k \in Locals : r.fe[r.ef[e]][k] = e
  <2> SUFFICES ASSUME NEW e \in upto(E)
               PROVE  \E k \in Locals : r.fe[r.ef[e]][k] = e
    BY <1>1
  <2>1. PICK k \in Locals : m.fe[m.ef[packed(E, e)]][k] = packed(E, e)
    BY <1>2, <1>5
  <2>2. r.fe[r.ef[e]][k] = old2new(E, m.fe[packed(F, r.ef[e])][k])
    BY <1>1, <1>5
  <2>3. r.fe[r.ef[e]][k] = e
    BY <2>1, <2>2, <1>5
  <2> QED
    BY <2>3
<1> QED
  BY <1>6, <1>7, <1>8, <1>9, <1>10, <1>11, <1>12 DEF Typed, Named

\* The faces of a vertex are those of the vertex that it was.
LEMMA PackedStars ==
    ASSUME NEW m, Manifold(m), NEW r, IsPacked(r, m)
    PROVE  Stars(r)
<1> DEFINE V == vertices(m)
           F == faces(m)
           p(f) == packed(F, f)
<1> SUFFICES ASSUME NEW v \in vertices(r), NEW S \in SUBSET star(r, v), S # {}, Closed(r, v, S)
             PROVE  S = star(r, v)
  BY DEF Stars
<1>1. /\ Numbers(V) /\ Numbers(F) /\ vertices(r) = upto(V) /\ faces(r) = upto(F)
  BY DEF IsPacked
<1>2. /\ \A f \in faces(r) : p(f) \in F
      /\ \A f, g \in faces(r) : p(f) = p(g) => f = g
      /\ \A f \in faces(r), k \in Locals :
              /\ r.fv[f][k] = old2new(V, m.fv[p(f)][k])
              /\ m.fv[p(f)][k] \in V
              /\ r.ff[f][k] = Null <=> m.ff[p(f)][k] = Null
              /\ r.ff[f][k] # Null => r.ff[f][k] \in faces(r) /\ p(r.ff[f][k]) = m.ff[p(f)][k]
  <2>1. PackedRows(r, m)
    BY PackedRowsAre
  <2> QED
    BY <2>1 DEF PackedRows
<1>3. PICK w \in V : old2new(V, w) = v /\ \A x \in V : old2new(V, x) = v => x = w
  <2> HIDE DEF V, F
  <2>1. packed(V, v) \in V /\ old2new(V, packed(V, v)) = v
    BY <1>1 DEF Numbers
  <2> QED
    BY <2>1, <1>1 DEF Numbers
<1> DEFINE T == {g \in F : \E f \in S : g = p(f)}
<1>4. \A f \in F : \E g \in faces(r) : p(g) = f
  <2> HIDE DEF V, F
  <2> QED
    BY <1>1 DEF Numbers, p
<1> HIDE DEF p, V
<1>5. \A f \in faces(r), k \in Locals : r.fv[f][k] = v <=> m.fv[p(f)][k] = w
  BY <1>2, <1>3
<1>6. \A f \in faces(r) : f \in star(r, v) <=> p(f) \in star(m, w)
  BY <1>2, <1>5 DEF star
<1>7. \A f \in S : f \in faces(r)
  BY DEF star
<1>8. T \in SUBSET star(m, w) /\ T # {}
  BY <1>2, <1>6, <1>7
<1>9. Closed(m, w, T)
  <2> SUFFICES ASSUME NEW g \in T, NEW k \in Locals, m.fv[g][k] # w, m.ff[g][k] # Null
               PROVE  m.ff[g][k] \in T
    BY DEF Closed
  <2>1. PICK f \in S : g = p(f)
    OBVIOUS
  <2>2. /\ r.fv[f][k] # v /\ r.ff[f][k] # Null /\ r.ff[f][k] \in faces(r)
        /\ p(r.ff[f][k]) = m.ff[g][k]
    BY <2>1, <1>2, <1>5, <1>7
  <2>3. r.ff[f][k] \in S
    BY <2>2 DEF Closed
  <2> QED
    BY <2>2, <2>3, <1>2
<1> HIDE DEF T
<1>10. T = star(m, w)
  BY <1>3, <1>8, <1>9 DEF Manifold, Stars, V
<1>11. \A f \in star(r, v) : f \in S
  <2> TAKE f \in star(r, v)
  <2>1. f \in faces(r) /\ p(f) \in T
    BY <1>6, <1>10 DEF star
  <2>2. PICK g \in S : p(f) = p(g)
    BY <2>1 DEF T
  <2> QED
    BY <2>1, <2>2, <1>2, <1>7
<1> QED
  BY <1>11

\* consolidate leaves a manifold, with the smallest ids.
LEMMA ConsolidatedKeepsManifold ==
    ASSUME NEW m, Manifold(m)
    PROVE  /\ Manifold(consolidated(m)) /\ consolidated(m).free = m.free
           /\ consolidated(m).cap.v <= m.cap.v
<1> DEFINE r == consolidated(m)
           F == faces(m)
           p(f) == packed(F, f)
<1>1. IsPacked(r, m)
  BY ConsolidatedIs DEF Manifold
<1> HIDE DEF r
<1>2. Typed(r) /\ Named(r) /\ Stars(r) /\ Fields(r) /\ r.free = m.free
  BY <1>1, PackedTyped, PackedStars DEF IsPacked
<1>3. /\ \A f \in faces(r) : p(f) \in F
      /\ \A f, g \in faces(r) : p(f) = p(g) => f = g
      /\ \A f \in faces(r), k \in Locals :
            /\ r.ff[f][k] = Null <=> m.ff[p(f)][k] = Null
            /\ r.ff[f][k] # Null => r.ff[f][k] \in faces(r) /\ p(r.ff[f][k]) = m.ff[p(f)][k]
      /\ \A f, g \in faces(r), i, j \in Locals :
            /\ r.fv[f][i] = r.fv[g][j] <=> m.fv[p(f)][i] = m.fv[p(g)][j]
            /\ r.fe[f][i] = r.fe[g][j] <=> m.fe[p(f)][i] = m.fe[p(g)][j]
  <2>1. PackedRows(r, m)
    BY <1>1, PackedRowsAre
  <2> QED
    BY <2>1 DEF PackedRows
<1>4. \A f, g \in faces(r), i, j \in Locals :
         ends(r, f, i) = ends(r, g, j) <=> ends(m, p(f), i) = ends(m, p(g), j)
  BY <1>1, PackedEnds
<1> HIDE DEF p, F
<1>5. /\ \A f \in F : \A i, j \in Locals : m.fv[f][i] = m.fv[f][j] => i = j
      /\ \A f, g \in F : (\A i \in Locals : \E j \in Locals : m.fv[f][i] = m.fv[g][j]) => f = g
      /\ \A f, g \in F, i, j \in Locals : m.fe[f][i] = m.fe[g][j] <=> ends(m, f, i) = ends(m, g, j)
      /\ \A f, g \in F, i, j \in Locals :
            m.fe[f][i] = m.fe[g][j] => (f = g /\ i = j) \/ (~m.free /\ m.ff[f][i] = g)
      /\ \A f \in F, i \in Locals :
            m.ff[f][i] # Null => /\ ~m.free /\ m.ff[f][i] # f
                                 /\ \E j \in Locals : m.fe[m.ff[f][i]][j] = m.fe[f][i]
  BY DEF Manifold, Corners, EdgesAgree, Mates, Across, F
<1>6. Corners(r)
  <2>1. \A f \in faces(r) : \A i, j \in Locals : r.fv[f][i] = r.fv[f][j] => i = j
    BY <1>3, <1>5
  <2>2. ASSUME NEW f \in faces(r), NEW g \in faces(r),
               \A i \in Locals : \E j \in Locals : r.fv[f][i] = r.fv[g][j]
        PROVE  f = g
    <3>1. \A i \in Locals : \E j \in Locals : m.fv[p(f)][i] = m.fv[p(g)][j]
      BY <2>2, <1>3
    <3>2. p(f) \in F /\ p(g) \in F
      BY <1>3
    <3>3. p(f) = p(g)
      BY <3>1, <3>2, <1>5
    <3> QED
      BY <3>3, <1>3
  <2> QED
    BY <2>1, <2>2 DEF Corners
<1>7. EdgesAgree(r)
  BY <1>3, <1>4, <1>5 DEF EdgesAgree
<1>8. Mates(r)
  <2> SUFFICES ASSUME NEW f \in faces(r), NEW g \in faces(r), NEW i \in Locals, NEW j \in Locals,
                      r.fe[f][i] = r.fe[g][j]
               PROVE  (f = g /\ i = j) \/ (~r.free /\ r.ff[f][i] = g)
    BY DEF Mates
  <2>1. (p(f) = p(g) /\ i = j) \/ (~m.free /\ m.ff[p(f)][i] = p(g))
    BY <1>3, <1>5
  <2>2. p(g) # Null
    BY <1>3, Rows DEF Manifold, F
  <2> QED
    BY <2>1, <2>2, <1>2, <1>3
<1>9. Across(r)
  <2> SUFFICES ASSUME NEW f \in faces(r), NEW i \in Locals, r.ff[f][i] # Null
               PROVE  /\ ~r.free /\ r.ff[f][i] # f
                      /\ \E j \in Locals : r.fe[r.ff[f][i]][j] = r.fe[f][i]
    BY DEF Across
  <2>1. r.ff[f][i] \in faces(r) /\ p(r.ff[f][i]) = m.ff[p(f)][i] /\ m.ff[p(f)][i] # Null /\ p(f) \in F
    BY <1>3
  <2>2. /\ ~m.free /\ m.ff[p(f)][i] # p(f)
        /\ \E j \in Locals : m.fe[m.ff[p(f)][i]][j] = m.fe[p(f)][i]
    BY <2>1, <1>5
  <2> QED
    BY SMTT(20), <2>1, <2>2, <1>2, <1>3
<1>10. r.cap.v <= m.cap.v
  <2> DEFINE n == m.cap.v
  <2>1. n \in Nat /\ vertices(m) \in SUBSET (0 .. n - 1) /\ r.cap.v = Cardinality(vertices(m))
    BY <1>1 DEF Manifold, Fields, Typed, IsPacked
  <2> HIDE DEF n
  <2>2. IsFiniteSet(0 .. n - 1) /\ Cardinality(0 .. n - 1) = IF 0 > n - 1 THEN 0 ELSE (n - 1) - 0 + 1
    <3>1. 0 \in Int /\ n - 1 \in Int
      BY <2>1
    <3> QED
      BY <3>1, FS_Interval
  <2>3. Cardinality(vertices(m)) <= Cardinality(0 .. n - 1)
    BY <2>1, <2>2, FS_Subset
  <2>4. Cardinality(0 .. n - 1) = n
    BY <2>1, <2>2
  <2> QED
    BY <2>1, <2>3, <2>4 DEF n
<1> QED
  BY <1>2, <1>6, <1>7, <1>8, <1>9, <1>10 DEF Manifold, r

-----------------------------------------------------------------------------
(* initialize: what the faces of an input give.                            *)
LEMMA MinMaxOf ==
    ASSUME NEW a \in Nat, NEW b \in Nat
    PROVE  /\ Min({a, b}) = IF a <= b THEN a ELSE b
           /\ Max({a, b}) = IF a <= b THEN b ELSE a
<1> DEFINE S == {a, b}
<1>1. \E x \in S : \A y \in S : x <= y
  <2>1. CASE a <= b
    BY <2>1
  <2>2. CASE b <= a
    BY <2>2
  <2> QED
    BY <2>1, <2>2
<1>2. \E x \in S : \A y \in S : x >= y
  <2>1. CASE a <= b
    BY <2>1
  <2>2. CASE b <= a
    BY <2>2
  <2> QED
    BY <2>1, <2>2
<1>3. Min(S) \in S /\ \A y \in S : Min(S) <= y
  BY <1>1 DEF Min
<1>4. Max(S) \in S /\ \A y \in S : Max(S) >= y
  BY <1>2 DEF Max
<1>5. a \in S /\ b \in S /\ \A x \in S : x = a \/ x = b
  OBVIOUS
<1> DEFINE lo == Min(S)
           hi == Max(S)
<1>6. /\ lo = a \/ lo = b
      /\ lo <= a /\ lo <= b
  BY <1>3, <1>5
<1>7. /\ hi = a \/ hi = b
      /\ hi >= a /\ hi >= b
  BY <1>4, <1>5
<1> HIDE DEF S, lo, hi
<1>8. lo = (IF a <= b THEN a ELSE b) /\ hi = (IF a <= b THEN b ELSE a)
  BY ONLY <1>6, <1>7, a \in Nat, b \in Nat
<1> QED
  BY <1>8 DEF S, lo, hi

\* Max is a member of the set.
LEMMA MaxIn ==
    ASSUME NEW n \in Nat, NEW S \in SUBSET (0 .. n), S # {}
    PROVE  Max(S) \in S
<1> DEFINE T == {k \in Nat : n - k \in S}
<1>1. T # {}
  <2>1. PICK x \in S : TRUE
    OBVIOUS
  <2>2. x \in 0 .. n
    OBVIOUS
  <2>3. n - x \in Nat /\ n - (n - x) = x
    BY <2>2
  <2> QED
    BY <2>3
<1>2. PICK r \in T : \A s \in T : r <= s
  <2>1. T \in SUBSET Nat
    OBVIOUS
  <2> HIDE DEF T
  <2> QED
    BY <1>1, <2>1, LeastNatural
<1>3. n - r \in S /\ r \in Nat
  OBVIOUS
<1>4. ASSUME NEW y \in S
      PROVE  n - r >= y
  <2>1. y \in 0 .. n
    OBVIOUS
  <2>2. n - y \in Nat /\ n - (n - y) = y /\ y \in Nat
    BY <2>1
  <2>3. r <= n - y
    BY <1>2, <2>2
  <2> QED
    BY <2>2, <2>3, <1>3
<1> QED
  BY <1>3, <1>4 DEF Max

\* A set with two members has two at least.
LEMMA TwoMembers ==
    ASSUME NEW S, IsFiniteSet(S), NEW x \in S, NEW y \in S, x # y
    PROVE  Cardinality(S) >= 2
<1>1. IsFiniteSet(S \ {x}) /\ Cardinality(S \ {x}) = Cardinality(S) - 1
  BY FS_RemoveElement
<1>2. y \in S \ {x}
  OBVIOUS
<1>3. Cardinality(S \ {x}) # 0
  BY <1>1, <1>2, FS_EmptySet
<1>4. Cardinality(S \ {x}) \in Nat /\ Cardinality(S) \in Nat
  BY <1>1, FS_CardinalityType
<1> QED
  BY <1>1, <1>3, <1>4

\* A set of two has a member that is not v.
LEMMA TwoIn ==
    ASSUME NEW S, IsFiniteSet(S), Cardinality(S) >= 2, NEW v
    PROVE  \E x \in S : x # v
<1> SUFFICES ASSUME \A x \in S : x = v
             PROVE  FALSE
  OBVIOUS
<1>1. S \in SUBSET {v}
  OBVIOUS
<1>2. IsFiniteSet({v}) /\ Cardinality({v}) = 1
  BY FS_Singleton
<1>3. Cardinality(S) <= 1 /\ Cardinality(S) \in Nat
  BY <1>1, <1>2, FS_Subset, FS_CardinalityType
<1> QED
  BY <1>3

\* The order of tuples of four.
LEMMA Lexicographic ==
    ASSUME NEW a \in Int, NEW b \in Int, NEW c \in Int, NEW d \in Int,
           NEW x \in Int, NEW y \in Int, NEW z \in Int, NEW w \in Int
    PROVE  (\E k \in 1 .. 4 : /\ <<a, b, c, d>>[k] < <<x, y, z, w>>[k]
                              /\ \A l \in 1 .. k - 1 : <<a, b, c, d>>[l] = <<x, y, z, w>>[l])
           <=> \/ a < x
               \/ a = x /\ b < y
               \/ a = x /\ b = y /\ c < z
               \/ a = x /\ b = y /\ c = z /\ d < w
<1> DEFINE p == <<a, b, c, d>>
           q == <<x, y, z, w>>
           H(k) == p[k] < q[k] /\ \A l \in 1 .. k - 1 : p[l] = q[l]
<1>1. /\ p[1] = a /\ p[2] = b /\ p[3] = c /\ p[4] = d
      /\ q[1] = x /\ q[2] = y /\ q[3] = z /\ q[4] = w
  OBVIOUS
<1>2. /\ 1 .. 4 = {1, 2, 3, 4} /\ 1 .. 1 - 1 = {} /\ 1 .. 2 - 1 = {1} /\ 1 .. 3 - 1 = {1, 2}
      /\ 1 .. 4 - 1 = {1, 2, 3}
  OBVIOUS
<1> HIDE DEF p, q
<1>3. H(1) <=> a < x
  BY <1>1, <1>2
<1>4. H(2) <=> a = x /\ b < y
  BY <1>1, <1>2
<1>5. H(3) <=> a = x /\ b = y /\ c < z
  BY <1>1, <1>2
<1>6. H(4) <=> a = x /\ b = y /\ c = z /\ d < w
  BY <1>1, <1>2
<1>7. (\E k \in 1 .. 4 : H(k)) <=> H(1) \/ H(2) \/ H(3) \/ H(4)
  <2> HIDE DEF H
  <2> QED
    BY <1>2
<1> QED
  BY <1>3, <1>4, <1>5, <1>6, <1>7 DEF p, q

corners(F, f) == {F[f][i] : i \in Locals}
Corner(F)     == UNION {corners(F, f) : f \in DOMAIN F}
around(F, v)  == {f \in DOMAIN F : v \in corners(F, f)}

\* An input, by the places of its vertices.
IsInput(F, free) ==
    LET N == DOMAIN F
    IN  /\ free \in BOOLEAN
        /\ IsFiniteSet(N) /\ Cardinality(N) \in Nat /\ N = 0 .. Cardinality(N) - 1
        /\ F \in [N -> [Locals -> Nat]]
        /\ Cardinality(Corner(F)) \in Nat /\ Corner(F) = 0 .. Cardinality(Corner(F)) - 1
        /\ \A f \in N : \A i, j \in Locals : F[f][i] = F[f][j] => i = j
        /\ \A f, g \in N : (\A i \in Locals : \E j \in Locals : F[f][i] = F[g][j]) => f = g
        /\ \A f, g, h \in N : \A x, y : x # y /\ x \in corners(F, f) /\ y \in corners(F, f)
              /\ x \in corners(F, g) /\ y \in corners(F, g)
              /\ x \in corners(F, h) /\ y \in corners(F, h) => f = g \/ g = h \/ f = h
        /\ \A v \in Corner(F) : \A S \in SUBSET around(F, v) :
              S # {} /\ S # around(F, v) =>
                 \E f \in S, g \in around(F, v) \ S : \E x :
                    x # v /\ x \in corners(F, f) /\ x \in corners(F, g)
        /\ free => \A f, g \in N, i, j \in Locals : F[f][i] = F[g][j] => f = g

\* What InputsAssumption says of an input.
LEMMA InputRows ==
    ASSUME NEW in \in Inputs
    PROVE  LET F == in.F
               N == DOMAIN F
           IN  /\ in.free \in BOOLEAN /\ in.splits \in Nat
               /\ IsFiniteSet(N) /\ F \in [0 .. Cardinality(N) - 1 -> [Locals -> Nat]]
               /\ \A f \in N : Cardinality(corners(F, f)) = 3
               /\ Corner(F) = 0 .. Cardinality(Corner(F)) - 1
               /\ Cardinality(Corner(F)) + (IF in.free THEN 3 ELSE 1) * in.splits <= MaxVertices
               /\ \A f, g \in N : corners(F, f) = corners(F, g) => f = g
               /\ \A f, g, h \in N :
                     Cardinality(corners(F, f) \cap corners(F, g) \cap corners(F, h)) >= 2
                         => f = g \/ g = h \/ f = h
               /\ \A v \in Corner(F) : \A S \in (SUBSET around(F, v)) \ {{}, around(F, v)} :
                     \E f \in S, g \in around(F, v) \ S :
                         Cardinality(corners(F, f) \cap corners(F, g)) >= 2
               /\ in.free => \A f, g \in N : f = g \/ corners(F, f) \cap corners(F, g) = {}
BY InputsAssumption DEF corners, Corner, around

\* The corners of a face are finitely many.
LEMMA CornersFinite ==
    ASSUME NEW F, NEW f
    PROVE  IsFiniteSet(corners(F, f))
<1>1. Locals = {0, 1, 2}
  BY DEF Locals
<1>2. corners(F, f) = (({} \cup {F[f][0]}) \cup {F[f][1]}) \cup {F[f][2]}
  BY <1>1 DEF corners
<1>3. IsFiniteSet({})
  BY FS_EmptySet
<1>4. IsFiniteSet({} \cup {F[f][0]})
  BY <1>3, FS_AddElement
<1>5. IsFiniteSet(({} \cup {F[f][0]}) \cup {F[f][1]})
  BY <1>4, FS_AddElement
<1>6. IsFiniteSet((({} \cup {F[f][0]}) \cup {F[f][1]}) \cup {F[f][2]})
  BY <1>5, FS_AddElement
<1> QED
  BY <1>2, <1>6

\* A face with three vertices has them at different places.
LEMMA ThreeCorners ==
    ASSUME NEW F, NEW f, Cardinality(corners(F, f)) = 3, NEW i \in Locals, NEW j \in Locals,
           F[f][i] = F[f][j]
    PROVE  i = j
<1> SUFFICES ASSUME i # j
             PROVE  FALSE
  OBVIOUS
<1>1. PICK k \in Locals : k # i /\ k # j /\ Locals = {i, j, k}
  BY Between
<1>2. corners(F, f) \in SUBSET ({F[f][i]} \cup {F[f][k]})
  BY <1>1 DEF corners
<1>3. IsFiniteSet({F[f][i]}) /\ Cardinality({F[f][i]}) = 1
  BY FS_Singleton
<1> DEFINE T == {F[f][i]} \cup {F[f][k]}
<1>4. IsFiniteSet(T) /\ (Cardinality(T) = 1 \/ Cardinality(T) = 2)
  <2> DEFINE Q == {F[f][i]}
             x == F[f][k]
  <2>1. IsFiniteSet(Q) /\ Cardinality(Q) = 1
    BY <1>3
  <2> HIDE DEF Q, x
  <2>2. IsFiniteSet(Q \cup {x}) /\ (Cardinality(Q \cup {x}) = 1 \/ Cardinality(Q \cup {x}) = 1 + 1)
    BY <2>1, FS_AddElement
  <2> QED
    BY <2>2 DEF Q, x
<1> HIDE DEF T
<1>5. Cardinality(corners(F, f)) <= Cardinality(T)
  BY <1>2, <1>4, FS_Subset DEF T
<1> QED
  BY <1>4, <1>5

\* The corners of finitely many faces are finitely many.
LEMMA CornerFinite ==
    ASSUME NEW F, IsFiniteSet(DOMAIN F)
    PROVE  IsFiniteSet(Corner(F)) /\ Cardinality(Corner(F)) \in Nat
<1> DEFINE P == (DOMAIN F) \X Locals
           c == [p \in P |-> F[p[1]][p[2]]]
<1>1. IsFiniteSet(P)
  <2>1. IsFiniteSet(0 .. 2)
    <3>1. 0 \in Int /\ 2 \in Int
      OBVIOUS
    <3> QED
      BY <3>1, FS_Interval
  <2>2. IsFiniteSet(Locals)
    BY <2>1 DEF Locals
  <2> QED
    BY <2>2, FS_Product
<1>2. c \in Surjection(P, Corner(F))
  <2>1. \A p \in P : c[p] = F[p[1]][p[2]] /\ c[p] \in Corner(F)
    BY DEF Corner, corners
  <2>2. \A v \in Corner(F) : \E p \in P : c[p] = v
    <3> SUFFICES ASSUME NEW v \in Corner(F)
                 PROVE  \E p \in P : c[p] = v
      OBVIOUS
    <3>1. PICK f \in DOMAIN F, i \in Locals : F[f][i] = v
      BY DEF Corner, corners
    <3>2. <<f, i>> \in P /\ c[<<f, i>>] = v
      BY <3>1
    <3> QED
      BY <3>2
  <2>3. c \in [P -> Corner(F)]
    BY <2>1
  <2> HIDE DEF c, P
  <2> QED
    BY <2>2, <2>3 DEF Surjection
<1> HIDE DEF c, P
<1> QED
  BY <1>1, <1>2, FS_Surjection, FS_CardinalityType

\* The same without counting.
LEMMA InputFacts ==
    ASSUME NEW in \in Inputs
    PROVE  /\ IsInput(in.F, in.free) /\ in.splits \in Nat
           /\ Cardinality(Corner(in.F)) + (IF in.free THEN 3 ELSE 1) * in.splits <= MaxVertices
<1> DEFINE F == in.F
           N == DOMAIN F
           C(f) == corners(F, f)
<1>1. /\ in.free \in BOOLEAN /\ in.splits \in Nat
      /\ IsFiniteSet(N) /\ F \in [0 .. Cardinality(N) - 1 -> [Locals -> Nat]]
      /\ \A f \in N : Cardinality(C(f)) = 3
      /\ Corner(F) = 0 .. Cardinality(Corner(F)) - 1
      /\ Cardinality(Corner(F)) + (IF in.free THEN 3 ELSE 1) * in.splits <= MaxVertices
      /\ \A f, g \in N : C(f) = C(g) => f = g
      /\ \A f, g, h \in N : Cardinality(C(f) \cap C(g) \cap C(h)) >= 2 => f = g \/ g = h \/ f = h
      /\ \A v \in Corner(F) : \A S \in (SUBSET around(F, v)) \ {{}, around(F, v)} :
            \E f \in S, g \in around(F, v) \ S : Cardinality(C(f) \cap C(g)) >= 2
      /\ in.free => \A f, g \in N : f = g \/ C(f) \cap C(g) = {}
  BY InputRows
<1> HIDE DEF F
<1>2. \A f, i : i \in Locals => F[f][i] \in C(f)
  BY DEF corners
<1>3. \A f, g : IsFiniteSet(C(f)) /\ IsFiniteSet(C(f) \cap C(g))
  <2> TAKE f, g
  <2>1. IsFiniteSet(C(f)) /\ C(f) \cap C(g) \in SUBSET C(f)
    BY CornersFinite
  <2> HIDE DEF C
  <2> QED
    BY <2>1, FS_Subset
<1>4. Cardinality(N) \in Nat /\ N = 0 .. Cardinality(N) - 1 /\ Cardinality(Corner(F)) \in Nat
  <2>1. N = 0 .. Cardinality(N) - 1
    BY <1>1
  <2> QED
    BY <2>1, <1>1, FS_CardinalityType, CornerFinite
<1>5. F \in [N -> [Locals -> Nat]]
  BY <1>1, <1>4
<1>6. \A f \in N : \A i, j \in Locals : F[f][i] = F[f][j] => i = j
  BY <1>1, ThreeCorners
<1>7. \A f, g \in N : (\A i \in Locals : \E j \in Locals : F[f][i] = F[g][j]) => f = g
  <2> SUFFICES ASSUME NEW f \in N, NEW g \in N, \A i \in Locals : \E j \in Locals : F[f][i] = F[g][j]
               PROVE  f = g
    OBVIOUS
  <2>1. C(f) \in SUBSET C(g)
    BY DEF corners
  <2>2. Cardinality(C(f)) = Cardinality(C(g)) /\ IsFiniteSet(C(g))
    BY <1>1, <1>3
  <2> HIDE DEF C
  <2>3. C(f) = C(g)
    BY <2>1, <2>2, FS_Subset
  <2> QED
    BY <2>3, <1>1
<1> HIDE DEF C, N
<1>8. \A f, g, h \in N : \A x, y : x # y /\ x \in C(f) /\ y \in C(f) /\ x \in C(g) /\ y \in C(g)
         /\ x \in C(h) /\ y \in C(h) => f = g \/ g = h \/ f = h
  <2> SUFFICES ASSUME NEW f \in N, NEW g \in N, NEW h \in N, NEW x, NEW y, x # y,
                      x \in C(f), y \in C(f), x \in C(g), y \in C(g), x \in C(h), y \in C(h)
               PROVE  f = g \/ g = h \/ f = h
    OBVIOUS
  <2> DEFINE S == C(f) \cap C(g) \cap C(h)
  <2>1. x \in S /\ y \in S /\ S \in SUBSET C(f)
    OBVIOUS
  <2>2. IsFiniteSet(S)
    <3> HIDE DEF S
    <3> QED
      BY <2>1, <1>3, FS_Subset
  <2>3. Cardinality(S) >= 2
    <3> HIDE DEF S
    <3> QED
      BY <2>1, <2>2, TwoMembers
  <2> QED
    BY <2>3, <1>1
<1>9. \A v \in Corner(F) : \A S \in SUBSET around(F, v) :
         S # {} /\ S # around(F, v) =>
            \E f \in S, g \in around(F, v) \ S : \E x : x # v /\ x \in C(f) /\ x \in C(g)
  <2> SUFFICES ASSUME NEW v \in Corner(F), NEW S \in SUBSET around(F, v), S # {}, S # around(F, v)
               PROVE  \E f \in S, g \in around(F, v) \ S : \E x : x # v /\ x \in C(f) /\ x \in C(g)
    OBVIOUS
  <2>1. S \in (SUBSET around(F, v)) \ {{}, around(F, v)}
    OBVIOUS
  <2>2. PICK f \in S, g \in around(F, v) \ S : Cardinality(C(f) \cap C(g)) >= 2
    BY <1>1, <2>1
  <2>3. \E x \in C(f) \cap C(g) : x # v
    BY <2>2, <1>3, TwoIn
  <2> QED
    BY <2>3
<1>10. in.free => \A f, g \in N, i, j \in Locals : F[f][i] = F[g][j] => f = g
  <2> SUFFICES ASSUME in.free, NEW f \in N, NEW g \in N, NEW i \in Locals, NEW j \in Locals,
                      F[f][i] = F[g][j]
               PROVE  f = g
    OBVIOUS
  <2>1. F[f][i] \in C(f) /\ F[f][i] \in C(g)
    BY <1>2
  <2>2. f = g \/ C(f) \cap C(g) = {}
    BY <1>1
  <2> QED
    BY <2>1, <2>2
<1>11. IsInput(F, in.free)
  BY <1>1, <1>4, <1>5, <1>6, <1>7, <1>8, <1>9, <1>10 DEF IsInput, N, C
<1> QED
  BY <1>1, <1>11 DEF F

\* The numbers of the edges: initialize's own definitions, of the faces F.
places(F) == (DOMAIN F) \X Locals
local(F, f, i) == {F[f][j] : j \in Locals \ {i}}
key(F, p) == <<Min(local(F, p[1], p[2])), Max(local(F, p[1], p[2])), p[1], p[2]>>
before(F, p, q) == \E k \in 1 .. 4 : /\ key(F, p)[k] < key(F, q)[k]
                                     /\ \A l \in 1 .. k - 1 : key(F, p)[l] = key(F, q)[l]
twins(F, p) == {q \in places(F) : local(F, q[1], q[2]) = local(F, p[1], p[2])}
first(F, p) == \A q \in twins(F, p) : ~before(F, q, p)
heads(F) == {p \in places(F) : first(F, p)}
eid(F, p) == Cardinality({q \in heads(F) : before(F, q, p)
                                           /\ local(F, q[1], q[2]) # local(F, p[1], p[2])})
other(F, p) == {q[1] : q \in twins(F, p) \ {p}}

lo(F, p) == Min(local(F, p[1], p[2]))
hi(F, p) == Max(local(F, p[1], p[2]))
\* A place of an edge has a lower and a higher end.
LEMMA LowHigh ==
    ASSUME NEW F, NEW free, IsInput(F, free), NEW p \in places(F)
    PROVE  /\ p = <<p[1], p[2]>> /\ p[1] \in DOMAIN F /\ p[2] \in Locals
           /\ p[1] \in Nat /\ p[2] \in Nat /\ p[2] <= 2
           /\ lo(F, p) \in Nat /\ hi(F, p) \in Nat /\ local(F, p[1], p[2]) = {lo(F, p), hi(F, p)}
<1>1. p = <<p[1], p[2]>> /\ p[1] \in DOMAIN F /\ p[2] \in Locals
  BY DEF places
<1>2. p[1] \in Nat /\ p[2] \in Nat /\ p[2] <= 2
  BY <1>1 DEF IsInput, Locals
<1>3. PICK i, j \in Locals : i # j /\ i # p[2] /\ j # p[2] /\ Locals = {i, j, p[2]}
  BY <1>1, OtherLocals
<1> DEFINE a == F[p[1]][i]
           b == F[p[1]][j]
<1>4. local(F, p[1], p[2]) = {a, b}
  <2>1. Locals \ {p[2]} = {i, j}
    BY <1>3
  <2> QED
    BY <2>1 DEF local
<1>5. a \in Nat /\ b \in Nat
  BY <1>1, <1>3 DEF IsInput
<1> HIDE DEF a, b
<1>6. /\ Min({a, b}) = IF a <= b THEN a ELSE b
      /\ Max({a, b}) = IF a <= b THEN b ELSE a
  BY <1>5, MinMaxOf
<1>7. lo(F, p) = Min({a, b}) /\ hi(F, p) = Max({a, b})
  BY <1>4 DEF lo, hi
<1>8. lo(F, p) \in Nat /\ hi(F, p) \in Nat /\ {a, b} = {lo(F, p), hi(F, p)}
  BY <1>5, <1>6, <1>7
<1> QED
  BY <1>1, <1>2, <1>4, <1>8

\* Edges are the same if their lower and their higher ends are.
LEMMA LocalSame ==
    ASSUME NEW F, NEW free, IsInput(F, free), NEW p \in places(F), NEW q \in places(F)
    PROVE  local(F, p[1], p[2]) = local(F, q[1], q[2]) <=> lo(F, p) = lo(F, q) /\ hi(F, p) = hi(F, q)
<1>1. local(F, p[1], p[2]) = local(F, q[1], q[2]) => lo(F, p) = lo(F, q) /\ hi(F, p) = hi(F, q)
  BY DEF lo, hi
<1>2. /\ local(F, p[1], p[2]) = {lo(F, p), hi(F, p)} /\ local(F, q[1], q[2]) = {lo(F, q), hi(F, q)}
  BY LowHigh
<1> QED
  BY <1>1, <1>2

\* The places of edges are sorted by the ends, then by the face and the local index.
LEMMA BeforeIs ==
    ASSUME NEW F, NEW free, IsInput(F, free), NEW p \in places(F), NEW q \in places(F)
    PROVE  before(F, p, q) <=>
              \/ lo(F, p) < lo(F, q)
              \/ lo(F, p) = lo(F, q) /\ hi(F, p) < hi(F, q)
              \/ lo(F, p) = lo(F, q) /\ hi(F, p) = hi(F, q) /\ p[1] < q[1]
              \/ lo(F, p) = lo(F, q) /\ hi(F, p) = hi(F, q) /\ p[1] = q[1] /\ p[2] < q[2]
<1>1. /\ lo(F, p) \in Int /\ hi(F, p) \in Int /\ p[1] \in Int /\ p[2] \in Int
      /\ lo(F, q) \in Int /\ hi(F, q) \in Int /\ q[1] \in Int /\ q[2] \in Int
  BY LowHigh
<1>2. /\ key(F, p) = <<lo(F, p), hi(F, p), p[1], p[2]>>
      /\ key(F, q) = <<lo(F, q), hi(F, q), q[1], q[2]>>
  BY DEF key, lo, hi
<1>3. before(F, p, q) <=>
         \E k \in 1 .. 4 :
            /\ <<lo(F, p), hi(F, p), p[1], p[2]>>[k] < <<lo(F, q), hi(F, q), q[1], q[2]>>[k]
            /\ \A l \in 1 .. k - 1 : <<lo(F, p), hi(F, p), p[1], p[2]>>[l]
                                        = <<lo(F, q), hi(F, q), q[1], q[2]>>[l]
  BY <1>2 DEF before
<1> QED
  BY ONLY <1>1, <1>3, Lexicographic

\* The order of the edges.
lower(F, q, p) == lo(F, q) < lo(F, p) \/ (lo(F, q) = lo(F, p) /\ hi(F, q) < hi(F, p))
\* So the places before that are of other edges have lower ends.
LEMMA LowerIs ==
    ASSUME NEW F, NEW free, IsInput(F, free), NEW q \in places(F), NEW p \in places(F)
    PROVE  before(F, q, p) /\ local(F, q[1], q[2]) # local(F, p[1], p[2]) <=> lower(F, q, p)
<1>1. local(F, q[1], q[2]) = local(F, p[1], p[2]) <=> lo(F, q) = lo(F, p) /\ hi(F, q) = hi(F, p)
  BY LocalSame
<1>2. before(F, q, p) <=>
              \/ lo(F, q) < lo(F, p)
              \/ lo(F, q) = lo(F, p) /\ hi(F, q) < hi(F, p)
              \/ lo(F, q) = lo(F, p) /\ hi(F, q) = hi(F, p) /\ q[1] < p[1]
              \/ lo(F, q) = lo(F, p) /\ hi(F, q) = hi(F, p) /\ q[1] = p[1] /\ q[2] < p[2]
  BY BeforeIs
<1>3. lo(F, p) \in Nat /\ hi(F, p) \in Nat /\ lo(F, q) \in Nat /\ hi(F, q) \in Nat
  BY LowHigh
<1> QED
  BY ONLY <1>1, <1>2, <1>3 DEF lower

\* Each local edge has a first one of its twins.
LEMMA HeadOf ==
    ASSUME NEW F, NEW free, IsInput(F, free), NEW p \in places(F)
    PROVE  \E h \in heads(F) : local(F, h[1], h[2]) = local(F, p[1], p[2])
<1> DEFINE code(q) == 3 * q[1] + q[2]
           T == twins(F, p)
           K == {n \in Nat : \E q \in T : code(q) = n}
<1>1. \A q \in T : q \in places(F) /\ local(F, q[1], q[2]) = local(F, p[1], p[2]) /\ code(q) \in Nat
  BY LowHigh DEF twins
<1>2. K # {}
  <2>1. p \in T
    BY DEF twins
  <2>2. code(p) \in Nat
    BY <1>1, <2>1
  <2> QED
    BY <2>1, <2>2
<1>3. PICK r \in K : \A s \in K : r <= s
  <2>1. K \in SUBSET Nat
    OBVIOUS
  <2> HIDE DEF K
  <2> QED
    BY <1>2, <2>1, LeastNatural
<1>4. PICK h \in T : code(h) = r
  OBVIOUS
<1>5. \A q \in T : code(h) <= code(q)
  BY <1>1, <1>3, <1>4
<1>6. h \in places(F) /\ local(F, h[1], h[2]) = local(F, p[1], p[2])
  BY <1>1
<1>7. first(F, h)
  <2> SUFFICES ASSUME NEW q \in twins(F, h), before(F, q, h)
               PROVE  FALSE
    BY DEF first
  <2>1. q \in places(F) /\ local(F, q[1], q[2]) = local(F, h[1], h[2])
    BY DEF twins
  <2>2. q \in T
    BY <2>1, <1>6 DEF twins
  <2>3. lo(F, q) = lo(F, h) /\ hi(F, q) = hi(F, h) /\ lo(F, q) \in Nat /\ hi(F, q) \in Nat
    BY <2>1, <1>6, LocalSame, LowHigh
  <2>4. q[1] < h[1] \/ (q[1] = h[1] /\ q[2] < h[2])
    <3>1. before(F, q, h) <=>
              \/ lo(F, q) < lo(F, h)
              \/ lo(F, q) = lo(F, h) /\ hi(F, q) < hi(F, h)
              \/ lo(F, q) = lo(F, h) /\ hi(F, q) = hi(F, h) /\ q[1] < h[1]
              \/ lo(F, q) = lo(F, h) /\ hi(F, q) = hi(F, h) /\ q[1] = h[1] /\ q[2] < h[2]
      BY <2>1, <1>6, BeforeIs
    <3> QED
      BY <2>3, <3>1
  <2>5. /\ q[1] \in Nat /\ q[2] \in Nat /\ q[2] <= 2
        /\ h[1] \in Nat /\ h[2] \in Nat /\ h[2] <= 2
    BY <2>1, <1>6, LowHigh
  <2>6. 3 * h[1] + h[2] <= 3 * q[1] + q[2]
    BY <1>5, <2>2
  <2> QED
    BY ONLY <2>4, <2>5, <2>6
<1> QED
  BY <1>6, <1>7 DEF heads

\* Heads are ordered by their ends.
LEMMA HeadsOrdered ==
    ASSUME NEW F, NEW free, IsInput(F, free)
    PROVE  /\ IsFiniteSet(heads(F))
           /\ Ordered(heads(F), [h \in heads(F) |-> {q \in heads(F) : lower(F, q, h)}])
<1> DEFINE H == heads(F)
           below == [h \in H |-> {q \in H : lower(F, q, h)}]
<1>1. \A h \in H : h \in places(F) /\ first(F, h)
  BY DEF heads
<1>2. IsFiniteSet(H)
  <2>1. IsFiniteSet(0 .. 2)
    <3>1. 0 \in Int /\ 2 \in Int
      OBVIOUS
    <3> QED
      BY <3>1, FS_Interval
  <2>2. IsFiniteSet(places(F))
    BY <2>1, FS_Product DEF IsInput, places, Locals
  <2>3. H \in SUBSET places(F)
    BY <1>1
  <2> HIDE DEF H
  <2> QED
    BY <2>2, <2>3, FS_Subset
<1>3. \A h \in H : lo(F, h) \in Nat /\ hi(F, h) \in Nat
  BY <1>1, LowHigh
<1>4. \A h, q \in H : lo(F, h) = lo(F, q) /\ hi(F, h) = hi(F, q) => h = q
  <2> SUFFICES ASSUME NEW h \in H, NEW q \in H, lo(F, h) = lo(F, q), hi(F, h) = hi(F, q)
               PROVE  h = q
    OBVIOUS
  <2>1. h \in twins(F, q) /\ q \in twins(F, h)
    <3>1. local(F, h[1], h[2]) = local(F, q[1], q[2])
      BY <1>1, LocalSame
    <3> QED
      BY <3>1, <1>1 DEF twins
  <2>2. ~before(F, h, q) /\ ~before(F, q, h)
    BY <2>1, <1>1 DEF first
  <2>3. ~(h[1] < q[1] \/ (h[1] = q[1] /\ h[2] < q[2]))
    BY <2>2, <1>1, BeforeIs
  <2>4. ~(q[1] < h[1] \/ (q[1] = h[1] /\ q[2] < h[2]))
    BY <2>2, <1>1, BeforeIs
  <2>5. /\ h = <<h[1], h[2]>> /\ q = <<q[1], q[2]>>
        /\ h[1] \in Nat /\ h[2] \in Nat /\ q[1] \in Nat /\ q[2] \in Nat
    BY <1>1, LowHigh
  <2>6. h[1] = q[1] /\ h[2] = q[2]
    BY ONLY <2>3, <2>4, <2>5
  <2> QED
    BY <2>5, <2>6
<1>5. below \in [H -> SUBSET H] /\ \A h, q \in H : q \in below[h] <=> lower(F, q, h)
  OBVIOUS
<1> HIDE DEF below, H
<1>6. \A h \in H : h \notin below[h]
  BY <1>3, <1>5 DEF lower
<1>7. ASSUME NEW h \in H, NEW q \in below[h], NEW z \in below[q]
      PROVE  z \in below[h]
  <2>1. q \in H /\ z \in H
    BY <1>5
  <2>2. lower(F, q, h) /\ lower(F, z, q)
    BY <2>1, <1>5
  <2>3. /\ lo(F, h) \in Nat /\ hi(F, h) \in Nat /\ lo(F, q) \in Nat /\ hi(F, q) \in Nat
        /\ lo(F, z) \in Nat /\ hi(F, z) \in Nat
    BY <2>1, <1>3
  <2>4. lower(F, z, h)
    BY ONLY <2>2, <2>3 DEF lower
  <2> QED
    BY <2>1, <2>4, <1>5
<1>8. \A h, q \in H : h = q \/ h \in below[q] \/ q \in below[h]
  <2> SUFFICES ASSUME NEW h \in H, NEW q \in H, h # q
               PROVE  lower(F, h, q) \/ lower(F, q, h)
    BY <1>5
  <2>1. ~(lo(F, h) = lo(F, q) /\ hi(F, h) = hi(F, q))
    BY <1>4
  <2>2. lo(F, h) \in Nat /\ hi(F, h) \in Nat /\ lo(F, q) \in Nat /\ hi(F, q) \in Nat
    BY <1>3
  <2> QED
    BY ONLY <2>1, <2>2 DEF lower
<1>9. Ordered(H, below)
  BY <1>5, <1>6, <1>7, <1>8 DEF Ordered
<1> QED
  BY <1>2, <1>9 DEF below, H

\* An edge has one number, and edges with the same number have the same ends.
Numbered(F) ==
    /\ IsFiniteSet(heads(F)) /\ Cardinality(heads(F)) \in Nat
    /\ \A p \in places(F) : eid(F, p) \in upto(heads(F))
    /\ \A p, q \in places(F) :
          eid(F, p) = eid(F, q) <=> local(F, p[1], p[2]) = local(F, q[1], q[2])
    /\ \A e \in upto(heads(F)) : \E h \in heads(F) : eid(F, h) = e
    /\ \A h \in heads(F) : h \in places(F)
\* eid gives the places of one edge one number, counted from 0 without a gap.
LEMMA EdgeNumbers ==
    ASSUME NEW F, NEW free, IsInput(F, free)
    PROVE  Numbered(F)
<1> DEFINE H == heads(F)
           below == [h \in H |-> {q \in H : lower(F, q, h)}]
           same(p, q) == local(F, p[1], p[2]) = local(F, q[1], q[2])
<1>1. IsFiniteSet(H) /\ Ordered(H, below) /\ Cardinality(H) \in Nat
  BY HeadsOrdered, FS_CardinalityType
<1>2. Ranked(H, below)
  <2> HIDE DEF H, below
  <2> QED
    BY <1>1, Ranks
<1>3. \A h \in H : h \in places(F)
  BY DEF heads
<1>4. \A p \in places(F) : eid(F, p) = Cardinality({q \in H : lower(F, q, p)})
  <2> SUFFICES ASSUME NEW p \in places(F)
               PROVE  eid(F, p) = Cardinality({q \in H : lower(F, q, p)})
    OBVIOUS
  <2>1. \A q \in H : before(F, q, p) /\ local(F, q[1], q[2]) # local(F, p[1], p[2]) <=> lower(F, q, p)
    BY <1>3, LowerIs
  <2>2. {q \in H : before(F, q, p) /\ local(F, q[1], q[2]) # local(F, p[1], p[2])}
            = {q \in H : lower(F, q, p)}
    BY <2>1
  <2> QED
    BY <2>2 DEF eid
<1>5. \A h \in H : eid(F, h) = Cardinality(below[h])
  BY <1>3, <1>4
<1>6. \A p, q \in places(F) : same(p, q) => eid(F, p) = eid(F, q)
  <2> SUFFICES ASSUME NEW p \in places(F), NEW q \in places(F), same(p, q)
               PROVE  eid(F, p) = eid(F, q)
    OBVIOUS
  <2>1. lo(F, p) = lo(F, q) /\ hi(F, p) = hi(F, q)
    BY LocalSame
  <2>2. {x \in H : lower(F, x, p)} = {x \in H : lower(F, x, q)}
    BY <2>1 DEF lower
  <2> QED
    BY <2>2, <1>4
<1> HIDE DEF below, H
<1>7. \A p \in places(F) : \E h \in H : same(h, p) /\ eid(F, p) = eid(F, h)
  BY <1>3, <1>6, HeadOf DEF H
<1>8. \A h, q \in H : eid(F, h) = eid(F, q) => h = q
  BY <1>2, <1>5 DEF Ranked
<1>9. \A p \in places(F) : eid(F, p) \in upto(H)
  <2> TAKE p \in places(F)
  <2>1. PICK h \in H : eid(F, p) = eid(F, h)
    BY <1>7
  <2> QED
    BY <2>1, <1>2, <1>5 DEF Ranked
<1>10. \A p, q \in places(F) : eid(F, p) = eid(F, q) => same(p, q)
  <2> SUFFICES ASSUME NEW p \in places(F), NEW q \in places(F), eid(F, p) = eid(F, q)
               PROVE  same(p, q)
    OBVIOUS
  <2>1. PICK h \in H : same(h, p) /\ eid(F, p) = eid(F, h)
    BY <1>7
  <2>2. PICK x \in H : same(x, q) /\ eid(F, q) = eid(F, x)
    BY <1>7
  <2>3. h = x
    BY <2>1, <2>2, <1>8
  <2> QED
    BY <2>1, <2>2, <2>3
<1>11. \A e \in upto(H) : \E h \in H : eid(F, h) = e
  BY <1>2, <1>5 DEF Ranked
<1> QED
  BY <1>1, <1>3, <1>6, <1>9, <1>10, <1>11 DEF Numbered, H

\* The mesh r that initialize makes of the faces F.
IsInitial(r, F, free) ==
    LET N == DOMAIN F
    IN  /\ Plain(r) /\ r.free = free
        /\ r.cap = [v |-> Cardinality(Corner(F)), e |-> Cardinality(heads(F)), f |-> Cardinality(N)]
        /\ r.fv = F
        /\ r.fe = [f \in N |-> [i \in Locals |-> eid(F, <<f, i>>)]]
        /\ r.ff = [f \in N |-> [i \in Locals |->
                      IF free \/ other(F, <<f, i>>) = {} THEN Null
                      ELSE CHOOSE g \in other(F, <<f, i>>) : TRUE]]
        /\ r.vf = [v \in Corner(F) |-> Max({f \in N : \E i \in Locals : F[f][i] = v})]
        /\ r.ef = [e \in upto(heads(F)) |-> (CHOOSE p \in heads(F) : eid(F, p) = e)[1]]
\* initialize fills the tables as IsInitial says.
LEMMA InitialIs ==
    ASSUME NEW F, NEW free
    PROVE  IsInitial(initialize(F, free), F, free)
<1> DEFINE r == initialize(F, free)
<1>1. r = [free |-> free,
           cap |-> [v |-> Cardinality(Corner(F)), e |-> Cardinality(heads(F)),
                    f |-> Cardinality(DOMAIN F)],
           fv |-> F,
           fe |-> [f \in DOMAIN F |-> [i \in Locals |-> eid(F, <<f, i>>)]],
           ff |-> [f \in DOMAIN F |-> [i \in Locals |->
                      IF free \/ other(F, <<f, i>>) = {} THEN Null
                      ELSE CHOOSE g \in other(F, <<f, i>>) : TRUE]],
           vf |-> [v \in Corner(F) |-> Max({f \in DOMAIN F : \E i \in Locals : F[f][i] = v})],
           ef |-> [e \in upto(heads(F)) |-> (CHOOSE p \in heads(F) : eid(F, p) = e)[1]]]
  BY DEF initialize, Corner, corners, heads, first, eid, other, twins, before, key, local, places, upto
<1> HIDE DEF r
<1>2. IsInitial(r, F, free)
  BY <1>1 DEF IsInitial, Plain, Attributes
<1> QED
  BY <1>2 DEF r

\* Its rows.
InitialRows(r, F, free) ==
    LET N == DOMAIN F
    IN  /\ faces(r) = N /\ vertices(r) = Corner(F) /\ edges(r) = upto(heads(F))
        /\ \A f \in N, i \in Locals :
              /\ r.fe[f][i] \in edges(r) /\ F[f][i] \in Corner(F)
              /\ r.ff[f][i] # Null =>
                    /\ ~free /\ r.ff[f][i] \in N /\ r.ff[f][i] # f
                    /\ \E j \in Locals : r.fe[r.ff[f][i]][j] = r.fe[f][i]
              /\ \A g \in N, j \in Locals :
                    /\ r.fe[f][i] = r.fe[g][j] <=> ends(r, f, i) = ends(r, g, j)
                    /\ r.fe[f][i] = r.fe[g][j] /\ f = g => i = j
                    /\ r.fe[f][i] = r.fe[g][j] /\ f # g /\ ~free => r.ff[f][i] # Null
\* In the rows, edges are the same where their ends are, and the neighbour is the
\* other face with the edge.
LEMMA InitialRowsAre ==
    ASSUME NEW F, NEW free, IsInput(F, free), NEW r, IsInitial(r, F, free)
    PROVE  InitialRows(r, F, free)
<1> DEFINE N == DOMAIN F
<1>1. /\ r.fv = F /\ r.free = free
      /\ r.fe = [f \in N |-> [i \in Locals |-> eid(F, <<f, i>>)]]
      /\ r.ff = [f \in N |-> [i \in Locals |->
                      IF free \/ other(F, <<f, i>>) = {} THEN Null
                      ELSE CHOOSE g \in other(F, <<f, i>>) : TRUE]]
      /\ DOMAIN r.vf = Corner(F) /\ DOMAIN r.ef = upto(heads(F))
  BY DEF IsInitial
<1>2. /\ F \in [N -> [Locals -> Nat]] /\ N = 0 .. Cardinality(N) - 1 /\ Cardinality(N) \in Nat
      /\ \A f \in N : \A i, j \in Locals : F[f][i] = F[f][j] => i = j
  BY DEF IsInput
<1>3. Numbered(F)
  BY EdgeNumbers
<1>4. faces(r) = N /\ vertices(r) = Corner(F) /\ edges(r) = upto(heads(F))
  BY <1>1 DEF faces, vertices, edges
<1>5. \A f \in N, i \in Locals : /\ <<f, i>> \in places(F) /\ r.fe[f][i] = eid(F, <<f, i>>)
                                 /\ local(F, f, i) = ends(r, f, i)
  BY <1>1 DEF places, local, ends
<1>6. \A f \in N, i \in Locals : r.fe[f][i] \in edges(r) /\ F[f][i] \in Corner(F)
  <2> SUFFICES ASSUME NEW f \in N, NEW i \in Locals
               PROVE  r.fe[f][i] \in edges(r) /\ F[f][i] \in Corner(F)
    OBVIOUS
  <2>1. r.fe[f][i] \in edges(r)
    BY <1>3, <1>4, <1>5 DEF Numbered
  <2>2. F[f][i] \in Corner(F)
    BY DEF Corner, corners
  <2> QED
    BY <2>1, <2>2
<1>7. \A f, g \in N, i, j \in Locals : r.fe[f][i] = r.fe[g][j] <=> ends(r, f, i) = ends(r, g, j)
  <2> SUFFICES ASSUME NEW f \in N, NEW g \in N, NEW i \in Locals, NEW j \in Locals
               PROVE  r.fe[f][i] = r.fe[g][j] <=> ends(r, f, i) = ends(r, g, j)
    OBVIOUS
  <2> DEFINE p == <<f, i>>
             q == <<g, j>>
  <2>1. p[1] = f /\ p[2] = i /\ q[1] = g /\ q[2] = j
    OBVIOUS
  <2>2. /\ p \in places(F) /\ q \in places(F) /\ r.fe[f][i] = eid(F, p) /\ r.fe[g][j] = eid(F, q)
        /\ local(F, f, i) = ends(r, f, i) /\ local(F, g, j) = ends(r, g, j)
    BY <1>5
  <2> HIDE DEF p, q
  <2>3. eid(F, p) = eid(F, q) <=> local(F, p[1], p[2]) = local(F, q[1], q[2])
    BY <2>2, <1>3 DEF Numbered
  <2> QED
    BY <2>1, <2>2, <2>3
<1>8. \A f \in N, i, j \in Locals : r.fe[f][i] = r.fe[f][j] => i = j
  <2> SUFFICES ASSUME NEW f \in N, NEW i \in Locals, NEW j \in Locals, r.fe[f][i] = r.fe[f][j], i # j
               PROVE  FALSE
    OBVIOUS
  <2>1. ends(r, f, i) = ends(r, f, j)
    BY <1>7
  <2>2. F[f][j] \in ends(r, f, i)
    BY <1>1 DEF ends
  <2>3. F[f][j] \in ends(r, f, j)
    BY <2>1, <2>2
  <2>4. PICK k \in Locals \ {j} : F[f][k] = F[f][j]
    BY <2>3, <1>1 DEF ends
  <2> QED
    BY <2>4, <1>2
\* The other faces of an edge.
<1>9. \A f, g \in N, i \in Locals :
         g \in other(F, <<f, i>>) <=> g # f /\ \E j \in Locals : r.fe[g][j] = r.fe[f][i]
  <2> SUFFICES ASSUME NEW f \in N, NEW g \in N, NEW i \in Locals
               PROVE  g \in other(F, <<f, i>>) <=> g # f /\ \E j \in Locals : r.fe[g][j] = r.fe[f][i]
    OBVIOUS
  <2>1. \A q : q \in twins(F, <<f, i>>) <=> /\ q \in N \X Locals
                                            /\ local(F, q[1], q[2]) = local(F, f, i)
    BY DEF twins, places
  <2>2. \A j \in Locals : <<g, j>> \in twins(F, <<f, i>>) <=> r.fe[g][j] = r.fe[f][i]
    BY <2>1, <1>5, <1>7
  <2>3. ASSUME g \in other(F, <<f, i>>)
        PROVE  g # f /\ \E j \in Locals : r.fe[g][j] = r.fe[f][i]
    <3>1. PICK q \in twins(F, <<f, i>>) \ {<<f, i>>} : g = q[1]
      BY <2>3 DEF other
    <3>2. q = <<g, q[2]>> /\ q[2] \in Locals
      BY <2>1, <3>1
    <3>3. r.fe[g][q[2]] = r.fe[f][i]
      BY <3>1, <3>2, <2>2
    <3>4. g # f
      BY <3>1, <3>2, <3>3, <1>8
    <3> QED
      BY <3>2, <3>3, <3>4
  <2>4. ASSUME g # f, NEW j \in Locals, r.fe[g][j] = r.fe[f][i]
        PROVE  g \in other(F, <<f, i>>)
    <3>1. <<g, j>> \in twins(F, <<f, i>>) \ {<<f, i>>}
      BY <2>2, <2>4
    <3>2. <<g, j>>[1] = g
      OBVIOUS
    <3> QED
      BY <3>1, <3>2 DEF other
  <2> QED
    BY <2>3, <2>4
<1>10. \A f \in N, i \in Locals : \A g : g \in other(F, <<f, i>>) => g \in N
  BY DEF other, twins, places
<1>11. \A f \in N, i \in Locals :
          /\ (free \/ other(F, <<f, i>>) = {}) => r.ff[f][i] = Null
          /\ ~(free \/ other(F, <<f, i>>) = {}) => r.ff[f][i] \in other(F, <<f, i>>)
  <2> SUFFICES ASSUME NEW f \in N, NEW i \in Locals
               PROVE  /\ (free \/ other(F, <<f, i>>) = {}) => r.ff[f][i] = Null
                      /\ ~(free \/ other(F, <<f, i>>) = {}) => r.ff[f][i] \in other(F, <<f, i>>)
    OBVIOUS
  <2> DEFINE o == other(F, <<f, i>>)
  <2>1. r.ff[f][i] = IF free \/ o = {} THEN Null ELSE CHOOSE g \in o : TRUE
    BY <1>1
  <2> HIDE DEF o
  <2>2. o # {} => (CHOOSE g \in o : TRUE) \in o
    OBVIOUS
  <2>3. /\ (free \/ o = {}) => r.ff[f][i] = Null
        /\ ~(free \/ o = {}) => r.ff[f][i] \in o
    BY <2>1, <2>2
  <2> QED
    BY <2>3 DEF o
<1>12. Null \notin N
  BY <1>2 DEF Null
<1>13. \A f \in N, i \in Locals : r.ff[f][i] # Null =>
          /\ ~free /\ r.ff[f][i] \in N /\ r.ff[f][i] # f
          /\ \E j \in Locals : r.fe[r.ff[f][i]][j] = r.fe[f][i]
  <2> SUFFICES ASSUME NEW f \in N, NEW i \in Locals, r.ff[f][i] # Null
               PROVE  /\ ~free /\ r.ff[f][i] \in N /\ r.ff[f][i] # f
                      /\ \E j \in Locals : r.fe[r.ff[f][i]][j] = r.fe[f][i]
    OBVIOUS
  <2> DEFINE h == r.ff[f][i]
             o == other(F, <<f, i>>)
  <2>1. ~free /\ h \in o
    BY <1>11
  <2>2. \A g \in o : g \in N
    BY <1>10
  <2>3. \A g \in N : g \in o => g # f /\ \E j \in Locals : r.fe[g][j] = r.fe[f][i]
    BY <1>9
  <2> HIDE DEF h, o, N
  <2>4. h \in N
    BY <2>1, <2>2
  <2>5. ~free /\ h \in N /\ h # f /\ \E j \in Locals : r.fe[h][j] = r.fe[f][i]
    BY <2>1, <2>3, <2>4
  <2> QED
    BY <2>5 DEF h
<1>14. \A f, g \in N, i, j \in Locals :
          r.fe[f][i] = r.fe[g][j] /\ f # g /\ ~free => r.ff[f][i] # Null
  <2> SUFFICES ASSUME NEW f \in N, NEW g \in N, NEW i \in Locals, NEW j \in Locals,
                      r.fe[f][i] = r.fe[g][j], f # g, ~free
               PROVE  r.ff[f][i] # Null
    OBVIOUS
  <2> DEFINE h == r.ff[f][i]
             o == other(F, <<f, i>>)
  <2>1. g \in o
    BY <1>9
  <2>2. o # {} => h \in o
    BY <1>11
  <2>3. \A x \in o : x \in N
    BY <1>10
  <2> HIDE DEF h, o, N
  <2>4. h \in N
    BY <2>1, <2>2, <2>3
  <2>5. h # Null
    BY <2>4, <1>12
  <2> QED
    BY <2>5 DEF h
<1> QED
  BY <1>4, <1>6, <1>7, <1>8, <1>13, <1>14 DEF InitialRows

\* The first mesh has the fields, and its tables their types.
LEMMA InitialTyped ==
    ASSUME NEW F, NEW free, IsInput(F, free), NEW r, IsInitial(r, F, free)
    PROVE  Fields(r) /\ Typed(r) /\ Named(r) /\ r.free = free /\ r.cap.v = Cardinality(Corner(F))
<1> DEFINE N == DOMAIN F
<1>1. /\ Plain(r) /\ r.free = free
      /\ r.cap = [v |-> Cardinality(Corner(F)), e |-> Cardinality(heads(F)), f |-> Cardinality(N)]
      /\ r.fv = F
      /\ r.fe = [f \in N |-> [i \in Locals |-> eid(F, <<f, i>>)]]
      /\ r.ff = [f \in N |-> [i \in Locals |->
                      IF free \/ other(F, <<f, i>>) = {} THEN Null
                      ELSE CHOOSE g \in other(F, <<f, i>>) : TRUE]]
      /\ r.vf = [v \in Corner(F) |-> Max({f \in N : \E i \in Locals : F[f][i] = v})]
      /\ r.ef = [e \in upto(heads(F)) |-> (CHOOSE p \in heads(F) : eid(F, p) = e)[1]]
  BY DEF IsInitial
<1>2. /\ F \in [N -> [Locals -> Nat]] /\ N = 0 .. Cardinality(N) - 1 /\ Cardinality(N) \in Nat
      /\ Cardinality(Corner(F)) \in Nat /\ Corner(F) = 0 .. Cardinality(Corner(F)) - 1
      /\ free \in BOOLEAN
  BY DEF IsInput
<1>3. Numbered(F)
  BY EdgeNumbers
<1>4. InitialRows(r, F, free)
  BY InitialRowsAre
<1>5. faces(r) = N /\ vertices(r) = Corner(F) /\ edges(r) = upto(heads(F))
  BY <1>4 DEF InitialRows
<1>6. Cardinality(heads(F)) \in Nat
  BY <1>3 DEF Numbered
<1>7. Fields(r)
  BY <1>1, <1>2, <1>6 DEF Fields
<1>8. /\ vertices(r) \subseteq 0 .. r.cap.v - 1 /\ edges(r) \subseteq 0 .. r.cap.e - 1
      /\ faces(r) \subseteq 0 .. r.cap.f - 1
  BY <1>1, <1>2, <1>5 DEF upto
<1>9. r.fv \in [faces(r) -> [Locals -> vertices(r)]]
  <2>1. \A f \in N, i \in Locals : F[f][i] \in Corner(F)
    BY <1>4 DEF InitialRows
  <2>2. \A f \in N : F[f] \in [Locals -> Nat]
    BY <1>2
  <2>3. \A f \in N : F[f] \in [Locals -> Corner(F)]
    BY <2>1, <2>2
  <2>4. F \in [N -> [Locals -> Corner(F)]]
    BY <2>3, <1>2
  <2> QED
    BY <2>4, <1>1, <1>5
<1>10. r.fe \in [faces(r) -> [Locals -> edges(r)]]
  <2>1. \A f \in N, i \in Locals : r.fe[f][i] \in edges(r)
    BY <1>4 DEF InitialRows
  <2>2. DOMAIN r.fe = N /\ \A f \in N : r.fe[f] = [i \in Locals |-> r.fe[f][i]]
    BY <1>1
  <2>3. r.fe = [f \in N |-> r.fe[f]]
    BY <1>1
  <2>4. \A f \in N : r.fe[f] \in [Locals -> edges(r)]
    BY <2>1, <2>2
  <2> QED
    BY <2>3, <2>4, <1>5
<1>11. r.ff \in [faces(r) -> [Locals -> faces(r) \cup {Null}]]
  <2>1. \A f \in N, i \in Locals : r.ff[f][i] \in N \cup {Null}
    BY <1>4 DEF InitialRows
  <2>2. DOMAIN r.ff = N /\ \A f \in N : r.ff[f] = [i \in Locals |-> r.ff[f][i]]
    BY <1>1
  <2>3. r.ff = [f \in N |-> r.ff[f]]
    BY <1>1
  <2>4. \A f \in N : r.ff[f] \in [Locals -> N \cup {Null}]
    BY <2>1, <2>2
  <2> QED
    BY <2>3, <2>4, <1>5
<1>12. \A v \in Corner(F) : r.vf[v] \in N /\ \E i \in Locals : r.fv[r.vf[v]][i] = v
  <2> SUFFICES ASSUME NEW v \in Corner(F)
               PROVE  r.vf[v] \in N /\ \E i \in Locals : r.fv[r.vf[v]][i] = v
    OBVIOUS
  <2> DEFINE S == {f \in N : \E i \in Locals : F[f][i] = v}
             n == Cardinality(N)
  <2>1. r.vf[v] = Max(S)
    BY <1>1
  <2>2. \E f \in N : \E i \in Locals : F[f][i] = v
    BY DEF Corner, corners
  <2>3. S # {}
    BY <2>2
  <2>4. n \in Nat /\ N = 0 .. n - 1
    BY <1>2
  <2>5. S \subseteq 0 .. n
    <3> HIDE DEF n
    <3> QED
      BY <2>4
  <2>6. Max(S) \in S
    <3> HIDE DEF n, S
    <3> QED
      BY <2>3, <2>4, <2>5, MaxIn
  <2> QED
    BY <2>1, <2>6, <1>1
<1>13. \A e \in edges(r) : r.ef[e] \in N /\ \E i \in Locals : r.fe[r.ef[e]][i] = e
  <2> SUFFICES ASSUME NEW e \in upto(heads(F))
               PROVE  r.ef[e] \in N /\ \E i \in Locals : r.fe[r.ef[e]][i] = e
    BY <1>5
  <2> DEFINE p == CHOOSE q \in heads(F) : eid(F, q) = e
  <2>1. r.ef[e] = p[1]
    BY <1>1
  <2>2. \E h \in heads(F) : eid(F, h) = e
    BY <1>3 DEF Numbered
  <2>3. p \in heads(F) /\ eid(F, p) = e
    BY <2>2
  <2> HIDE DEF p
  <2>4. p \in places(F)
    BY <2>3, <1>3 DEF Numbered
  <2>5. p = <<p[1], p[2]>> /\ p[1] \in N /\ p[2] \in Locals
    BY <2>4 DEF places
  <2>6. r.fe[p[1]][p[2]] = eid(F, <<p[1], p[2]>>)
    BY <2>5, <1>1
  <2>7. eid(F, <<p[1], p[2]>>) = e
    BY <2>3, <2>5
  <2> QED
    BY <2>1, <2>5, <2>6, <2>7
<1>14. r.vf \in [vertices(r) -> faces(r)]
  BY <1>1, <1>5, <1>12
<1>15. r.ef \in [edges(r) -> faces(r)]
  BY <1>1, <1>5, <1>13
<1>16. Typed(r)
  BY <1>8, <1>9, <1>10, <1>11, <1>14, <1>15 DEF Typed
<1>17. Named(r)
  BY <1>5, <1>12, <1>13 DEF Named
<1>18. r.free = free /\ r.cap.v = Cardinality(Corner(F))
  BY <1>1
<1> QED
  BY <1>7, <1>16, <1>17, <1>18

\* initialize makes faces with three corners that agree on edges and neighbours.
LEMMA InitialKeepsSurface ==
    ASSUME NEW F, NEW free, IsInput(F, free), NEW r, IsInitial(r, F, free)
    PROVE  Corners(r) /\ EdgesAgree(r) /\ Mates(r) /\ Across(r)
<1> DEFINE N == DOMAIN F
<1>1. r.fv = F /\ r.free = free
  BY DEF IsInitial
<1>2. /\ \A f \in N : \A i, j \in Locals : F[f][i] = F[f][j] => i = j
      /\ \A f, g \in N : (\A i \in Locals : \E j \in Locals : F[f][i] = F[g][j]) => f = g
      /\ free \in BOOLEAN
  BY DEF IsInput
<1>3. \A f, g, h \in N : \A x, y : x # y /\ x \in corners(F, f) /\ y \in corners(F, f)
              /\ x \in corners(F, g) /\ y \in corners(F, g)
              /\ x \in corners(F, h) /\ y \in corners(F, h) => f = g \/ g = h \/ f = h
  BY DEF IsInput
<1>4. free => \A f, g \in N, i, j \in Locals : F[f][i] = F[g][j] => f = g
  BY DEF IsInput
<1>5. InitialRows(r, F, free)
  BY InitialRowsAre
<1>6. faces(r) = N
  BY <1>5 DEF InitialRows
<1>7. /\ \A f, g \in N, i, j \in Locals :
            /\ r.fe[f][i] = r.fe[g][j] <=> ends(r, f, i) = ends(r, g, j)
            /\ r.fe[f][i] = r.fe[g][j] /\ f = g => i = j
            /\ r.fe[f][i] = r.fe[g][j] /\ f # g /\ ~free => r.ff[f][i] # Null
      /\ \A f \in N, i \in Locals : r.ff[f][i] # Null =>
            /\ ~free /\ r.ff[f][i] \in N /\ r.ff[f][i] # f
            /\ \E j \in Locals : r.fe[r.ff[f][i]][j] = r.fe[f][i]
  BY <1>5 DEF InitialRows
<1>8. Corners(r)
  BY <1>1, <1>2, <1>6 DEF Corners
<1>9. EdgesAgree(r)
  BY <1>6, <1>7 DEF EdgesAgree
<1>10. Across(r)
  BY <1>1, <1>6, <1>7 DEF Across
<1>11. \A f \in N, i \in Locals : \E x, y : x # y /\ ends(r, f, i) = {x, y}
  <2> SUFFICES ASSUME NEW f \in N, NEW i \in Locals
               PROVE  \E x, y : x # y /\ ends(r, f, i) = {x, y}
    OBVIOUS
  <2>1. PICK j, k \in Locals : j # k /\ j # i /\ k # i
    BY OtherLocals
  <2>2. ends(r, f, i) = {r.fv[f][j], r.fv[f][k]}
    BY <2>1, EndsPair
  <2>3. r.fv[f][j] # r.fv[f][k]
    BY <2>1, <1>1, <1>2
  <2> QED
    BY <2>2, <2>3
<1>12. \A f \in N, i \in Locals : \A x \in ends(r, f, i) : x \in corners(F, f)
  BY <1>1 DEF ends, corners
<1>13. Mates(r)
  <2> SUFFICES ASSUME NEW f \in N, NEW g \in N, NEW i \in Locals, NEW j \in Locals,
                      r.fe[f][i] = r.fe[g][j], f # g
               PROVE  ~free /\ r.ff[f][i] = g
    BY <1>1, <1>6, <1>7 DEF Mates
  <2>1. ends(r, f, i) = ends(r, g, j)
    BY <1>7
  <2>2. PICK x, y : x # y /\ ends(r, f, i) = {x, y}
    BY <1>11
  <2>3. x \in corners(F, f) /\ y \in corners(F, f) /\ x \in corners(F, g) /\ y \in corners(F, g)
    BY <2>1, <2>2, <1>12
  <2>4. ~free
    <3>1. PICK k \in Locals, l \in Locals : F[f][k] = x /\ F[g][l] = x
      BY <2>3 DEF corners
    <3> QED
      BY <3>1, <1>4
  <2> DEFINE h == r.ff[f][i]
  <2>5. h # Null
    BY <2>4, <1>7
  <2>6. h \in N /\ h # f /\ \E l \in Locals : r.fe[h][l] = r.fe[f][i]
    BY <2>5, <1>7
  <2> HIDE DEF h
  <2>7. PICK l \in Locals : r.fe[h][l] = r.fe[f][i]
    BY <2>6
  <2>8. ends(r, h, l) = ends(r, f, i)
    BY <2>6, <2>7, <1>7
  <2>9. x \in corners(F, h) /\ y \in corners(F, h)
    BY <2>2, <2>6, <2>8, <1>12
  <2>10. h = g
    BY <2>2, <2>3, <2>6, <2>9, <1>3
  <2> QED
    BY <2>4, <2>10 DEF h
<1> QED
  BY <1>8, <1>9, <1>10, <1>13

\* initialize makes vertices whose faces are connected around them, since the input
\* has such vertices.
LEMMA InitialKeepsStars ==
    ASSUME NEW F, NEW free, IsInput(F, free), NEW r, IsInitial(r, F, free),
           Corners(r), EdgesAgree(r), Mates(r)
    PROVE  Stars(r)
<1> DEFINE N == DOMAIN F
<1>1. r.fv = F /\ r.free = free
  BY DEF IsInitial
<1>2. InitialRows(r, F, free)
  BY InitialRowsAre
<1>3. faces(r) = N /\ vertices(r) = Corner(F)
  BY <1>2 DEF InitialRows
<1>4. \A v : star(r, v) = around(F, v)
  BY <1>1, <1>3 DEF star, around, corners
<1>5. \A v \in Corner(F) : \A S \in SUBSET around(F, v) :
              S # {} /\ S # around(F, v) =>
                 \E f \in S, g \in around(F, v) \ S : \E x :
                    x # v /\ x \in corners(F, f) /\ x \in corners(F, g)
  BY DEF IsInput
<1>6. N = 0 .. Cardinality(N) - 1 /\ Cardinality(N) \in Nat
  BY DEF IsInput
<1>7. Null \notin N
  BY <1>6 DEF Null
<1>8. SUFFICES ASSUME NEW v \in Corner(F), NEW S \in SUBSET around(F, v), S # {}, Closed(r, v, S),
                      S # around(F, v)
               PROVE  FALSE
  BY <1>3, <1>4 DEF Stars
<1>9. PICK f \in S, g \in around(F, v) \ S : \E x :
         x # v /\ x \in corners(F, f) /\ x \in corners(F, g)
  BY <1>5, <1>8
<1>10. PICK x : x # v /\ x \in corners(F, f) /\ x \in corners(F, g)
  BY <1>9
<1>11. f \in N /\ g \in N /\ f # g /\ v \in corners(F, f) /\ v \in corners(F, g)
  BY <1>9 DEF around
<1>12. PICK a \in Locals, b \in Locals : F[f][a] = v /\ F[f][b] = x
  BY <1>10, <1>11 DEF corners
<1>13. PICK c \in Locals, d \in Locals : F[g][c] = v /\ F[g][d] = x
  BY <1>10, <1>11 DEF corners
<1>14. PICK k \in Locals : k # a /\ k # b
  BY <1>10, <1>12, Between
<1>15. PICK l \in Locals : l # c /\ l # d
  BY <1>10, <1>13, Between
<1>16. ends(r, f, k) = {v, x}
  BY <1>1, <1>10, <1>12, <1>14, EndsPair
<1>17. ends(r, g, l) = {v, x}
  BY <1>1, <1>10, <1>13, <1>15, EndsPair
<1>18. r.fe[f][k] = r.fe[g][l]
  <2>1. f \in faces(r) /\ g \in faces(r) /\ ends(r, f, k) = ends(r, g, l)
    BY ONLY <1>3, <1>11, <1>16, <1>17
  <2>2. \A x1, x2 \in faces(r), i, j \in Locals :
           ends(r, x1, i) = ends(r, x2, j) => r.fe[x1][i] = r.fe[x2][j]
    BY DEF EdgesAgree
  <2> QED
    BY ONLY <2>1, <2>2, k \in Locals, l \in Locals
<1>19. r.ff[f][k] = g
  BY <1>3, <1>11, <1>18 DEF Mates
<1>20. r.fv[f][k] # v
  BY <1>1, <1>3, <1>11, <1>12, <1>14 DEF Corners
<1>21. r.ff[f][k] # Null
  BY <1>7, <1>11, <1>19
<1>22. g \in S
  BY <1>8, <1>19, <1>20, <1>21 DEF Closed
<1> QED
  BY <1>9, <1>22

\* initialize makes a surface of the faces of an input.
LEMMA InitialKeepsManifold ==
    ASSUME NEW in \in Inputs
    PROVE  LET r == initialize(in.F, in.free)
           IN  Manifold(r) /\ r.free = in.free /\ r.cap.v = Cardinality(Corner(in.F))
<1> DEFINE F == in.F
           free == in.free
           r == initialize(F, free)
<1>1. IsInput(F, free)
  BY InputFacts
<1>2. IsInitial(r, F, free)
  BY InitialIs
<1> HIDE DEF F, free, r
<1>3. Fields(r) /\ Typed(r) /\ Named(r) /\ r.free = free /\ r.cap.v = Cardinality(Corner(F))
  BY <1>1, <1>2, InitialTyped
<1>4. Corners(r) /\ EdgesAgree(r) /\ Mates(r) /\ Across(r)
  BY <1>1, <1>2, InitialKeepsSurface
<1>5. Stars(r)
  BY <1>1, <1>2, <1>4, InitialKeepsStars
<1>6. Manifold(r)
  BY <1>3, <1>4, <1>5 DEF Manifold
<1> QED
  BY <1>3, <1>6 DEF F, free, r

-----------------------------------------------------------------------------
(* The invariant.                                                          *)

\* Manifold is about the tables, but for the ranges of the ids.
LEMMA OtherCapacities ==
    ASSUME NEW m, Manifold(m), NEW c \in [v : Nat, e : Nat, f : Nat],
           c.v >= m.cap.v, c.e >= m.cap.e, c.f >= m.cap.f,
           NEW r, r = [m EXCEPT !.cap = c]
    PROVE  Manifold(r) /\ r.free = m.free /\ r.cap = c
<1>1. Fields(m) /\ Typed(m)
  BY DEF Manifold
<1>2. m = [a \in Attributes |-> m[a]] /\ m.cap \in [v : Nat, e : Nat, f : Nat] /\ m.free \in BOOLEAN
  BY <1>1 DEF Fields, Plain
<1>3. /\ r = [a \in Attributes |-> r[a]] /\ r.cap = c
      /\ r.free = m.free /\ r.fv = m.fv /\ r.fe = m.fe /\ r.ff = m.ff /\ r.vf = m.vf /\ r.ef = m.ef
  BY ONLY <1>2, r = [m EXCEPT !.cap = c] DEF Attributes
<1>4. vertices(r) = vertices(m) /\ edges(r) = edges(m) /\ faces(r) = faces(m)
  BY <1>3 DEF vertices, edges, faces
<1>5. Fields(r)
  BY <1>2, <1>3 DEF Fields, Plain
<1>6. /\ vertices(r) \subseteq 0 .. r.cap.v - 1 /\ edges(r) \subseteq 0 .. r.cap.e - 1
      /\ faces(r) \subseteq 0 .. r.cap.f - 1
  <2>1. /\ m.cap.v \in Nat /\ m.cap.e \in Nat /\ m.cap.f \in Nat
        /\ c.v \in Nat /\ c.e \in Nat /\ c.f \in Nat
    BY <1>2
  <2>2. /\ vertices(m) \subseteq 0 .. m.cap.v - 1 /\ edges(m) \subseteq 0 .. m.cap.e - 1
        /\ faces(m) \subseteq 0 .. m.cap.f - 1
    BY <1>1 DEF Typed
  <2>3. \A a, b \in Nat : a <= b => 0 .. a - 1 \subseteq 0 .. b - 1
    OBVIOUS
  <2>4. /\ 0 .. m.cap.v - 1 \subseteq 0 .. c.v - 1 /\ 0 .. m.cap.e - 1 \subseteq 0 .. c.e - 1
        /\ 0 .. m.cap.f - 1 \subseteq 0 .. c.f - 1
    BY <2>1, <2>3
  <2> QED
    BY ONLY <1>3, <1>4, <2>2, <2>4
<1>7. Typed(r)
  BY ONLY <1>1, <1>3, <1>4, <1>6 DEF Typed
<1>8. Corners(r) /\ Named(r)
  BY ONLY <1>3, <1>4, Manifold(m) DEF Manifold, Corners, Named
<1>9. \A f, k : ends(r, f, k) = ends(m, f, k)
  BY <1>3 DEF ends
<1>10. EdgesAgree(r)
  BY ONLY <1>3, <1>4, <1>9, Manifold(m) DEF Manifold, EdgesAgree
<1>11. Mates(r) /\ Across(r)
  BY ONLY SMTT(20), <1>3, <1>4, Manifold(m) DEF Manifold, Mates, Across
<1>12. \A v : star(r, v) = star(m, v) /\ \A S : Closed(r, v, S) <=> Closed(m, v, S)
  BY ONLY <1>3, <1>4 DEF star, Closed
<1>13. Stars(r)
  BY ONLY <1>4, <1>12, Manifold(m) DEF Manifold, Stars
<1> QED
  BY <1>3, <1>5, <1>7, <1>8, <1>10, <1>11, <1>13 DEF Manifold

\* The ids that a refused split leaves behind are no simplices.
LEMMA RequestedKeepsManifold ==
    ASSUME NEW m, Manifold(m), NEW t \in Tuples(m)
    PROVE  LET r == [m EXCEPT !.cap = requested(m, t)]
           IN  Manifold(r) /\ r.free = m.free
               /\ r.cap.v = m.cap.v + (IF m.free THEN 3 ELSE 1)
<1> DEFINE c == requested(m, t)
           n == Len(Fan(m, t))
           cv == m.cap.v
           ce == m.cap.e
           cf == m.cap.f
           r == [m EXCEPT !.cap = c]
<1>1. m.cap \in [v : Nat, e : Nat, f : Nat] /\ cv \in Nat /\ ce \in Nat /\ cf \in Nat
  BY DEF Manifold, Fields
<1>2. n \in {1, 2}
  BY Incident DEF IsFan
<1>3. c = [v |-> cv + (IF m.free THEN 3 ELSE 1),
           e |-> ce + (IF m.free THEN 4 ELSE 2 + n), f |-> cf + 2 * n]
  BY DEF requested, Fan
<1> HIDE DEF c, n
<1>4. /\ c.v = cv + (IF m.free THEN 3 ELSE 1) /\ c.v >= cv /\ c.e >= ce /\ c.f >= cf
      /\ c \in [v : Nat, e : Nat, f : Nat]
  <2> HIDE DEF cv, ce, cf
  <2> QED
    BY ONLY <1>1, <1>2, <1>3
<1>5. Manifold(r) /\ r.free = m.free /\ r.cap = c
  BY <1>4, OtherCapacities
<1> QED
  BY <1>4, <1>5 DEF c

\* Every initial mesh is Manifold.
LEMMA InvInit == Init => Inv
<1> SUFFICES ASSUME NEW in \in Inputs, mesh = initialize(in.F, in.free), splits = in.splits
             PROVE  Inv
  BY DEF Init
<1>1. Manifold(mesh) /\ mesh.free = in.free /\ mesh.cap.v = Cardinality(Corner(in.F))
  BY InitialKeepsManifold
<1>2. /\ in.splits \in Nat
      /\ Cardinality(Corner(in.F)) + (IF in.free THEN 3 ELSE 1) * in.splits <= MaxVertices
  BY InputFacts
<1> QED
  BY <1>1, <1>2 DEF Inv

\* Splits, done or refused, keep the invariant.
LEMMA SplitInv ==
    ASSUME Inv, NEW t \in Tuples(mesh), NEW accepted \in BOOLEAN, split(t, accepted)
    PROVE  Inv'
<1> DEFINE k == IF mesh.free THEN 3 ELSE 1
           r == IF accepted THEN split_edge(mesh, t) ELSE [mesh EXCEPT !.cap = requested(mesh, t)]
<1>1. /\ Manifold(mesh) /\ splits \in Nat /\ splits > 0 /\ splits' = splits - 1 /\ mesh' = r
      /\ mesh.cap.v + k * splits <= MaxVertices
  BY DEF Inv, split
<1>2. Manifold(r) /\ r.free = mesh.free /\ r.cap.v = mesh.cap.v + k
  BY <1>1, SplitKeepsManifold, RequestedKeepsManifold
<1>3. mesh.cap.v \in Nat /\ k \in Nat /\ mesh.cap.v + k + k * (splits - 1) <= MaxVertices
  <2> DEFINE c == mesh.cap.v
  <2>1. c \in Nat /\ (k = 3 \/ k = 1)
    BY <1>1 DEF Manifold, Fields
  <2> HIDE DEF c, k
  <2>2. k \in Nat /\ k * splits = k + k * (splits - 1)
    BY <1>1, <2>1
  <2>3. c + k * splits <= MaxVertices
    BY <1>1 DEF c
  <2>4. k * (splits - 1) \in Nat
    BY <1>1, <2>1
  <2>5. c + k + k * (splits - 1) = c + (k + k * (splits - 1))
    BY <2>1, <2>2, <2>4
  <2> QED
    BY <2>1, <2>2, <2>3, <2>5 DEF c
<1> HIDE DEF r
<1>4. mesh'.cap.v + (IF mesh'.free THEN 3 ELSE 1) * splits' <= MaxVertices
  BY <1>1, <1>2, <1>3
<1>5. Manifold(mesh')
  BY <1>1, <1>2
<1>6. splits' \in Nat
  BY <1>1
<1> QED
  BY <1>4, <1>5, <1>6 DEF Inv

\* Collapses, done or refused, keep the invariant.
LEMMA CollapseInv ==
    ASSUME Inv, NEW t \in Tuples(mesh), NEW accepted \in BOOLEAN, collapse(t, accepted)
    PROVE  Inv'
<1> DEFINE r == collapse_edge(mesh, t)
<1>1. /\ Manifold(mesh) /\ (mesh.free \/ link_condition(mesh, t))
      /\ mesh' = (IF accepted THEN r ELSE mesh) /\ splits' = splits
  BY DEF Inv, collapse
<1>2. Manifold(r) /\ r.free = mesh.free /\ r.cap = mesh.cap
  BY <1>1, CollapseKeepsManifold
<1> HIDE DEF r
<1>3. Manifold(mesh') /\ mesh'.free = mesh.free /\ mesh'.cap = mesh.cap
  BY <1>1, <1>2
<1> QED
  BY <1>1, <1>3 DEF Inv

\* consolidate keeps the invariant.
LEMMA ConsolidateInv == Inv /\ consolidate => Inv'
<1> SUFFICES ASSUME Inv, consolidate
             PROVE  Inv'
  OBVIOUS
<1> DEFINE k == IF mesh.free THEN 3 ELSE 1
<1>1. /\ Manifold(mesh) /\ mesh' = consolidated(mesh) /\ splits' = splits /\ splits \in Nat
      /\ mesh.cap.v + k * splits <= MaxVertices
  BY DEF Inv, consolidate
<1>2. Manifold(mesh') /\ mesh'.free = mesh.free /\ mesh'.cap.v <= mesh.cap.v
  BY <1>1, ConsolidatedKeepsManifold
<1>3. mesh'.cap.v + k * splits <= MaxVertices
  <2>1. mesh.cap.v \in Nat /\ mesh'.cap.v \in Nat
    BY <1>1, <1>2 DEF Manifold, Fields
  <2>2. k * splits \in Nat
    BY <1>1
  <2> DEFINE a == mesh.cap.v
             b == mesh'.cap.v
             n == k * splits
  <2>3. a \in Nat /\ b \in Nat /\ n \in Nat /\ b <= a /\ a + n <= MaxVertices
    BY <1>1, <1>2, <2>1, <2>2
  <2> HIDE DEF a, b, n
  <2>4. b + n <= MaxVertices
    BY <2>3, MaxVerticesAssumption
  <2> QED
    BY <2>4 DEF b, n
<1>4. splits' \in Nat /\ mesh'.cap.v + (IF mesh'.free THEN 3 ELSE 1) * splits' <= MaxVertices
  BY <1>1, <1>2, <1>3
<1> QED
  BY <1>2, <1>4 DEF Inv

\* The mesh is a surface in every state: after an initialize, a split, a
\* collapse that the link condition lets pass, a refused operation and a
\* consolidate, in any order, no face, edge or vertex is left with tables that
\* are not those of the triangles, and no vertex is pinched.
THEOREM AlwaysManifold == Spec => []Inv
<1>1. Inv /\ [Next]_vars => Inv'
  <2> SUFFICES ASSUME Inv, [Next]_vars
               PROVE  Inv'
    OBVIOUS
  <2>1. CASE consolidate
    BY <2>1, ConsolidateInv
  <2>2. ASSUME NEW t \in Tuples(mesh), NEW accepted \in BOOLEAN, split(t, accepted)
        PROVE  Inv'
    BY <2>2, SplitInv
  <2>3. ASSUME NEW t \in Tuples(mesh), NEW accepted \in BOOLEAN, collapse(t, accepted)
        PROVE  Inv'
    BY <2>3, CollapseInv
  <2>4. CASE UNCHANGED vars
    BY <2>4 DEF Inv, vars
  <2> QED
    BY <2>1, <2>2, <2>3, <2>4 DEF Next
<1> QED
  BY InvInit, <1>1, PTL DEF Spec

-----------------------------------------------------------------------------
(* What the runs check.                                                    *)

\* A manifold has the type of the mesh.
LEMMA InvTypeOK == Inv => TypeOK
<1> SUFFICES ASSUME Inv
             PROVE  TypeOK
  OBVIOUS
<1>1. Typed(mesh) /\ Fields(mesh) /\ splits \in Nat
      /\ mesh.cap.v + (IF mesh.free THEN 3 ELSE 1) * splits <= MaxVertices
  BY DEF Inv, Manifold
<1>2. mesh.cap.v <= MaxVertices
  <2> DEFINE a == mesh.cap.v
             n == (IF mesh.free THEN 3 ELSE 1) * splits
  <2>1. a \in Nat /\ n \in Nat /\ a + n <= MaxVertices
    BY <1>1 DEF Fields
  <2> HIDE DEF a, n
  <2>2. a <= MaxVertices
    BY <2>1, MaxVerticesAssumption
  <2> QED
    BY <2>2 DEF a
<1> QED
  BY <1>1, <1>2 DEF Typed, TypeOK

\* A manifold passes is_connectivity_valid.
LEMMA InvConnectivityValid == Inv => is_connectivity_valid
<1> SUFFICES ASSUME Inv
             PROVE  is_connectivity_valid
  OBVIOUS
<1> DEFINE m == mesh
<1>1. Manifold(m)
  BY DEF Inv
<1>2. Typed(m) /\ Named(m) /\ Mates(m)
  BY <1>1 DEF Manifold
<1> HIDE DEF m
<1>3. \A f \in faces(m), j \in Locals : m.fe[f][j] \in edges(m) /\ m.fv[f][j] \in vertices(m)
  BY <1>2 DEF Typed
<1>4. /\ \A e \in edges(m) : \E j \in Locals : m.fe[m.ef[e]][j] = e
      /\ \A v \in vertices(m) : \E j \in Locals : m.fv[m.vf[v]][j] = v
  BY <1>2 DEF Named
<1>5. ASSUME NEW f \in faces(m), NEW j \in Locals, m.ff[f][j] = Null
      PROVE  m.ef[m.fe[f][j]] = f
  <2> DEFINE e == m.fe[f][j]
             g == m.ef[e]
  <2>1. e \in edges(m) /\ g \in faces(m)
    BY <1>2, <1>3 DEF Typed
  <2>2. PICK k \in Locals : m.fe[g][k] = e
    BY <1>4, <2>1
  <2>3. Null \notin faces(m)
    BY <1>2 DEF Typed, Null
  <2>4. f = g \/ m.ff[f][j] = g
    BY <1>2, <2>1, <2>2 DEF Mates
  <2> QED
    BY <1>5, <2>1, <2>3, <2>4
<1>6. ASSUME NEW f \in faces(m), NEW j \in Locals, NEW g, g = m.ff[f][j], g # Null
      PROVE  Cardinality({k \in Locals : m.ff[g][k] = f /\ m.fe[g][k] = m.fe[f][j]}) = 1
  <2> DEFINE S == {k \in Locals : m.ff[g][k] = f /\ m.fe[g][k] = m.fe[f][j]}
  <2>1. g \in faces(m) /\ \E k \in Locals : m.fe[g][k] = m.fe[f][j] /\ m.ff[g][k] = f
    BY <1>1, <1>6, MateOf
  <2>2. PICK k \in Locals : m.fe[g][k] = m.fe[f][j] /\ m.ff[g][k] = f
    BY <2>1
  <2>3. \A l \in Locals : m.fe[g][l] = m.fe[g][k] => l = k
    BY <1>1, <2>1, EdgeOnce
  <2>4. S = {k}
    BY <2>2, <2>3
  <2> HIDE DEF S
  <2>5. Cardinality(S) = 1
    BY <2>4, FS_Singleton
  <2> QED
    BY <2>5 DEF S
<1>7. \A f \in faces(m), j \in Locals :
         LET g == m.ff[f][j]
         IN  IF g = Null THEN m.ef[m.fe[f][j]] = f
             ELSE g # f => Cardinality({k \in Locals : /\ m.ff[g][k] = f
                                             /\ m.fe[g][k] = m.fe[f][j]}) = 1
  BY <1>5, <1>6
<1> QED
  BY <1>3, <1>4, <1>7 DEF is_connectivity_valid, m

\* In a manifold the five tables agree.
LEMMA InvTablesAgree == Inv => TablesAgree
<1> SUFFICES ASSUME Inv
             PROVE  TablesAgree
  OBVIOUS
<1> DEFINE m == mesh
           sides == faces(m) \X Locals
           others(p) == {q \in sides \ {p} : ends(m, q[1], q[2]) = ends(m, p[1], p[2])}
<1>1. Manifold(m)
  BY DEF Inv
<1>2. Typed(m) /\ Named(m) /\ Mates(m) /\ EdgesAgree(m) /\ Across(m)
  BY <1>1 DEF Manifold
<1>3. TablesAgree <=>
        /\ \A p, q \in sides : m.fe[p[1]][p[2]] = m.fe[q[1]][q[2]]
                                <=> ends(m, p[1], p[2]) = ends(m, q[1], q[2])
        /\ \A p \in sides : IF m.free THEN others(p) = {} /\ m.ff[p[1]][p[2]] = Null
                            ELSE {q[1] : q \in others(p)} = {m.ff[p[1]][p[2]]} \ {Null}
        /\ edges(m) = {m.fe[p[1]][p[2]] : p \in sides}
        /\ vertices(m) = {m.fv[p[1]][p[2]] : p \in sides}
  BY DEF TablesAgree, ends
<1> HIDE DEF m
<1>4. \A p \in sides : p = <<p[1], p[2]>> /\ p[1] \in faces(m) /\ p[2] \in Locals
  OBVIOUS
<1>5. \A p, q \in sides : m.fe[p[1]][p[2]] = m.fe[q[1]][q[2]]
                                <=> ends(m, p[1], p[2]) = ends(m, q[1], q[2])
  BY <1>2, <1>4 DEF EdgesAgree
<1>6. \A p \in sides : \A q \in others(p) : ~m.free /\ m.ff[p[1]][p[2]] = q[1]
  <2> SUFFICES ASSUME NEW p \in sides, NEW q \in others(p)
               PROVE  ~m.free /\ m.ff[p[1]][p[2]] = q[1]
    OBVIOUS
  <2>1. q \in sides /\ q # p /\ m.fe[p[1]][p[2]] = m.fe[q[1]][q[2]]
    BY <1>5
  <2>2. ~(p[1] = q[1] /\ p[2] = q[2])
    BY <1>4, <2>1
  <2>3. /\ p[1] \in faces(m) /\ p[2] \in Locals /\ q[1] \in faces(m) /\ q[2] \in Locals
    BY <1>4, <2>1
  <2> QED
    BY <1>2, <2>1, <2>2, <2>3 DEF Mates
<1>7. \A p \in sides : m.ff[p[1]][p[2]] # Null =>
         ~m.free /\ \E q \in others(p) : q[1] = m.ff[p[1]][p[2]]
  <2> SUFFICES ASSUME NEW p \in sides, m.ff[p[1]][p[2]] # Null
               PROVE  ~m.free /\ \E q \in others(p) : q[1] = m.ff[p[1]][p[2]]
    OBVIOUS
  <2> DEFINE f == p[1]
             i == p[2]
             g == m.ff[f][i]
  <2>1. p = <<f, i>> /\ f \in faces(m) /\ i \in Locals /\ g # Null
    BY <1>4
  <2>2. /\ ~m.free /\ g \in faces(m) /\ g # f
        /\ \E j \in Locals : m.fe[g][j] = m.fe[f][i]
    BY <1>1, <2>1, MateOf
  <2> HIDE DEF f, i, g
  <2>3. PICK j \in Locals : m.fe[g][j] = m.fe[f][i]
    BY <2>2
  <2> DEFINE q == <<g, j>>
  <2>4. q \in sides /\ q[1] = g /\ q[2] = j /\ q # p
    BY <2>1, <2>2
  <2>5. p[1] = f /\ p[2] = i
    BY <2>1
  <2> HIDE DEF q
  <2>6. ends(m, q[1], q[2]) = ends(m, p[1], p[2])
    BY <1>5, <2>3, <2>4, <2>5
  <2>7. q \in others(p)
    BY <2>4, <2>6
  <2>8. g = m.ff[p[1]][p[2]]
    BY <2>5 DEF g
  <2> QED
    BY <2>2, <2>4, <2>7, <2>8
<1>8. ASSUME NEW p \in sides
      PROVE  IF m.free THEN others(p) = {} /\ m.ff[p[1]][p[2]] = Null
             ELSE {q[1] : q \in others(p)} = {m.ff[p[1]][p[2]]} \ {Null}
  <2> DEFINE o == others(p)
             g == m.ff[p[1]][p[2]]
  <2>1. \A q \in o : ~m.free /\ g = q[1]
    BY <1>6
  <2>2. g # Null => ~m.free /\ \E q \in o : q[1] = g
    BY <1>7
  <2>3. \A q \in o : q[1] \in faces(m)
    BY <1>4
  <2>4. Null \notin faces(m)
    BY <1>2 DEF Typed, Null
  <2> HIDE DEF o, g
  <2>5. IF m.free THEN o = {} /\ g = Null ELSE {q[1] : q \in o} = {g} \ {Null}
    BY <2>1, <2>2, <2>3, <2>4
  <2> QED
    BY <2>5 DEF o, g
<1>9. edges(m) = {m.fe[p[1]][p[2]] : p \in sides}
  <2>1. \A p \in sides : m.fe[p[1]][p[2]] \in edges(m)
    BY <1>2, <1>4 DEF Typed
  <2>2. ASSUME NEW e \in edges(m)
        PROVE  \E p \in sides : e = m.fe[p[1]][p[2]]
    <3>1. PICK k \in Locals : m.fe[m.ef[e]][k] = e
      BY <1>2 DEF Named
    <3>2. m.ef[e] \in faces(m)
      BY <1>2 DEF Typed
    <3>3. <<m.ef[e], k>> \in sides /\ <<m.ef[e], k>>[1] = m.ef[e] /\ <<m.ef[e], k>>[2] = k
      BY <3>2
    <3> QED
      BY <3>1, <3>3
  <2> QED
    BY <2>1, <2>2
<1>10. vertices(m) = {m.fv[p[1]][p[2]] : p \in sides}
  <2>1. \A p \in sides : m.fv[p[1]][p[2]] \in vertices(m)
    BY <1>2, <1>4 DEF Typed
  <2>2. ASSUME NEW v \in vertices(m)
        PROVE  \E p \in sides : v = m.fv[p[1]][p[2]]
    <3>1. PICK k \in Locals : m.fv[m.vf[v]][k] = v
      BY <1>2 DEF Named
    <3>2. m.vf[v] \in faces(m)
      BY <1>2 DEF Typed
    <3>3. <<m.vf[v], k>> \in sides /\ <<m.vf[v], k>>[1] = m.vf[v] /\ <<m.vf[v], k>>[2] = k
      BY <3>2
    <3> QED
      BY <3>1, <3>3
  <2> QED
    BY <2>1, <2>2
<1> QED
  BY <1>3, <1>5, <1>8, <1>9, <1>10

\* In a manifold the faces of a vertex are reached from the face that it names.
LEMMA InvStarsReachable == Inv => StarsReachable
<1> SUFFICES ASSUME Inv, NEW v \in vertices(mesh)
             PROVE  LET f == mesh.vf[v]
                        i == index(mesh.fv[f], v)
                    IN  f \in faces(mesh) /\
                        top_dimension_cofaces_vertex(mesh, [v |-> i, e |-> (i + 1) % 3, f |-> f])
                            = {g \in faces(mesh) : \E k \in Locals : mesh.fv[g][k] = v}
  BY DEF StarsReachable
<1> DEFINE m == mesh
           f == m.vf[v]
           i == index(m.fv[f], v)
           t == [v |-> i, e |-> (i + 1) % 3, f |-> f]
<1>1. Manifold(m)
  BY DEF Inv
<1>2. Typed(m) /\ Named(m) /\ Corners(m)
  BY <1>1 DEF Manifold
<1>3. v \in vertices(m)
  OBVIOUS
<1> HIDE DEF m
<1>4. f \in faces(m)
  BY <1>2, <1>3 DEF Typed
<1>5. PICK k \in Locals : m.fv[f][k] = v
  BY <1>2, <1>3 DEF Named
<1>6. \A j \in Locals : m.fv[f][j] = v => j = k
  BY <1>2, <1>4, <1>5 DEF Corners
<1>7. i = k
  BY <1>5, <1>6, IndexIs
<1> HIDE DEF f, i
<1>8. (i + 1) % 3 \in Locals /\ (i + 1) % 3 # i
  BY <1>7 DEF Locals
<1>9. t \in Tuples(m)
  BY <1>4, <1>7, <1>8 DEF Tuples
<1>10. id_vertex(m, t) = v
  BY <1>5, <1>7 DEF id_vertex
<1> HIDE DEF t
<1>11. top_dimension_cofaces_vertex(m, t) = star(m, v)
  BY <1>1, <1>9, <1>10, CofacesAreStar
<1> QED
  BY <1>4, <1>11 DEF t, f, i, m, star

-----------------------------------------------------------------------------
(* The tuples that the operations return.                                  *)

\* tuple_from_global_ids finds the tuple of a vertex and an edge at it.
LEMMA TupleOfIds ==
    ASSUME NEW m, Manifold(m), NEW f \in faces(m), NEW i \in Locals, NEW k \in Locals, i # k,
           NEW v, m.fv[f][i] = v, NEW e, m.fe[f][k] = e,
           NEW o, o = tuple_from_global_ids(m, f, e, v)
    PROVE  /\ o = [v |-> i, e |-> k, f |-> f] /\ o \in Tuples(m)
           /\ id_vertex(m, o) = v /\ id_edge(m, o) = e
<1>1. index(m.fv[f], v) = i
  <2>1. \A j \in Locals : m.fv[f][j] = v => j = i
    BY DEF Manifold, Corners
  <2> QED
    BY <2>1, IndexIs
<1>2. index(m.fe[f], e) = k
  <2>1. \A j \in Locals : m.fe[f][j] = e => j = k
    BY EdgeOnce
  <2> QED
    BY <2>1, IndexIs
<1>3. o = [v |-> i, e |-> k, f |-> f]
  BY <1>1, <1>2 DEF tuple_from_global_ids
<1>4. o.v = i /\ o.e = k /\ o.f = f /\ o \in Tuples(m)
  BY <1>3 DEF Tuples
<1> QED
  BY <1>3, <1>4 DEF id_vertex, id_edge

\* The tuple that a split returns.
LEMMA SplitOutput ==
    ASSUME NEW m, Manifold(m), NEW t \in Tuples(m)
    PROVE  LET r == split_edge(m, t)
               o == split_output(m, t)
           IN  /\ o \in Tuples(r)
               /\ id_vertex(r, o) = r.cap.v - 1
               /\ id_vertex(r, switch_vertex(o)) = spine_vid(m, t, 1)
<1> DEFINE r == split_edge(m, t)
           o == split_output(m, t)
           p == split_f(m, 1, 1)
           x == IF m.free THEN free_split_v(m, 1) ELSE split_new_vid(m)
           s == split_spine_eid(m, 1)
<1>1. SplitTables(r, m, t)
  BY SplitEdgeIs
<1>2. Manifold(r) /\ r.cap.v = m.cap.v + (IF m.free THEN 3 ELSE 1)
  BY SplitKeepsManifold
<1>3. o = tuple_from_global_ids(r, p, s, x)
  BY DEF split_output
<1> HIDE DEF r, o
<1>4. IsFan(m, t, Fan(m, t))
  BY Incident
<1>5. Fan(m, t)[1] = t /\ 1 \in 1 .. Len(Fan(m, t)) /\ 1 \in Sides
  BY <1>4 DEF IsFan, Sides
<1>6. AtHalf(r, m, 1, 1, t,
             IF Len(Fan(m, t)) = 1 THEN Null ELSE split_f(m, 3 - 1, 1))
  <2> DEFINE U == Fan(m, t)
  <2>1. \A i \in 1 .. Len(U), j \in Sides :
           AtHalf(r, m, i, j, U[i], IF ~TRUE THEN m.ff[U[i].f][U[i].e]
                          ELSE IF Len(U) = 1 THEN Null ELSE split_f(m, 3 - i, j))
    BY <1>1 DEF SplitTables, SplitRows
  <2> QED
    BY <1>5, <2>1
<1>7. /\ t.v \in Locals /\ t.e \in Locals /\ third(t) \in Locals /\ t.f \in faces(m)
      /\ t.v # t.e /\ third(t) # t.v /\ third(t) # t.e /\ pos(t, 0) = t.v /\ pos(t, 1) = third(t)
  BY ThreeLocals, Places DEF Tuples
<1>8. r.fv[p][t.v] = x /\ r.fe[p][t.e] = s /\ r.fv[p][third(t)] = m.fv[t.f][third(t)]
  BY <1>6, <1>7 DEF AtHalf
<1>9. p \in faces(r)
  <2>1. p \in Nat
    BY NewIds DEF Sides, Manifold
  <2>2. p \in Halves(m, t)
    BY <1>5, <2>1 DEF Halves
  <2> QED
    BY <1>1, <2>2 DEF SplitTables
<1>10. spine_vid(m, t, 1) = m.fv[t.f][third(t)]
  BY <1>5, <1>7, SpineEnds
<1>11. x = r.cap.v - 1
  <2>1. m.cap.v \in Nat
    BY DEF Manifold, Fields
  <2> QED
    BY <1>2, <2>1 DEF free_split_v, split_new_vid
<1> HIDE DEF p, x, s
<1>12. /\ o = [v |-> t.v, e |-> t.e, f |-> p] /\ o \in Tuples(r) /\ id_vertex(r, o) = x
  BY <1>2, <1>3, <1>7, <1>8, <1>9, TupleOfIds
<1>13. id_vertex(r, switch_vertex(o)) = r.fv[p][third(t)]
  <2>1. third(o) = third(t)
    BY <1>12 DEF third
  <2>2. switch_vertex(o).v = third(t) /\ switch_vertex(o).f = p
    BY <1>12, <2>1 DEF switch_vertex
  <2> QED
    BY <2>2 DEF id_vertex
<1> QED
  BY <1>8, <1>10, <1>11, <1>12, <1>13 DEF r, o

\* After a collapse a face behind an ear has the end that stays, at the ear.
LEMMA MergedPlaces ==
    ASSUME NEW m, Manifold(m), NEW t, NEW r, NEW U, IsCollapse(r, m, t, U), Manifold(r),
           NEW i \in 1 .. Len(U), NEW j \in Sides, behind(m, U[i], j) # Null
    PROVE  LET g == behind(m, U[i], j)
           IN  /\ g \in faces(r)
               /\ \E k, l \in Locals : /\ k # l /\ r.fe[g][k] = ear(m, U[i], 1)
                                       /\ r.fv[g][l] = spine_vid(m, t, 1)
<1> DEFINE g == behind(m, U[i], j)
           k == glue(m, U[i], j)
           b == spine_vid(m, t, 1)
           a == spine_vid(m, t, 0)
<1>1. /\ g \in faces(r) /\ k \in Locals /\ m.fe[g][k] = ear(m, U[i], j)
  BY BehindStays
<1>2. Has(r, g, b)
  BY MergedFace
<1>3. t \in Tuples(m) /\ U = Fan(m, t) /\ r.fv[g][k] = merge(m, t, m.fv[g][k])
  BY <1>1 DEF IsCollapse
<1> HIDE DEF g, k
<1>4. g \in faces(m) /\ r.fe[g][k] = ear(m, U[i], 1)
  BY <1>1, EarPlaces
<1>5. ends(m, g, k) = {spine_vid(m, t, j), opp(m, U[i])}
  BY <1>1, <1>3, <1>4, Opps
<1>6. \A x \in ends(m, g, k) : x # m.fv[g][k] /\ Has(m, g, x)
  BY <1>1, <1>4 DEF Manifold, Corners, ends, Has
<1>7. Has(m, g, m.fv[g][k])
  BY <1>1 DEF Has
<1>8. ~(Has(m, g, a) /\ Has(m, g, b)) /\ a # b
  BY <1>1, CollapseHas
<1>9. r.fv[g][k] # b
  <2>1. spine_vid(m, t, j) # m.fv[g][k] /\ Has(m, g, spine_vid(m, t, j))
    BY <1>5, <1>6
  <2>2. m.fv[g][k] # a /\ m.fv[g][k] # b
    BY <1>7, <1>8, <2>1 DEF Sides
  <2> QED
    BY <1>3, <2>2 DEF merge
<1>10. PICK l \in Locals : r.fv[g][l] = b
  BY <1>2 DEF Has
<1>11. l # k
  BY <1>9, <1>10
<1> QED
  BY <1>1, <1>4, <1>10, <1>11 DEF g

\* The tuple that a collapse returns is in the mesh, at the vertex that stays.
LEMMA CollapseOutput ==
    ASSUME NEW m, Manifold(m), ~m.free, NEW t \in Tuples(m), link_condition(m, t)
    PROVE  LET r == collapse_edge(m, t)
               o == collapse_output(m, t)
           IN  o \in Tuples(r) /\ id_vertex(r, o) = spine_vid(m, t, 1)
<1> DEFINE r == collapse_edge(m, t)
           o == collapse_output(m, t)
           e == ear(m, t, 1)
           b == spine_vid(m, t, 1)
           z == merged(m, t)
           at == tuple_from_global_ids(r, r.ef[e], e, b)
<1>1. CollapseTables(r, m, t)
  BY CollapseEdgeIs
<1>2. Manifold(r) /\ r.free = m.free
  BY CollapseKeepsManifold
<1>3. LinkHolds(m, t)
  BY LinkFacts
<1>4. IsCollapse(r, m, t, Fan(m, t))
  BY <1>1, <1>3, CollapseFacts
<1>5. Fan(m, t)[1] = t /\ 1 \in 1 .. Len(Fan(m, t))
  BY Incident DEF IsFan
<1>6. o = IF at.f # z THEN switch_face(r, at) ELSE at
  <2> DEFINE d == incident_face_datas(m, t)[1]
  <2>1. d = get_incident_face_data(m, t)
    BY <1>5, FanData
  <2>2. /\ d.ears[0] = Ear(m, t, 0) /\ d.ears[1] = Ear(m, t, 1)
    BY <2>1, FaceData
  <2>3. d.ears[0].f = behind(m, t, 0) /\ d.ears[1].f = behind(m, t, 1) /\ d.ears[1].e = e
    BY <2>2 DEF Ear, behind, ear
  <2>4. (behind(m, t, 0) < 0) <=> behind(m, t, 0) = Null
    <3>1. behind(m, t, 0) \in faces(m) \cup {Null}
      BY <1>5, EarFaces DEF IsEar, Sides
    <3>2. faces(m) \subseteq Nat
      BY Rows DEF Manifold
    <3> QED
      BY <3>1, <3>2 DEF Null
  <2>5. merged_edge_fid(d) = z
    BY <2>3, <2>4 DEF merged_edge_fid, merged
  <2> QED
    BY <2>3, <2>5 DEF collapse_output
<1> HIDE DEF r, o, e, z
<1>7. behind(m, t, 0) # Null \/ behind(m, t, 1) # Null
  BY <1>3, <1>5 DEF LinkHolds
<1>8. \E j \in Sides : r.ef[e] = behind(m, t, j) /\ behind(m, t, j) # Null
  <2>1. r.ef[e] = IF behind(m, t, 1) = Null THEN behind(m, t, 0) ELSE behind(m, t, 1)
    BY <1>1, <1>5 DEF CollapseTables, e
  <2> QED
    BY <1>7, <2>1 DEF Sides
<1>9. \E j \in Sides : z = behind(m, t, j) /\ behind(m, t, j) # Null
  BY <1>7 DEF merged, Sides, z
<1>10. \A j \in Sides : behind(m, t, j) # Null =>
          /\ behind(m, t, j) \in faces(r)
          /\ \E k, l \in Locals : /\ k # l /\ r.fe[behind(m, t, j)][k] = e
                                  /\ r.fv[behind(m, t, j)][l] = b
  BY <1>2, <1>4, <1>5, MergedPlaces DEF e
<1>11. PICK y : y = r.ef[e] /\ y \in faces(r)
                /\ \E k, l \in Locals : k # l /\ r.fe[y][k] = e /\ r.fv[y][l] = b
  BY <1>8, <1>10
<1>12. PICK k \in Locals, l \in Locals : k # l /\ r.fe[y][k] = e /\ r.fv[y][l] = b
  BY <1>11
<1>13. at \in Tuples(r) /\ at = [v |-> l, e |-> k, f |-> y] /\ id_vertex(r, at) = b
  BY <1>2, <1>11, <1>12, TupleOfIds
<1> HIDE DEF at
<1>14. CASE at.f = z
  BY <1>6, <1>13, <1>14 DEF r, o
<1>15. CASE at.f # z
  <2>1. at.f = y /\ at.e = k
    BY <1>13
  <2>2. z \in faces(r) /\ \E n \in Locals : r.fe[z][n] = e
    BY <1>9, <1>10
  <2>3. r.ff[y][k] = z
    BY <1>2, <1>11, <1>12, <1>15, <2>1, <2>2 DEF Manifold, Mates
  <2>4. r.ff[at.f][at.e] # Null
    <3>1. Null \notin faces(r)
      BY <1>2, Rows DEF Manifold
    <3> QED
      BY <2>1, <2>2, <2>3, <3>1
  <2>5. /\ switch_face(r, at) \in Tuples(r)
        /\ id_vertex(r, switch_face(r, at)) = id_vertex(r, at)
    BY <1>2, <1>13, <2>4, SwitchFace
  <2> QED
    BY <1>6, <1>13, <1>15, <2>5 DEF r, o
<1> QED
  BY <1>14, <1>15

\* The output that is computed in a manifold is in the mesh.
LEMMA InvOutputNavigable == Inv => OutputNavigable
<1> SUFFICES ASSUME Inv
             PROVE  OutputNavigable
  OBVIOUS
<1>1. Manifold(mesh)
  BY DEF Inv
<1>2. \A t \in Tuples(mesh) : splits > 0 =>
         LET m == split_edge(mesh, t)
             o == split_output(mesh, t)
         IN  /\ o \in Tuples(m)
             /\ id_vertex(m, o) = m.cap.v - 1
             /\ id_vertex(m, switch_vertex(o)) = spine_vid(mesh, t, 1)
  BY <1>1, SplitOutput
<1>3. \A t \in Tuples(mesh) : ~mesh.free /\ link_condition(mesh, t) =>
         LET m == collapse_edge(mesh, t)
             o == collapse_output(mesh, t)
         IN  o \in Tuples(m) /\ id_vertex(m, o) = spine_vid(mesh, t, 1)
  BY <1>1, CollapseOutput
<1> QED
  BY <1>2, <1>3 DEF OutputNavigable

-----------------------------------------------------------------------------
(* The surface that the tables represent, and its boundary.                *)

tri(m, f) == {m.fv[f][k] : k \in Locals}

\* The darts of a face, from each of its local vertices.
LEMMA DartsOf ==
    ASSUME NEW m
    PROVE  /\ \A f \in faces(m), i \in Locals :
                 <<m.fv[f][i], m.fv[f][(i + 1) % 3], m.fv[f][(i + 2) % 3]>> \in darts_of(m)
           /\ \A d \in darts_of(m) : \E f \in faces(m), i \in Locals :
                 d = <<m.fv[f][i], m.fv[f][(i + 1) % 3], m.fv[f][(i + 2) % 3]>>
<1>1. ASSUME NEW f \in faces(m), NEW i \in Locals
      PROVE  <<m.fv[f][i], m.fv[f][(i + 1) % 3], m.fv[f][(i + 2) % 3]>> \in darts_of(m)
  <2> DEFINE p == <<f, i>>
  <2>1. p \in faces(m) \X Locals /\ p[1] = f /\ p[2] = i
    OBVIOUS
  <2> HIDE DEF p
  <2>2. <<m.fv[p[1]][p[2]], m.fv[p[1]][(p[2] + 1) % 3], m.fv[p[1]][(p[2] + 2) % 3]>> \in darts_of(m)
    BY <2>1 DEF darts_of
  <2> QED
    BY <2>1, <2>2
<1>2. ASSUME NEW d \in darts_of(m)
      PROVE  \E f \in faces(m), i \in Locals :
                 d = <<m.fv[f][i], m.fv[f][(i + 1) % 3], m.fv[f][(i + 2) % 3]>>
  <2>1. PICK p \in faces(m) \X Locals :
           d = <<m.fv[p[1]][p[2]], m.fv[p[1]][(p[2] + 1) % 3], m.fv[p[1]][(p[2] + 2) % 3]>>
    BY DEF darts_of
  <2>2. p[1] \in faces(m) /\ p[2] \in Locals
    OBVIOUS
  <2> QED
    BY <2>1, <2>2
<1> QED
  BY <1>1, <1>2

\* Turning a local index.
LEMMA Turn ==
    \A i \in Locals : /\ (i + 1) % 3 \in Locals /\ (i + 2) % 3 \in Locals
                      /\ i # (i + 1) % 3 /\ i # (i + 2) % 3 /\ (i + 1) % 3 # (i + 2) % 3
                      /\ Locals = {i, (i + 1) % 3, (i + 2) % 3}
<1> SUFFICES ASSUME NEW i \in Locals
             PROVE  /\ (i + 1) % 3 \in Locals /\ (i + 2) % 3 \in Locals
                      /\ i # (i + 1) % 3 /\ i # (i + 2) % 3 /\ (i + 1) % 3 # (i + 2) % 3
                      /\ Locals = {i, (i + 1) % 3, (i + 2) % 3}
  OBVIOUS
<1>1. i = 0 \/ i = 1 \/ i = 2
  BY DEF Locals
<1>2. CASE i = 0
  <2>1. (i + 1) % 3 = 1 /\ (i + 2) % 3 = 2
    BY <1>2
  <2> QED
    BY <1>2, <2>1 DEF Locals
<1>3. CASE i = 1
  <2>1. (i + 1) % 3 = 2 /\ (i + 2) % 3 = 0
    BY <1>3
  <2> QED
    BY <1>3, <2>1 DEF Locals
<1>4. CASE i = 2
  <2>1. (i + 1) % 3 = 0 /\ (i + 2) % 3 = 1
    BY <1>4
  <2> QED
    BY <1>4, <2>1 DEF Locals
<1> QED
  BY <1>1, <1>2, <1>3, <1>4

\* The triangles of the surface are the corner sets of the faces.
LEMMA TrianglesAre ==
    ASSUME NEW m
    PROVE  \A T : T \in Surface!Triangles(darts_of(m)) <=> \E f \in faces(m) : T = tri(m, f)
<1>1. \A f \in faces(m), i \in Locals :
         {m.fv[f][i], m.fv[f][(i + 1) % 3], m.fv[f][(i + 2) % 3]} = tri(m, f)
  <2> SUFFICES ASSUME NEW f \in faces(m), NEW i \in Locals
               PROVE  {m.fv[f][i], m.fv[f][(i + 1) % 3], m.fv[f][(i + 2) % 3]} = tri(m, f)
    OBVIOUS
  <2> DEFINE j == (i + 1) % 3
             k == (i + 2) % 3
  <2>1. Locals = {i, j, k}
    BY Turn
  <2> HIDE DEF j, k
  <2>2. {m.fv[f][i], m.fv[f][j], m.fv[f][k]} = tri(m, f)
    BY <2>1 DEF tri
  <2> QED
    BY <2>2 DEF j, k
<1>2. \A d : Surface!corners(d) = {d[1], d[2], d[3]}
  BY DEF Surface!corners
<1>3. \A a, b, c : Surface!corners(<<a, b, c>>) = {a, b, c}
  <2> SUFFICES ASSUME NEW a, NEW b, NEW c
               PROVE  Surface!corners(<<a, b, c>>) = {a, b, c}
    OBVIOUS
  <2>1. <<a, b, c>>[1] = a /\ <<a, b, c>>[2] = b /\ <<a, b, c>>[3] = c
    OBVIOUS
  <2> QED
    BY <2>1, <1>2
<1>4. ASSUME NEW f \in faces(m)
      PROVE  tri(m, f) \in Surface!Triangles(darts_of(m))
  <2>1. 0 \in Locals
    BY DEF Locals
  <2>2. PICK d : d \in darts_of(m) /\ d = <<m.fv[f][0], m.fv[f][(0 + 1) % 3], m.fv[f][(0 + 2) % 3]>>
    BY <2>1, DartsOf
  <2>3. Surface!corners(d) = {m.fv[f][0], m.fv[f][(0 + 1) % 3], m.fv[f][(0 + 2) % 3]}
    BY ONLY <2>2, <1>3
  <2>4. {m.fv[f][0], m.fv[f][(0 + 1) % 3], m.fv[f][(0 + 2) % 3]} = tri(m, f)
    BY ONLY <2>1, <1>1, f \in faces(m)
  <2> QED
    BY <2>2, <2>3, <2>4 DEF Surface!Triangles
<1>5. ASSUME NEW T \in Surface!Triangles(darts_of(m))
      PROVE  \E f \in faces(m) : T = tri(m, f)
  <2>1. PICK d \in darts_of(m) : T = Surface!corners(d)
    BY DEF Surface!Triangles
  <2>2. PICK f \in faces(m), i \in Locals :
           d = <<m.fv[f][i], m.fv[f][(i + 1) % 3], m.fv[f][(i + 2) % 3]>>
    BY DartsOf
  <2>3. Surface!corners(d) = {m.fv[f][i], m.fv[f][(i + 1) % 3], m.fv[f][(i + 2) % 3]}
    BY ONLY <2>2, <1>3
  <2>4. {m.fv[f][i], m.fv[f][(i + 1) % 3], m.fv[f][(i + 2) % 3]} = tri(m, f)
    BY ONLY <1>1, f \in faces(m), i \in Locals
  <2> QED
    BY <2>1, <2>3, <2>4
<1> QED
  BY <1>4, <1>5

\* The edges of the surface are the end sets of the edges of the faces.
LEMMA EdgesAre ==
    ASSUME NEW m
    PROVE  \A e : e \in Surface!Edges(darts_of(m)) <=>
                     \E f \in faces(m), k \in Locals : e = ends(m, f, k)
<1>1. \A f \in faces(m), i \in Locals :
         {m.fv[f][i], m.fv[f][(i + 1) % 3]} = ends(m, f, (i + 2) % 3)
  <2> SUFFICES ASSUME NEW f \in faces(m), NEW i \in Locals
               PROVE  {m.fv[f][i], m.fv[f][(i + 1) % 3]} = ends(m, f, (i + 2) % 3)
    OBVIOUS
  <2>1. /\ (i + 1) % 3 \in Locals /\ (i + 2) % 3 \in Locals
        /\ i # (i + 1) % 3 /\ i # (i + 2) % 3 /\ (i + 1) % 3 # (i + 2) % 3
    BY Turn
  <2> QED
    BY <2>1, EndsPair
<1>2. \A k \in Locals : \E i \in Locals : k = (i + 2) % 3
  <2> SUFFICES ASSUME NEW k \in Locals
               PROVE  \E i \in Locals : k = (i + 2) % 3
    OBVIOUS
  <2>1. 0 \in Locals /\ 1 \in Locals /\ 2 \in Locals /\ (k = 0 \/ k = 1 \/ k = 2)
    BY DEF Locals
  <2>2. (0 + 2) % 3 = 2 /\ (1 + 2) % 3 = 0 /\ (2 + 2) % 3 = 1
    OBVIOUS
  <2> QED
    BY <2>1, <2>2
<1>3. \A a, b, c : <<a, b, c>>[1] = a /\ <<a, b, c>>[2] = b
  OBVIOUS
<1>4. ASSUME NEW f \in faces(m), NEW k \in Locals
      PROVE  ends(m, f, k) \in Surface!Edges(darts_of(m))
  <2>1. PICK i \in Locals : k = (i + 2) % 3
    BY <1>2
  <2>2. PICK d : d \in darts_of(m) /\ d = <<m.fv[f][i], m.fv[f][(i + 1) % 3], m.fv[f][(i + 2) % 3]>>
    BY DartsOf
  <2>3. {d[1], d[2]} = ends(m, f, k)
    BY <1>1, <1>3, <2>1, <2>2
  <2> QED
    BY <2>2, <2>3 DEF Surface!Edges
<1>5. ASSUME NEW e \in Surface!Edges(darts_of(m))
      PROVE  \E f \in faces(m), k \in Locals : e = ends(m, f, k)
  <2>1. PICK d \in darts_of(m) : e = {d[1], d[2]}
    BY DEF Surface!Edges
  <2>2. PICK f \in faces(m), i \in Locals :
           d = <<m.fv[f][i], m.fv[f][(i + 1) % 3], m.fv[f][(i + 2) % 3]>>
    BY DartsOf
  <2>3. e = ends(m, f, (i + 2) % 3)
    BY <1>1, <1>3, <2>1, <2>2
  <2> QED
    BY <2>3, Turn
<1> QED
  BY <1>4, <1>5

\* The faces of an edge are the face and what is across it.
LEMMA FacesOfEdge ==
    ASSUME NEW m, Manifold(m), NEW f \in faces(m), NEW k \in Locals, NEW h \in faces(m),
           ends(m, f, k) \subseteq tri(m, h)
    PROVE  h = f \/ (h = m.ff[f][k] /\ \E l \in Locals : m.fe[h][l] = m.fe[f][k])
<1>0. /\ Corners(m) /\ EdgesAgree(m) /\ Mates(m)
  BY DEF Manifold
<1>1. PICK i, j \in Locals : i # j /\ i # k /\ j # k
  BY OtherLocals
<1>2. ends(m, f, k) = {m.fv[f][i], m.fv[f][j]} /\ m.fv[f][i] # m.fv[f][j]
  BY <1>0, <1>1, EndsPair DEF Corners
<1>3. PICK p \in Locals, q \in Locals : m.fv[h][p] = m.fv[f][i] /\ m.fv[h][q] = m.fv[f][j]
  BY <1>2 DEF tri
<1>4. PICK l \in Locals : l # p /\ l # q
  BY <1>2, <1>3, Between
<1>5. ends(m, h, l) = {m.fv[f][i], m.fv[f][j]}
  BY <1>2, <1>3, <1>4, EndsPair
<1>6. ends(m, f, k) = ends(m, h, l)
  BY <1>2, <1>5
<1>7. m.fe[f][k] = m.fe[h][l]
  <2>1. \A x, y \in faces(m), a, b \in Locals : ends(m, x, a) = ends(m, y, b) => m.fe[x][a] = m.fe[y][b]
    BY <1>0 DEF EdgesAgree
  <2> QED
    BY ONLY <1>6, <2>1, f \in faces(m), h \in faces(m), k \in Locals, l \in Locals
<1> QED
  BY <1>0, <1>7 DEF Mates

\* Both modules count the same.
LEMMA SameCardinality == \A S : Surface!Cardinality(S) = Cardinality(S)
BY DEF Surface!Cardinality, Cardinality

\* A set of two is finite.
LEMMA PairFinite ==
    ASSUME NEW a, NEW b
    PROVE  IsFiniteSet({a, b})
<1> DEFINE A == {a}
<1>1. IsFiniteSet(A)
  BY FS_Singleton
<1> HIDE DEF A
<1>2. IsFiniteSet(A \cup {b})
  BY <1>1, FS_AddElement
<1>3. A \cup {b} = {a, b}
  BY DEF A
<1> QED
  BY <1>2, <1>3

\* The boundary edges are those with nothing across them.
LEMMA BoundaryIs ==
    ASSUME NEW m, Manifold(m)
    PROVE  \A e : e \in Surface!Boundary(darts_of(m)) <=>
              \E f \in faces(m), k \in Locals : e = ends(m, f, k) /\ m.ff[f][k] = Null
<1> DEFINE D == darts_of(m)
           on(e) == {T \in Surface!Triangles(D) : e \subseteq T}
<1>0. Null \notin faces(m) /\ Corners(m)
  BY Rows DEF Manifold
<1>1. \A e : e \in Surface!Boundary(D) <=> e \in Surface!Edges(D) /\ Cardinality(on(e)) = 1
  BY SameCardinality DEF Surface!Boundary
<1>2. \A f \in faces(m), k \in Locals : ends(m, f, k) \subseteq tri(m, f)
  BY DEF ends, tri
<1>3. ASSUME NEW f \in faces(m), NEW k \in Locals
      PROVE  Cardinality(on(ends(m, f, k))) = 1 <=> m.ff[f][k] = Null
  <2> DEFINE e == ends(m, f, k)
             S == on(e)
             g == m.ff[f][k]
  <2>1. \A T : T \in S <=> \E h \in faces(m) : T = tri(m, h) /\ e \subseteq tri(m, h)
    BY TrianglesAre
  <2>2. tri(m, f) \in S
    BY <1>2, <2>1
  <2>3. \A h \in faces(m) : e \subseteq tri(m, h) => h = f \/ h = g
    BY FacesOfEdge
  <2>4. CASE g = Null
    <3>1. \A T \in S : T = tri(m, f)
      BY <2>1, <2>3, <2>4, <1>0
    <3>2. S = {tri(m, f)}
      BY <2>2, <3>1
    <3> HIDE DEF S
    <3>3. Cardinality(S) = 1
      BY <3>2, FS_Singleton
    <3> QED
      BY <2>4, <3>3 DEF S
  <2>5. CASE g # Null
    <3>1. PICK j \in Locals : g \in faces(m) /\ g # f /\ m.fe[g][j] = m.fe[f][k]
      BY <2>5, MateOf
    <3>2. ends(m, g, j) = e
      BY <3>1 DEF Manifold, EdgesAgree
    <3>3. tri(m, g) \in S
      BY <1>2, <2>1, <3>1, <3>2
    <3>4. tri(m, g) # tri(m, f)
      <4>1. SUFFICES ASSUME tri(m, g) = tri(m, f)
                     PROVE  FALSE
        OBVIOUS
      <4>2. \A i \in Locals : \E l \in Locals : m.fv[g][i] = m.fv[f][l]
        BY <4>1 DEF tri
      <4> QED
        BY <4>2, <1>0, <3>1 DEF Corners
    <3> HIDE DEF S
    <3>5. Cardinality(S) # 1
      <4>1. SUFFICES ASSUME Cardinality(S) = 1
                     PROVE  FALSE
        OBVIOUS
      <4>2. S \subseteq {tri(m, f), tri(m, g)}
        BY <2>1, <2>3
      <4>3. IsFiniteSet({tri(m, f), tri(m, g)})
        BY PairFinite
      <4>4. IsFiniteSet(S)
        BY <4>2, <4>3, FS_Subset
      <4>5. PICK x : S = {x}
        BY <4>1, <4>4, FS_Singleton
      <4> QED
        BY <2>2, <3>3, <3>4, <4>5
    <3> QED
      BY <2>5, <3>5 DEF S
  <2> QED
    BY <2>4, <2>5
<1> HIDE DEF on, D
<1>4. \A e : e \in Surface!Edges(D) <=> \E f \in faces(m), k \in Locals : e = ends(m, f, k)
  BY EdgesAre DEF D
<1>5. ASSUME NEW e
      PROVE  e \in Surface!Boundary(D) <=>
                \E f \in faces(m), k \in Locals : e = ends(m, f, k) /\ m.ff[f][k] = Null
  BY <1>1, <1>3, <1>4
<1> QED
  BY <1>5 DEF D

-----------------------------------------------------------------------------
(* link_condition decides the link condition of the surface, coned.        *)

Coned(m) == Surface!Triangles(darts_of(m)) \cup
                {e \cup {Surface!Apex} : e \in Surface!Boundary(darts_of(m))}
ConeLink(m, s) == {r \in UNION {SUBSET (t \ s) : t \in {u \in Coned(m) : s \subseteq u}} : r # {}}
\* The link condition of the surface, by the links in its cone.
LEMMA LinkConditionIs ==
    ASSUME NEW m, NEW a, NEW b
    PROVE  Surface!LinkCondition(darts_of(m), a, b) <=>
              ConeLink(m, {a}) \cap ConeLink(m, {b}) = ConeLink(m, {a, b})
BY DEF Surface!LinkCondition, ConeLink, Coned

\* A member of a link in the cone.
LEMMA ConeMember ==
    ASSUME NEW m, NEW s, NEW r
    PROVE  r \in ConeLink(m, s) <=> r # {} /\ \E u \in Coned(m) : s \subseteq u /\ r \subseteq u \ s
BY DEF ConeLink

\* What is in the cone of the boundary edge at the local edge k of f.
OnBoundary(m, e) == \E f \in faces(m), k \in Locals : e = ends(m, f, k) /\ m.ff[f][k] = Null
\* The cone has the triangles, and one more for each boundary edge.
LEMMA ConedIs ==
    ASSUME NEW m, Manifold(m)
    PROVE  /\ \A u : u \in Coned(m) <=> \/ \E f \in faces(m) : u = tri(m, f)
                                        \/ \E e : OnBoundary(m, e) /\ u = e \cup {Null}
           /\ \A e : OnBoundary(m, e) => Null \notin e /\ \E f \in faces(m) : e \subseteq tri(m, f)
           /\ \A f \in faces(m) : Null \notin tri(m, f) /\ \A x : x \in tri(m, f) <=> Has(m, f, x)
<1>1. \A T : T \in Surface!Triangles(darts_of(m)) <=> \E f \in faces(m) : T = tri(m, f)
  BY TrianglesAre
<1>2. \A e : e \in Surface!Boundary(darts_of(m)) <=> OnBoundary(m, e)
  BY BoundaryIs DEF OnBoundary
<1>3. Surface!Apex = Null
  BY DEF Surface!Apex, Null
<1>4. \A u : u \in Coned(m) <=> \/ \E f \in faces(m) : u = tri(m, f)
                                \/ \E e : OnBoundary(m, e) /\ u = e \cup {Null}
  BY <1>1, <1>2, <1>3 DEF Coned
<1>5. \A f \in faces(m) : Null \notin tri(m, f) /\ \A x : x \in tri(m, f) <=> Has(m, f, x)
  <2>1. \A f \in faces(m), k \in Locals : m.fv[f][k] # Null
    BY Rows DEF Manifold
  <2> QED
    BY <2>1 DEF tri, Has
<1>6. \A e : OnBoundary(m, e) => Null \notin e /\ \E f \in faces(m) : e \subseteq tri(m, f)
  <2>1. \A f \in faces(m), k \in Locals : ends(m, f, k) \subseteq tri(m, f)
    BY DEF ends, tri
  <2> QED
    BY <1>5, <2>1 DEF OnBoundary
<1> QED
  BY <1>4, <1>5, <1>6

\* Without the apex these are the links in the mesh.
InLink(m, X, r) ==
    r # {} /\ \E f \in faces(m) : /\ \A x \in X : Has(m, f, x)
                                  /\ \A x \in r : x \notin X /\ Has(m, f, x)
\* Without the apex these are the links in the mesh.
LEMMA ConePlain ==
    ASSUME NEW m, Manifold(m), NEW X, Null \notin X, NEW r, Null \notin r
    PROVE  r \in ConeLink(m, X) <=> InLink(m, X, r)
<1>1. ASSUME r \in ConeLink(m, X)
      PROVE  InLink(m, X, r)
  <2>1. PICK u \in Coned(m) : X \subseteq u /\ r \subseteq u \ X
    BY <1>1, ConeMember
  <2>2. \E f \in faces(m) : \A x \in u : x # Null => x \in tri(m, f)
    BY ConedIs
  <2>3. PICK f \in faces(m) : \A x \in u : x # Null => x \in tri(m, f)
    BY <2>2
  <2>4. \A x : x \in tri(m, f) => Has(m, f, x)
    BY ConedIs
  <2>5. r # {}
    BY <1>1, ConeMember
  <2> QED
    BY <2>1, <2>3, <2>4, <2>5 DEF InLink
<1>2. ASSUME InLink(m, X, r)
      PROVE  r \in ConeLink(m, X)
  <2>1. PICK f \in faces(m) : /\ \A x \in X : Has(m, f, x)
                              /\ \A x \in r : x \notin X /\ Has(m, f, x)
    BY <1>2 DEF InLink
  <2>2. tri(m, f) \in Coned(m) /\ \A x : x \in tri(m, f) <=> Has(m, f, x)
    BY ConedIs
  <2>3. r # {}
    BY <1>2 DEF InLink
  <2> QED
    BY <2>1, <2>2, <2>3, ConeMember
<1> QED
  BY <1>1, <1>2

\* With the apex they are at the boundary.
OnCone(m, X, r) == \E e : OnBoundary(m, e) /\ X \subseteq e /\ r \subseteq (e \cup {Null}) \ X
\* With the apex they are at the boundary.
LEMMA ConeApex ==
    ASSUME NEW m, Manifold(m), NEW X, Null \notin X, NEW r, Null \in r
    PROVE  r \in ConeLink(m, X) <=> OnCone(m, X, r)
<1>1. ASSUME r \in ConeLink(m, X)
      PROVE  OnCone(m, X, r)
  <2>1. PICK u \in Coned(m) : X \subseteq u /\ r \subseteq u \ X
    BY <1>1, ConeMember
  <2>2. Null \in u
    BY <2>1
  <2>3. PICK e : OnBoundary(m, e) /\ u = e \cup {Null}
    BY <2>2, ConedIs
  <2>4. X \subseteq e
    BY <2>1, <2>3
  <2> QED
    BY <2>1, <2>3, <2>4 DEF OnCone
<1>2. ASSUME NEW e, OnBoundary(m, e), X \subseteq e, r \subseteq (e \cup {Null}) \ X
      PROVE  r \in ConeLink(m, X)
  <2> DEFINE u == e \cup {Null}
  <2>1. u \in Coned(m)
    BY <1>2, ConedIs
  <2>2. r # {} /\ X \subseteq u /\ r \subseteq u \ X
    BY <1>2
  <2> HIDE DEF u
  <2> QED
    BY <2>1, <2>2, ConeMember
<1> QED
  BY <1>1, <1>2 DEF OnCone

\* The links that the code compares.
LEMMA CodeLinks ==
    ASSUME NEW m, Manifold(m), NEW t \in Tuples(m)
    PROVE  LET a == id_vertex(m, t)
               b == id_vertex(m, switch_vertex(t))
           IN  link_condition_closed_trimesh(m, t) <=>
                  \A r : InLink(m, {a}, r) /\ InLink(m, {b}, r) <=> InLink(m, {a, b}, r)
<1> DEFINE a == id_vertex(m, t)
           b == id_vertex(m, switch_vertex(t))
           s == switch_vertex(t)
           U == Fan(m, t)
           F == {U[i].f : i \in DOMAIN U}
           A == top_dimension_cofaces_vertex(m, t)
           B == top_dimension_cofaces_vertex(m, s)
<1>1. s \in Tuples(m)
  BY ThreeLocals DEF switch_vertex, Tuples
<1>2. A = star(m, a) /\ B = star(m, b)
  BY <1>1, CofacesAreStar
<1>3. \A v : \A f : f \in star(m, v) <=> f \in faces(m) /\ Has(m, f, v)
  BY DEF star, Has
<1>4. link_condition_closed_trimesh(m, t) <=> link(m, {a}, A) \cap link(m, {b}, B) = link(m, {a, b}, F)
  BY DEF link_condition_closed_trimesh, Fan
<1>5. \A f : f \in F <=> f \in faces(m) /\ Has(m, f, a) /\ Has(m, f, b)
  <2>1. /\ a = spine_vid(m, t, 0) /\ b = spine_vid(m, t, 1)
    BY DEF spine_vid
  <2>2. IsFan(m, t, U)
    BY Incident
  <2>3. ASSUME NEW f \in F
        PROVE  f \in faces(m) /\ Has(m, f, a) /\ Has(m, f, b)
    <3>1. PICK i \in 1 .. Len(U) : f = U[i].f
      BY <2>2 DEF IsFan
    <3>2. U[i] \in Tuples(m) /\ \A j \in Sides : m.fv[U[i].f][pos(U[i], j)] = spine_vid(m, t, j)
      BY <2>2 DEF IsFan
    <3> HIDE DEF U
    <3>3. U[i].f \in faces(m) /\ \A j \in Sides : pos(U[i], j) \in Locals
      BY <3>2, Places
    <3>4. 0 \in Sides /\ 1 \in Sides
      BY DEF Sides
    <3> QED
      BY <3>1, <3>2, <3>3, <3>4, <2>1 DEF Has
  <2>4. ASSUME NEW f \in faces(m), Has(m, f, a), Has(m, f, b)
        PROVE  f \in F
    <3>1. PICK k \in Locals, l \in Locals : m.fv[f][k] = a /\ m.fv[f][l] = b
      BY <2>4 DEF Has
    <3>2. PICK i \in 1 .. Len(U) : f = U[i].f
      BY <2>1, <3>1, IncidentAll
    <3>3. i \in DOMAIN U
      BY <2>2 DEF IsFan
    <3> QED
      BY <3>2, <3>3
  <2> QED
    BY <2>3, <2>4
<1> HIDE DEF U, F, A, B, s, a, b
<1>6. \A r : r \in link(m, {a}, A) <=> InLink(m, {a}, r)
  <2> SUFFICES ASSUME NEW r
               PROVE  r \in link(m, {a}, A) <=> InLink(m, {a}, r)
    OBVIOUS
  <2>1. r \in link(m, {a}, A) <=> r # {} /\ \E f \in A : \A x \in r : x \notin {a} /\ Has(m, f, x)
    BY LinkMember
  <2> QED
    BY <2>1, <1>2, <1>3 DEF InLink
<1>7. \A r : r \in link(m, {b}, B) <=> InLink(m, {b}, r)
  <2> SUFFICES ASSUME NEW r
               PROVE  r \in link(m, {b}, B) <=> InLink(m, {b}, r)
    OBVIOUS
  <2>1. r \in link(m, {b}, B) <=> r # {} /\ \E f \in B : \A x \in r : x \notin {b} /\ Has(m, f, x)
    BY LinkMember
  <2> QED
    BY <2>1, <1>2, <1>3 DEF InLink
<1>8. \A r : r \in link(m, {a, b}, F) <=> InLink(m, {a, b}, r)
  <2> SUFFICES ASSUME NEW r
               PROVE  r \in link(m, {a, b}, F) <=> InLink(m, {a, b}, r)
    OBVIOUS
  <2>1. r \in link(m, {a, b}, F) <=> r # {} /\ \E f \in F : \A x \in r : x \notin {a, b} /\ Has(m, f, x)
    BY LinkMember
  <2> QED
    BY <2>1, <1>5 DEF InLink
<1> DEFINE P == link(m, {a}, A)
           Q == link(m, {b}, B)
           R == link(m, {a, b}, F)
<1>9. P \cap Q = R <=> \A r : (r \in P /\ r \in Q) <=> r \in R
  <2> HIDE DEF P, Q, R
  <2> QED
    OBVIOUS
<1>10. link_condition_closed_trimesh(m, t) <=>
          \A r : InLink(m, {a}, r) /\ InLink(m, {b}, r) <=> InLink(m, {a, b}, r)
  BY <1>4, <1>6, <1>7, <1>8, <1>9
<1> QED
  BY <1>10 DEF a, b

\* The neighbors that the code collects are the other ends of boundary edges.
LEMMA NeighborsAre ==
    ASSUME NEW m, Manifold(m), NEW t \in Tuples(m)
    PROVE  \A x : x \in boundary_neighbors(m, t) <=>
              x # id_vertex(m, t) /\ OnBoundary(m, {id_vertex(m, t), x})
<1> DEFINE v == id_vertex(m, t)
           A == top_dimension_cofaces_vertex(m, t)
<1>1. A = star(m, v)
  BY CofacesAreStar
<1>2. \A f : f \in star(m, v) <=> f \in faces(m) /\ Has(m, f, v)
  BY DEF star, Has
<1>3. \A f \in faces(m), l \in Locals : m.ff[f][l] < 0 <=> m.ff[f][l] = Null
  <2>1. \A f \in faces(m), l \in Locals : m.ff[f][l] \in faces(m) \cup {Null}
    BY Rows DEF Manifold
  <2>2. faces(m) \subseteq Nat
    BY Rows DEF Manifold
  <2> QED
    BY <2>1, <2>2 DEF Null
<1>4. ASSUME NEW x \in boundary_neighbors(m, t)
      PROVE  x # v /\ OnBoundary(m, {v, x})
  <2>1. PICK p \in A \X Locals : /\ m.fv[p[1]][p[2]] # v /\ x = m.fv[p[1]][p[2]]
                                 /\ \E l \in Locals \ {p[2]} : m.fv[p[1]][l] # v /\ m.ff[p[1]][l] < 0
    BY <1>4 DEF boundary_neighbors
  <2> DEFINE f == p[1]
             i == p[2]
  <2>2. f \in A /\ i \in Locals /\ m.fv[f][i] # v /\ x = m.fv[f][i]
        /\ \E l \in Locals \ {i} : m.fv[f][l] # v /\ m.ff[f][l] < 0
    BY <2>1
  <2> HIDE DEF f, i, A, v
  <2>3. PICK l \in Locals \ {i} : m.fv[f][l] # v /\ m.ff[f][l] < 0
    BY <2>2
  <2>4. f \in faces(m) /\ Has(m, f, v)
    BY <2>2, <1>1, <1>2
  <2>5. PICK k \in Locals : m.fv[f][k] = v
    BY <2>4 DEF Has
  <2>6. ends(m, f, l) = {m.fv[f][k], m.fv[f][i]}
    <3>1. /\ k # i /\ k # l /\ i # l
          /\ k \in Locals /\ i \in Locals /\ l \in Locals
      BY <2>2, <2>3, <2>5
    <3> QED
      BY ONLY <3>1, EndsPair
  <2>7. ends(m, f, l) = {v, x} /\ m.ff[f][l] = Null
    BY <2>2, <2>3, <2>4, <2>5, <2>6, <1>3
  <2> QED
    BY <2>2, <2>4, <2>7 DEF OnBoundary
<1>5. ASSUME NEW x, x # v, OnBoundary(m, {v, x})
      PROVE  x \in boundary_neighbors(m, t)
  <2>1. PICK f \in faces(m), l \in Locals : {v, x} = ends(m, f, l) /\ m.ff[f][l] = Null
    BY <1>5 DEF OnBoundary
  <2>2. v \in ends(m, f, l) /\ x \in ends(m, f, l)
    BY <2>1
  <2>3. PICK k \in Locals \ {l}, i \in Locals \ {l} : m.fv[f][k] = v /\ m.fv[f][i] = x
    BY <2>2 DEF ends
  <2>4. m.fv[f][l] # v
    BY <2>3 DEF Manifold, Corners
  <2>5. f \in A
    BY <1>1, <1>2, <2>3 DEF Has
  <2>6. m.ff[f][l] < 0
    BY <1>3, <2>1
  <2> DEFINE p == <<f, i>>
  <2>7. p \in A \X Locals /\ p[1] = f /\ p[2] = i
    BY <2>5
  <2>8. l \in Locals \ {i}
    BY <2>3
  <2> HIDE DEF p, A, v
  <2>9. /\ p \in A \X Locals /\ m.fv[p[1]][p[2]] # v /\ x = m.fv[p[1]][p[2]]
        /\ \E n \in Locals \ {p[2]} : m.fv[p[1]][n] # v /\ m.ff[p[1]][n] < 0
    BY <1>5, <2>3, <2>4, <2>6, <2>7, <2>8
  <2> QED
    BY <2>9 DEF boundary_neighbors, A, v
<1> QED
  BY <1>4, <1>5

\* What is said of the boundary, of the ends a and b of an edge.
LEMMA ConesAtEdge ==
    ASSUME NEW m, Manifold(m), NEW t \in Tuples(m),
           NEW a, a = id_vertex(m, t), NEW b, b = id_vertex(m, switch_vertex(t))
    PROVE  (\A r : Null \in r => (OnCone(m, {a}, r) /\ OnCone(m, {b}, r) <=> OnCone(m, {a, b}, r)))
           <=> IF is_boundary_edge(m, t)
               THEN boundary_neighbors(m, t) \cap boundary_neighbors(m, switch_vertex(t)) = {}
               ELSE boundary_neighbors(m, t) = {} \/ boundary_neighbors(m, switch_vertex(t)) = {}
<1> DEFINE s == switch_vertex(t)
           A == boundary_neighbors(m, t)
           B == boundary_neighbors(m, s)
           bd == is_boundary_edge(m, t)
           ob(x, y) == OnBoundary(m, {x, y})
<1>1. s \in Tuples(m)
  BY ThreeLocals DEF switch_vertex, Tuples
<1>2. /\ \A x : x \in A <=> x # a /\ ob(a, x)
      /\ \A x : x \in B <=> x # b /\ ob(b, x)
  BY <1>1, NeighborsAre
<1>3. a # b /\ a # Null /\ b # Null
  <2>1. a = spine_vid(m, t, 0) /\ b = spine_vid(m, t, 1)
    BY DEF spine_vid
  <2>2. a # b
    BY <2>1, IncidentAll
  <2>3. a \in vertices(m) /\ b \in vertices(m)
    BY <1>1, Rows DEF id_vertex, Tuples, Manifold
  <2> QED
    BY <2>2, <2>3, Rows DEF Manifold
<1>4. \A e : OnBoundary(m, e) => Null \notin e /\ \E x, y : x # y /\ e = {x, y}
  <2> SUFFICES ASSUME NEW e, OnBoundary(m, e)
               PROVE  Null \notin e /\ \E x, y : x # y /\ e = {x, y}
    OBVIOUS
  <2>1. PICK f \in faces(m), k \in Locals : e = ends(m, f, k)
    BY DEF OnBoundary
  <2>2. PICK i, j \in Locals : i # j /\ i # k /\ j # k
    BY OtherLocals
  <2>3. e = {m.fv[f][i], m.fv[f][j]}
    BY <2>1, <2>2, EndsPair
  <2>4. m.fv[f][i] # m.fv[f][j]
    BY <2>2 DEF Manifold, Corners
  <2>5. Null \notin e
    BY ConedIs
  <2> QED
    BY <2>3, <2>4, <2>5
<1>5. bd <=> ob(a, b)
  <2>1. {a, b} = ends(m, t.f, t.e) /\ t.f \in faces(m) /\ t.e \in Locals
    <3>1. /\ t.v \in Locals /\ t.e \in Locals /\ third(t) \in Locals /\ t.f \in faces(m)
          /\ t.v # t.e /\ third(t) # t.v /\ third(t) # t.e
      BY ThreeLocals DEF Tuples
    <3>2. a = m.fv[t.f][t.v] /\ b = m.fv[t.f][third(t)]
      BY DEF id_vertex, switch_vertex
    <3> QED
      BY <3>1, <3>2, EndsPair
  <2>2. bd <=> m.ff[t.f][t.e] = Null
    <3>1. m.ff[t.f][t.e] \in faces(m) \cup {Null} /\ faces(m) \subseteq Nat
      BY <2>1, Rows DEF Manifold
    <3> QED
      BY <3>1 DEF is_boundary_edge, Null
  <2>3. ASSUME bd
        PROVE  ob(a, b)
    BY <2>1, <2>2, <2>3 DEF OnBoundary
  <2>4. ASSUME ob(a, b)
        PROVE  bd
    <3>1. PICK f \in faces(m), k \in Locals : {a, b} = ends(m, f, k) /\ m.ff[f][k] = Null
      BY <2>4 DEF OnBoundary
    <3>2. m.fe[f][k] = m.fe[t.f][t.e]
      <4>1. \A x, y \in faces(m), i, j \in Locals :
               ends(m, x, i) = ends(m, y, j) => m.fe[x][i] = m.fe[y][j]
        BY DEF Manifold, EdgesAgree
      <4>2. ends(m, f, k) = ends(m, t.f, t.e)
        BY ONLY <2>1, <3>1
      <4> QED
        BY ONLY <2>1, <4>1, <4>2, f \in faces(m), k \in Locals
    <3>4. (f = t.f /\ k = t.e) \/ m.ff[f][k] = t.f
      BY <2>1, <3>1, <3>2 DEF Manifold, Mates
    <3>5. Null \notin faces(m)
      BY Rows DEF Manifold
    <3> QED
      BY <2>1, <2>2, <3>1, <3>4, <3>5
  <2> QED
    BY <2>3, <2>4
<1> HIDE DEF A, B, bd
<1>6. \A v : v # Null => \A r : Null \in r =>
         (OnCone(m, {v}, r) <=> \E x : x # v /\ ob(v, x) /\ r \subseteq {Null, x})
  <2> SUFFICES ASSUME NEW v, v # Null, NEW r, Null \in r
               PROVE  OnCone(m, {v}, r) <=> \E x : x # v /\ ob(v, x) /\ r \subseteq {Null, x}
    OBVIOUS
  <2>1. ASSUME OnCone(m, {v}, r)
        PROVE  \E x : x # v /\ ob(v, x) /\ r \subseteq {Null, x}
    <3>1. PICK e : OnBoundary(m, e) /\ v \in e /\ r \subseteq (e \cup {Null}) \ {v}
      BY <2>1 DEF OnCone
    <3>2. PICK x : x # v /\ e = {v, x}
      BY <1>4, <3>1
    <3> QED
      BY <3>1, <3>2
  <2>2. ASSUME NEW x, x # v, ob(v, x), r \subseteq {Null, x}
        PROVE  OnCone(m, {v}, r)
    <3> DEFINE e == {v, x}
    <3>1. OnBoundary(m, e) /\ {v} \subseteq e /\ r \subseteq (e \cup {Null}) \ {v}
      BY <2>2
    <3> HIDE DEF e
    <3> QED
      BY <3>1 DEF OnCone
  <2> QED
    BY <2>1, <2>2
<1>7. \A r : Null \in r => (OnCone(m, {a, b}, r) <=> ob(a, b) /\ r \subseteq {Null})
  <2> SUFFICES ASSUME NEW r, Null \in r
               PROVE  OnCone(m, {a, b}, r) <=> ob(a, b) /\ r \subseteq {Null}
    OBVIOUS
  <2>1. ASSUME OnCone(m, {a, b}, r)
        PROVE  ob(a, b) /\ r \subseteq {Null}
    <3>1. PICK e : OnBoundary(m, e) /\ {a, b} \subseteq e /\ r \subseteq (e \cup {Null}) \ {a, b}
      BY <2>1 DEF OnCone
    <3>2. PICK x, y : e = {x, y}
      <4>1. \E x, y : x # y /\ e = {x, y}
        BY ONLY <1>4, <3>1
      <4> QED
        BY ONLY <4>1
    <3>3. e = {a, b}
      BY <1>3, <3>1, <3>2
    <3> QED
      BY <3>1, <3>3
  <2>2. ASSUME ob(a, b), r \subseteq {Null}
        PROVE  OnCone(m, {a, b}, r)
    <3> DEFINE e == {a, b}
    <3>1. OnBoundary(m, e) /\ {a, b} \subseteq e /\ r \subseteq (e \cup {Null}) \ {a, b}
      BY <1>3, <2>2
    <3> HIDE DEF e
    <3> QED
      BY <3>1 DEF OnCone
  <2> QED
    BY <2>1, <2>2
<1>8. \A x, y : ob(x, y) => x # Null /\ y # Null
  BY <1>4
<1>9. ob(a, b) <=> ob(b, a)
  <2>1. {a, b} = {b, a}
    OBVIOUS
  <2> QED
    BY <2>1
<1> HIDE DEF ob
<1> DEFINE both(r) == (OnCone(m, {a}, r) /\ OnCone(m, {b}, r)) <=> OnCone(m, {a, b}, r)
<1>10. ASSUME \A r : Null \in r => both(r), bd
       PROVE  A \cap B = {}
  <2> SUFFICES ASSUME NEW x \in A \cap B
               PROVE  FALSE
    OBVIOUS
  <2> DEFINE r == {Null, x}
  <2>1. x # a /\ ob(a, x) /\ x # b /\ ob(b, x) /\ x # Null
    BY <1>2, <1>8
  <2>2. Null \in r /\ r \subseteq {Null, x} /\ ~(r \subseteq {Null})
    BY <2>1
  <2> HIDE DEF r
  <2>3. OnCone(m, {a}, r) /\ OnCone(m, {b}, r)
    BY <1>3, <1>6, <2>1, <2>2
  <2>4. ~OnCone(m, {a, b}, r)
    BY <1>7, <2>2
  <2> QED
    BY <1>10, <2>2, <2>3, <2>4
<1>11. ASSUME \A r : Null \in r => both(r), ~bd
       PROVE  A = {} \/ B = {}
  <2> SUFFICES ASSUME NEW x \in A, NEW y \in B
               PROVE  FALSE
    OBVIOUS
  <2> DEFINE r == {Null}
  <2>1. x # a /\ ob(a, x) /\ y # b /\ ob(b, y)
    BY <1>2
  <2>2. Null \in r /\ r \subseteq {Null, x} /\ r \subseteq {Null, y}
    OBVIOUS
  <2> HIDE DEF r
  <2>3. OnCone(m, {a}, r) /\ OnCone(m, {b}, r)
    BY <1>3, <1>6, <2>1, <2>2
  <2>4. ~OnCone(m, {a, b}, r)
    BY <1>5, <1>7, <1>11, <2>2
  <2> QED
    BY <1>11, <2>2, <2>3, <2>4
<1>12. ASSUME IF bd THEN A \cap B = {} ELSE A = {} \/ B = {}, NEW r, Null \in r
       PROVE  both(r)
  <2>1. ASSUME OnCone(m, {a}, r), OnCone(m, {b}, r)
        PROVE  OnCone(m, {a, b}, r)
    <3>1. PICK x : x # a /\ ob(a, x) /\ r \subseteq {Null, x}
      BY <1>3, <1>6, <1>12, <2>1
    <3>2. PICK y : y # b /\ ob(b, y) /\ r \subseteq {Null, y}
      BY <1>3, <1>6, <1>12, <2>1
    <3>3. x \in A /\ y \in B
      BY <1>2, <3>1, <3>2
    <3>4. bd /\ x # y
      BY <1>12, <3>3
    <3>5. r \subseteq {Null}
      BY <3>1, <3>2, <3>4
    <3> QED
      BY <1>5, <1>7, <1>12, <3>4, <3>5
  <2>2. ASSUME OnCone(m, {a, b}, r)
        PROVE  OnCone(m, {a}, r) /\ OnCone(m, {b}, r)
    <3>1. ob(a, b) /\ ob(b, a) /\ r \subseteq {Null}
      BY <1>7, <1>9, <1>12, <2>2
    <3>2. r \subseteq {Null, a} /\ r \subseteq {Null, b}
      BY <3>1
    <3> QED
      BY <1>3, <1>6, <1>12, <3>1, <3>2
  <2> QED
    BY <2>1, <2>2
<1>13. (\A r : Null \in r => both(r)) <=> IF bd THEN A \cap B = {} ELSE A = {} \/ B = {}
  BY <1>10, <1>11, <1>12
<1> QED
  BY <1>13 DEF A, B, bd

\* link_condition of the code is the link condition of the surface, in every manifold.
LEMMA LinkExact ==
    ASSUME NEW m, Manifold(m), NEW t \in Tuples(m)
    PROVE  link_condition(m, t) <=>
              Surface!LinkCondition(darts_of(m), id_vertex(m, t), id_vertex(m, switch_vertex(t)))
<1> DEFINE a == id_vertex(m, t)
           b == id_vertex(m, switch_vertex(t))
           end == IF is_boundary_edge(m, t)
               THEN boundary_neighbors(m, t) \cap boundary_neighbors(m, switch_vertex(t)) = {}
               ELSE boundary_neighbors(m, t) = {} \/ boundary_neighbors(m, switch_vertex(t)) = {}
           P == ConeLink(m, {a})
           Q == ConeLink(m, {b})
           R == ConeLink(m, {a, b})
<1>1. link_condition(m, t) <=> link_condition_closed_trimesh(m, t) /\ end
  BY DEF link_condition
<1>2. Surface!LinkCondition(darts_of(m), a, b) <=> P \cap Q = R
  BY LinkConditionIs
<1>3. Null \notin {a} /\ Null \notin {b} /\ Null \notin {a, b}
  <2>1. switch_vertex(t) \in Tuples(m)
    BY ThreeLocals DEF switch_vertex, Tuples
  <2>2. a \in vertices(m) /\ b \in vertices(m)
    BY <2>1, Rows DEF id_vertex, Tuples, Manifold
  <2> QED
    BY <2>2, Rows DEF Manifold
<1>4. link_condition_closed_trimesh(m, t) <=>
          \A r : InLink(m, {a}, r) /\ InLink(m, {b}, r) <=> InLink(m, {a, b}, r)
  BY CodeLinks
<1>5. end <=> \A r : Null \in r => (OnCone(m, {a}, r) /\ OnCone(m, {b}, r) <=> OnCone(m, {a, b}, r))
  BY ConesAtEdge
<1>6. \A X, r : Null \in r => ~InLink(m, X, r)
  <2>1. \A f \in faces(m) : ~Has(m, f, Null)
    BY ConedIs
  <2> QED
    BY <2>1 DEF InLink
<1> HIDE DEF a, b, end
<1>7. P \cap Q = R <=> \A r : (r \in P /\ r \in Q) <=> r \in R
  <2> HIDE DEF P, Q, R
  <2> QED
    OBVIOUS
<1>8. \A r : Null \notin r => /\ r \in P <=> InLink(m, {a}, r)
                              /\ r \in Q <=> InLink(m, {b}, r)
                              /\ r \in R <=> InLink(m, {a, b}, r)
  BY <1>3, ConePlain
<1>9. \A r : Null \in r => /\ r \in P <=> OnCone(m, {a}, r)
                           /\ r \in Q <=> OnCone(m, {b}, r)
                           /\ r \in R <=> OnCone(m, {a, b}, r)
  BY <1>3, ConeApex
<1> HIDE DEF P, Q, R
<1>10. P \cap Q = R <=> link_condition_closed_trimesh(m, t) /\ end
  BY <1>4, <1>5, <1>6, <1>7, <1>8, <1>9
<1> QED
  BY <1>1, <1>2, <1>10 DEF a, b

\* So it is in every reachable mesh, at each of its edges.
LEMMA InvLinkConditionExact == Inv => LinkConditionExact
<1> SUFFICES ASSUME Inv, NEW t \in Tuples(mesh)
             PROVE  link_condition(mesh, t) <=>
                       Surface!LinkCondition(darts_of(mesh), id_vertex(mesh, t),
                                             id_vertex(mesh, switch_vertex(t)))
  BY DEF LinkConditionExact
<1>1. Manifold(mesh)
  BY DEF Inv
<1> QED
  BY <1>1, LinkExact

-----------------------------------------------------------------------------
(* The operations on the darts of the surface.                             *)

dart(m, f, i) == <<m.fv[f][i], m.fv[f][(i + 1) % 3], m.fv[f][(i + 2) % 3]>>

\* The darts of the surface are those of the corners of the faces.
LEMMA DartsAre ==
    ASSUME NEW m
    PROVE  \A d : d \in darts_of(m) <=> \E f \in faces(m), i \in Locals : d = dart(m, f, i)
BY DartsOf DEF dart

\* A face where a vertex is replaced has the darts of the other one, moved.
LEMMA DartMoved ==
    ASSUME NEW m, NEW f, NEW r, NEW p, NEW x, NEW w,
           \A k \in Locals : r.fv[p][k] = IF m.fv[f][k] = x THEN w ELSE m.fv[f][k],
           NEW i \in Locals
    PROVE  dart(r, p, i) = Surface!moved(dart(m, f, i), x, w)
<1> DEFINE j == (i + 1) % 3
           k == (i + 2) % 3
           a == m.fv[f][i]
           b == m.fv[f][j]
           c == m.fv[f][k]
           new(v) == IF v = x THEN w ELSE v
           d == <<a, b, c>>
<1>1. j \in Locals /\ k \in Locals
  BY Turn
<1>2. dart(r, p, i) = <<new(a), new(b), new(c)>>
  <2>1. r.fv[p][i] = new(a) /\ r.fv[p][j] = new(b) /\ r.fv[p][k] = new(c)
    BY <1>1
  <2> QED
    BY <2>1 DEF dart
<1>3. dart(m, f, i) = d
  BY DEF dart
<1>4. Surface!moved(d, x, w) = [n \in 1 .. 3 |-> new(d[n])]
  BY DEF Surface!moved
<1> HIDE DEF a, b, c
<1>5. [n \in 1 .. 3 |-> new(d[n])] = <<new(a), new(b), new(c)>>
  OBVIOUS
<1> QED
  BY <1>2, <1>3, <1>4, <1>5

\* A dart has the corners of its face.
LEMMA DartCorners ==
    ASSUME NEW m, NEW f, NEW i \in Locals
    PROVE  Surface!corners(dart(m, f, i)) = tri(m, f)
<1> DEFINE j == (i + 1) % 3
           k == (i + 2) % 3
<1>1. Locals = {i, j, k}
  BY Turn
<1>2. Surface!corners(dart(m, f, i)) = {m.fv[f][i], m.fv[f][j], m.fv[f][k]}
  BY DEF Surface!corners, dart
<1> HIDE DEF j, k
<1> QED
  BY <1>1, <1>2 DEF tri

\* The darts of the faces that have both ends of an edge.
LEMMA DartsOn ==
    ASSUME NEW m, NEW a, NEW b
    PROVE  \A d : d \in Surface!On(darts_of(m), a, b) <=>
              \E f \in faces(m), i \in Locals :
                  d = dart(m, f, i) /\ Has(m, f, a) /\ Has(m, f, b)
<1>1. \A f \in faces(m), i \in Locals :
         {a, b} \subseteq Surface!corners(dart(m, f, i)) <=> Has(m, f, a) /\ Has(m, f, b)
  BY DartCorners DEF tri, Has
<1>2. \A d : d \in Surface!On(darts_of(m), a, b) <=>
                 d \in darts_of(m) /\ {a, b} \subseteq Surface!corners(d)
  BY DEF Surface!On
<1> QED
  BY <1>1, <1>2, DartsAre

\* The darts of a face are one of them and those it turns to.
LEMMA DartsAround ==
    ASSUME NEW m, NEW f, NEW i \in Locals
    PROVE  \A d : d \in Surface!around(dart(m, f, i)) <=> \E k \in Locals : d = dart(m, f, k)
<1> DEFINE j == (i + 1) % 3
           k == (i + 2) % 3
<1>1. Locals = {i, j, k}
  BY Turn
<1>2. (j + 1) % 3 = k /\ (j + 2) % 3 = i /\ (k + 1) % 3 = i /\ (k + 2) % 3 = j
  <2>1. i = 0 \/ i = 1 \/ i = 2
    BY DEF Locals
  <2> QED
    BY <2>1
<1> DEFINE a == m.fv[f][i]
           b == m.fv[f][j]
           c == m.fv[f][k]
<1>3. dart(m, f, i) = <<a, b, c>> /\ dart(m, f, j) = <<b, c, a>> /\ dart(m, f, k) = <<c, a, b>>
  BY <1>2 DEF dart
<1> HIDE DEF a, b, c
<1>4. Surface!around(<<a, b, c>>) = {<<a, b, c>>, <<b, c, a>>, <<c, a, b>>}
  BY DEF Surface!around, Surface!rotated
<1> HIDE DEF j, k
<1> QED
  BY <1>1, <1>3, <1>4

-----------------------------------------------------------------------------
(* A split and a collapse of a mesh that is not free, on the surface.      *)

\* The darts of a half are those of the face it halves, moved.
LEMMA HalfDarts ==
    ASSUME NEW m, Manifold(m), NEW t, NEW r, NEW U, IsSplit(r, m, t, U),
           NEW i \in 1 .. Len(U), NEW j \in Sides, NEW k \in Locals
    PROVE  dart(r, split_f(m, i, j), k)
               = Surface!moved(dart(m, U[i].f, k), spine_vid(m, t, 1 - j), split_new_vid(m))
<1> DEFINE u == U[i]
           p == split_f(m, i, j)
           x == spine_vid(m, t, 1 - j)
           w == split_new_vid(m)
<1>1. /\ u \in Tuples(m) /\ 1 - j \in Sides
      /\ m.fv[u.f][pos(u, j)] = spine_vid(m, t, j) /\ m.fv[u.f][pos(u, 1 - j)] = x
  <2>1. u \in Tuples(m) /\ \A l \in Sides : m.fv[u.f][pos(u, l)] = spine_vid(m, t, l)
    BY DEF IsSplit, IsFan
  <2>2. 1 - j \in Sides
    BY <2>1, Places
  <2> QED
    BY <2>1, <2>2
<1>2. pos(u, j) # u.e /\ pos(u, j) # pos(u, 1 - j) /\ Locals = {u.e, pos(u, j), pos(u, 1 - j)}
  BY <1>1, Places
<1>3. m.fv[u.f][u.e] # x /\ spine_vid(m, t, j) # x
  <2>1. /\ m.fv[u.f][u.e] # x
        /\ spine_vid(m, t, j) = x => j = 1 - j
    BY <1>1, SplitVertices
  <2>2. j # 1 - j
    BY DEF Sides
  <2> QED
    BY <2>1, <2>2
<1>4. /\ r.fv[p][pos(u, j)] = spine_vid(m, t, j) /\ r.fv[p][pos(u, 1 - j)] = w
      /\ r.fv[p][u.e] = m.fv[u.f][u.e]
  <2>1. IsHalfFace(r, m, t, i, j, u, IF Len(U) = 1 THEN Null ELSE split_f(m, 3 - i, j))
    BY DEF IsSplit
  <2> QED
    BY <2>1 DEF IsHalfFace
<1> HIDE DEF u, p, x, w
<1>5. \A l \in Locals : r.fv[p][l] = IF m.fv[u.f][l] = x THEN w ELSE m.fv[u.f][l]
  BY <1>1, <1>2, <1>3, <1>4
<1>6. dart(r, p, k) = Surface!moved(dart(m, u.f, k), x, w)
  BY <1>5, DartMoved
<1> QED
  BY <1>6 DEF u, p, x, w

\* The incident faces are those with both ends of the edge.
LEMMA GoneHas ==
    ASSUME NEW m, Manifold(m), NEW t \in Tuples(m), NEW f \in faces(m)
    PROVE  f \in Gone(m, t) <=> Has(m, f, spine_vid(m, t, 0)) /\ Has(m, f, spine_vid(m, t, 1))
<1> DEFINE U == Fan(m, t)
<1>1. IsFan(m, t, U)
  BY Incident
<1>2. ASSUME f \in Gone(m, t)
      PROVE  Has(m, f, spine_vid(m, t, 0)) /\ Has(m, f, spine_vid(m, t, 1))
  <2>1. PICK i \in 1 .. Len(U) : f = U[i].f
    BY <1>1, <1>2 DEF Gone, IsFan
  <2>2. U[i] \in Tuples(m) /\ \A j \in Sides : m.fv[f][pos(U[i], j)] = spine_vid(m, t, j)
    BY <1>1, <2>1 DEF IsFan
  <2>3. \A j \in Sides : pos(U[i], j) \in Locals
    BY <2>2, Places
  <2> QED
    BY <2>2, <2>3 DEF Has, Sides
<1>3. ASSUME Has(m, f, spine_vid(m, t, 0)), Has(m, f, spine_vid(m, t, 1))
      PROVE  f \in Gone(m, t)
  <2>1. PICK k, l \in Locals : m.fv[f][k] = spine_vid(m, t, 0) /\ m.fv[f][l] = spine_vid(m, t, 1)
    BY <1>3 DEF Has
  <2>2. \E i \in 1 .. Len(U) : f = U[i].f
    BY <2>1, IncidentAll
  <2> QED
    BY <1>1, <2>2 DEF Gone, IsFan
<1> QED
  BY <1>2, <1>3

\* A split takes away the darts of the faces at the edge, and adds each of them twice,
\* with the new vertex for either end.
LEMMA SplitDarts ==
    ASSUME NEW m, Manifold(m), NEW t, NEW r, NEW U, IsSplit(r, m, t, U),
           NEW D, D = darts_of(m), NEW a, a = spine_vid(m, t, 0), NEW b, b = spine_vid(m, t, 1),
           NEW w, w = split_new_vid(m)
    PROVE  \A d : d \in darts_of(r) <=>
              \/ d \in D /\ d \notin Surface!On(D, a, b)
              \/ \E e \in Surface!On(D, a, b) :
                    d = Surface!moved(e, a, w) \/ d = Surface!moved(e, b, w)
<1> DEFINE On == Surface!On(D, a, b)
<1>0. /\ t \in Tuples(m) /\ U = Fan(m, t) /\ 0 \in Sides /\ 1 \in Sides /\ 1 - 0 = 1 /\ 1 - 1 = 0
      /\ DOMAIN U = 1 .. Len(U)
  BY DEF IsSplit, IsFan, Sides
<1>1. \A e : e \in On <=> \E i \in 1 .. Len(U), k \in Locals : e = dart(m, U[i].f, k)
  <2>1. \A e : e \in On <=> \E f \in faces(m), k \in Locals :
                  e = dart(m, f, k) /\ Has(m, f, a) /\ Has(m, f, b)
    BY DartsOn
  <2>2. \A f \in faces(m) : f \in Gone(m, t) <=> Has(m, f, a) /\ Has(m, f, b)
    BY <1>0, GoneHas
  <2>3. \A f : f \in Gone(m, t) <=> f \in faces(m) /\ \E i \in 1 .. Len(U) : f = U[i].f
    <3>1. \A i \in 1 .. Len(U) : U[i].f \in faces(m)
      BY DEF IsSplit, IsWedge
    <3> QED
      BY <1>0, <3>1 DEF Gone
  <2> HIDE DEF On
  <2>4. ASSUME NEW e \in On
        PROVE  \E i \in 1 .. Len(U), k \in Locals : e = dart(m, U[i].f, k)
    <3>1. PICK f \in faces(m), k \in Locals : e = dart(m, f, k) /\ f \in Gone(m, t)
      BY <2>1, <2>2
    <3>2. PICK i \in 1 .. Len(U) : f = U[i].f
      BY <2>3, <3>1
    <3> QED
      BY <3>1, <3>2
  <2>5. ASSUME NEW i \in 1 .. Len(U), NEW k \in Locals
        PROVE  dart(m, U[i].f, k) \in On
    <3>1. U[i].f \in faces(m) /\ U[i].f \in Gone(m, t)
      <4>1. U[i].f \in faces(m)
        BY DEF IsSplit, IsWedge
      <4> QED
        BY <2>3, <4>1
    <3> QED
      BY <2>1, <2>2, <3>1
  <2> QED
    BY <2>4, <2>5
<1>2. \A d : (d \in D /\ d \notin On) <=>
         \E f \in faces(m) \ Gone(m, t), k \in Locals : d = dart(m, f, k)
  <2>1. ASSUME NEW d, NEW f \in faces(m) \ Gone(m, t), NEW k \in Locals, d = dart(m, f, k)
        PROVE  d \in D /\ d \notin On
    <3>1. d \in D
      BY <2>1, DartsAre
    <3>2. ~({a, b} \subseteq Surface!corners(d))
      <4>1. ~(Has(m, f, a) /\ Has(m, f, b))
        BY <1>0, <2>1, GoneHas
      <4> QED
        BY <2>1, <4>1, DartCorners DEF tri, Has
    <3> QED
      BY <3>1, <3>2 DEF Surface!On
  <2>2. ASSUME NEW d \in D, d \notin On
        PROVE  \E f \in faces(m) \ Gone(m, t), k \in Locals : d = dart(m, f, k)
    <3>1. PICK f \in faces(m), k \in Locals : d = dart(m, f, k)
      BY DartsAre
    <3>2. ~(Has(m, f, a) /\ Has(m, f, b))
      BY <2>2, <3>1, DartsOn
    <3>3. f \notin Gone(m, t)
      BY <1>0, <3>2, GoneHas
    <3> QED
      BY <3>1, <3>3
  <2> QED
    BY <2>1, <2>2
<1>3. \A f \in faces(m) \ Gone(m, t), k \in Locals : f \in faces(r) /\ dart(r, f, k) = dart(m, f, k)
  <2> SUFFICES ASSUME NEW f \in faces(m) \ Gone(m, t), NEW k \in Locals
               PROVE  f \in faces(r) /\ dart(r, f, k) = dart(m, f, k)
    OBVIOUS
  <2>1. f \in faces(r) /\ AtKept(r, m, t, f)
    BY DEF IsSplit
  <2>2. r.fv[f] = m.fv[f]
    BY <2>1 DEF AtKept
  <2> QED
    BY <2>1, <2>2 DEF dart
<1>4. \A i \in 1 .. Len(U), k \in Locals :
         /\ split_f(m, i, 0) \in faces(r) /\ split_f(m, i, 1) \in faces(r)
         /\ dart(r, split_f(m, i, 0), k) = Surface!moved(dart(m, U[i].f, k), b, w)
         /\ dart(r, split_f(m, i, 1), k) = Surface!moved(dart(m, U[i].f, k), a, w)
  <2> SUFFICES ASSUME NEW i \in 1 .. Len(U), NEW k \in Locals
               PROVE  /\ split_f(m, i, 0) \in faces(r) /\ split_f(m, i, 1) \in faces(r)
                      /\ dart(r, split_f(m, i, 0), k) = Surface!moved(dart(m, U[i].f, k), b, w)
                      /\ dart(r, split_f(m, i, 1), k) = Surface!moved(dart(m, U[i].f, k), a, w)
    OBVIOUS
  <2>1. ASSUME NEW j \in Sides PROVE split_f(m, i, j) \in faces(r)
    <3>1. IsHalfFace(r, m, t, i, j, U[i], IF Len(U) = 1 THEN Null ELSE split_f(m, 3 - i, j))
      BY DEF IsSplit
    <3> QED
      BY <3>1 DEF IsHalfFace
  <2>2. dart(r, split_f(m, i, 0), k) = Surface!moved(dart(m, U[i].f, k), spine_vid(m, t, 1 - 0), w)
    BY <1>0, HalfDarts
  <2>3. dart(r, split_f(m, i, 1), k) = Surface!moved(dart(m, U[i].f, k), spine_vid(m, t, 1 - 1), w)
    BY <1>0, HalfDarts
  <2> QED
    BY <1>0, <2>1, <2>2, <2>3
<1>5. \A f \in faces(r) : \/ f \in faces(m) \ Gone(m, t)
                          \/ \E i \in 1 .. Len(U) : f = split_f(m, i, 0) \/ f = split_f(m, i, 1)
  BY DEF IsSplit, Sides
<1>6. \A d : d \in darts_of(r) <=> \E f \in faces(r), k \in Locals : d = dart(r, f, k)
  BY DartsAre
<1> HIDE DEF On
<1>7. ASSUME NEW d \in darts_of(r)
      PROVE  \/ d \in D /\ d \notin On
             \/ \E e \in On : d = Surface!moved(e, a, w) \/ d = Surface!moved(e, b, w)
  <2>1. PICK f \in faces(r), k \in Locals : d = dart(r, f, k)
    BY <1>6
  <2>2. CASE f \in faces(m) \ Gone(m, t)
    BY <1>2, <1>3, <2>1, <2>2
  <2>3. ASSUME NEW i \in 1 .. Len(U), f = split_f(m, i, 0) \/ f = split_f(m, i, 1)
        PROVE  \E e \in On : d = Surface!moved(e, a, w) \/ d = Surface!moved(e, b, w)
    <3>1. dart(m, U[i].f, k) \in On
      BY <1>1
    <3> QED
      BY <1>4, <2>1, <2>3, <3>1
  <2> QED
    BY <1>5, <2>2, <2>3
<1>8. ASSUME NEW d, d \in D /\ d \notin On
      PROVE  d \in darts_of(r)
  BY <1>2, <1>3, <1>6, <1>8
<1>9. ASSUME NEW d, NEW e \in On, d = Surface!moved(e, a, w) \/ d = Surface!moved(e, b, w)
      PROVE  d \in darts_of(r)
  <2>1. PICK i \in 1 .. Len(U), k \in Locals : e = dart(m, U[i].f, k)
    BY <1>1
  <2> QED
    BY <1>4, <1>6, <1>9, <2>1
<1> QED
  BY <1>7, <1>8, <1>9 DEF On

\* One of the darts of the face of t leads along its edge, from either end.
LEMMA EdgeDart ==
    ASSUME NEW m, NEW t \in Tuples(m)
    PROVE  \E d \in darts_of(m) :
              \/ d[1] = spine_vid(m, t, 0) /\ d[2] = spine_vid(m, t, 1)
              \/ d[1] = spine_vid(m, t, 1) /\ d[2] = spine_vid(m, t, 0)
<1> DEFINE a == t.v
           b == third(t)
<1>1. t.f \in faces(m) /\ a \in Locals /\ b \in Locals /\ a # b
  BY Places, ThreeLocals DEF Tuples
<1>2. spine_vid(m, t, 0) = m.fv[t.f][a] /\ spine_vid(m, t, 1) = m.fv[t.f][b]
  BY SpineEnds, Places DEF Sides
<1> HIDE DEF a, b
<1>3. b = (a + 1) % 3 \/ a = (b + 1) % 3
  <2>1. (a = 0 \/ a = 1 \/ a = 2) /\ (b = 0 \/ b = 1 \/ b = 2)
    BY <1>1 DEF Locals
  <2> QED
    BY <1>1, <2>1
<1>4. \A i \in Locals : /\ dart(m, t.f, i) \in darts_of(m) /\ dart(m, t.f, i)[1] = m.fv[t.f][i]
                        /\ dart(m, t.f, i)[2] = m.fv[t.f][(i + 1) % 3]
  BY <1>1, DartsAre DEF dart
<1>5. CASE b = (a + 1) % 3
  <2>1. dart(m, t.f, a) \in darts_of(m) /\ dart(m, t.f, a)[1] = m.fv[t.f][a]
        /\ dart(m, t.f, a)[2] = m.fv[t.f][b]
    BY <1>1, <1>4, <1>5
  <2> QED
    BY <1>2, <2>1
<1>6. CASE a = (b + 1) % 3
  <2>1. dart(m, t.f, b) \in darts_of(m) /\ dart(m, t.f, b)[1] = m.fv[t.f][b]
        /\ dart(m, t.f, b)[2] = m.fv[t.f][a]
    BY <1>1, <1>4, <1>6
  <2> QED
    BY <1>2, <2>1
<1> QED
  BY <1>3, <1>5, <1>6

\* The vertices of the surface are the active ones.
LEMMA UsedVertices ==
    ASSUME NEW m, Manifold(m)
    PROVE  Surface!Used(darts_of(m)) = vertices(m)
<1>1. \A f \in faces(m), i \in Locals : Surface!corners(dart(m, f, i)) = tri(m, f)
  BY DartCorners
<1>2. \A x : x \in Surface!Used(darts_of(m)) <=>
                \E d \in darts_of(m) : x \in Surface!corners(d)
  BY DEF Surface!Used
<1>3. \A x : x \in Surface!Used(darts_of(m)) <=> \E f \in faces(m) : x \in tri(m, f)
  <2>1. ASSUME NEW x, NEW d \in darts_of(m), x \in Surface!corners(d)
        PROVE  \E f \in faces(m) : x \in tri(m, f)
    <3>1. PICK f \in faces(m), i \in Locals : d = dart(m, f, i)
      BY DartsAre
    <3> QED
      BY <1>1, <2>1, <3>1
  <2>2. ASSUME NEW x, NEW f \in faces(m), x \in tri(m, f)
        PROVE  \E d \in darts_of(m) : x \in Surface!corners(d)
    <3>1. 0 \in Locals
      BY DEF Locals
    <3>2. dart(m, f, 0) \in darts_of(m)
      BY <3>1, DartsAre
    <3> QED
      BY <1>1, <2>2, <3>1, <3>2
  <2> QED
    BY <1>2, <2>1, <2>2
<1>4. \A f \in faces(m), k \in Locals : m.fv[f][k] \in vertices(m)
  BY Rows DEF Manifold
<1>5. \A v \in vertices(m) : m.vf[v] \in faces(m) /\ \E k \in Locals : m.fv[m.vf[v]][k] = v
  BY Rows DEF Manifold, Named
<1>6. \A f : \A x : x \in tri(m, f) <=> \E k \in Locals : x = m.fv[f][k]
  BY DEF tri
<1>7. \A x : x \in Surface!Used(darts_of(m)) <=> x \in vertices(m)
  BY <1>3, <1>4, <1>5, <1>6
<1> QED
  BY <1>7

\* A split of the edge in a mesh, as a step of the surface.
SplitStep(D, E, a, b, w) ==
    LET on == Surface!On(D, a, b)
    IN  E = (D \ on) \cup {Surface!moved(d, a, w) : d \in on} \cup {Surface!moved(d, b, w) : d \in on}

\* The executor's split is a split of the surface at a vertex it does not use.
LEMMA SplitIsStep ==
    ASSUME NEW m, Manifold(m), ~m.free, NEW t \in Tuples(m)
    PROVE  /\ SplitStep(darts_of(m), darts_of(split_edge(m, t)),
                        spine_vid(m, t, 0), spine_vid(m, t, 1), split_new_vid(m))
           /\ split_new_vid(m) \notin Surface!Used(darts_of(m))
<1> DEFINE r == split_edge(m, t)
           U == Fan(m, t)
           D == darts_of(m)
           a == spine_vid(m, t, 0)
           b == spine_vid(m, t, 1)
           w == split_new_vid(m)
           on == Surface!On(D, a, b)
<1>1. IsSplit(r, m, t, U)
  BY SplitEdgeIs, SplitFacts
<1> HIDE DEF r
<1>2. w \notin vertices(m)
  BY <1>1, SplitVertices
<1>3. \A d : d \in darts_of(r) <=>
              \/ d \in D /\ d \notin on
              \/ \E e \in on : d = Surface!moved(e, a, w) \/ d = Surface!moved(e, b, w)
  BY <1>1, SplitDarts
<1> HIDE DEF D, a, b, w, on
<1>4. darts_of(r) = (D \ on) \cup {Surface!moved(d, a, w) : d \in on}
                             \cup {Surface!moved(d, b, w) : d \in on}
  BY <1>3
<1>5. SplitStep(D, darts_of(r), a, b, w)
  BY <1>4 DEF SplitStep, on
<1>6. w \notin Surface!Used(D)
  BY <1>2, UsedVertices DEF D
<1> QED
  BY <1>5, <1>6 DEF D, a, b, w, r

\* On and the step are the same from either end.
LEMMA SplitEitherWay ==
    ASSUME NEW D, NEW E, NEW a, NEW b, NEW w, SplitStep(D, E, a, b, w)
    PROVE  SplitStep(D, E, b, a, w)
<1> DEFINE on == Surface!On(D, a, b)
           A == {Surface!moved(d, a, w) : d \in on}
           B == {Surface!moved(d, b, w) : d \in on}
<1>1. Surface!On(D, b, a) = on
  BY DEF Surface!On
<1>2. E = (D \ on) \cup A \cup B
  BY DEF SplitStep
<1> HIDE DEF A, B
<1>3. E = (D \ on) \cup B \cup A
  BY <1>2
<1> QED
  BY <1>1, <1>3 DEF A, B, SplitStep

CollapseStep(D, E, a, b) ==
    E = {Surface!moved(d, a, b) : d \in D \ Surface!On(D, a, b)}

\* A collapse by the executor that its link condition allows is one of the surface.
LEMMA CollapseIsStep ==
    ASSUME NEW m, Manifold(m), ~m.free, NEW t \in Tuples(m), link_condition(m, t)
    PROVE  CollapseStep(darts_of(m), darts_of(collapse_edge(m, t)),
                        spine_vid(m, t, 0), spine_vid(m, t, 1))
<1> DEFINE r == collapse_edge(m, t)
           U == Fan(m, t)
           D == darts_of(m)
           a == spine_vid(m, t, 0)
           b == spine_vid(m, t, 1)
           rest == D \ Surface!On(D, a, b)
<1>1. IsCollapse(r, m, t, U)
  BY LinkFacts, CollapseEdgeIs, CollapseFacts
<1> HIDE DEF r
<1>2. \A f : f \in faces(r) <=> f \in faces(m) /\ ~(Has(m, f, a) /\ Has(m, f, b))
  <2>1. \A f \in faces(m) : f \in Gone(m, t) <=> Has(m, f, a) /\ Has(m, f, b)
    BY GoneHas
  <2> QED
    BY <1>1, <2>1 DEF IsCollapse
<1>3. \A f \in faces(r), i \in Locals :
         dart(r, f, i) = Surface!moved(dart(m, f, i), a, b)
  <2> SUFFICES ASSUME NEW f \in faces(r), NEW i \in Locals
               PROVE  dart(r, f, i) = Surface!moved(dart(m, f, i), a, b)
    OBVIOUS
  <2>1. \A k \in Locals : r.fv[f][k] = IF m.fv[f][k] = a THEN b ELSE m.fv[f][k]
    BY <1>1 DEF IsCollapse, merge
  <2> HIDE DEF a, b
  <2> QED
    BY <2>1, DartMoved
<1>4. \A d : d \in rest <=> \E f \in faces(r), i \in Locals : d = dart(m, f, i)
  <2>1. ASSUME NEW d \in rest
        PROVE  \E f \in faces(r), i \in Locals : d = dart(m, f, i)
    <3>1. PICK f \in faces(m), i \in Locals : d = dart(m, f, i)
      BY DartsAre
    <3>2. ~(Has(m, f, a) /\ Has(m, f, b))
      BY <3>1, DartsOn
    <3> QED
      BY <1>2, <3>1, <3>2
  <2>2. ASSUME NEW d, NEW f \in faces(r), NEW i \in Locals, d = dart(m, f, i)
        PROVE  d \in rest
    <3>1. f \in faces(m) /\ ~(Has(m, f, a) /\ Has(m, f, b))
      BY <1>2
    <3>2. d \in D
      BY <2>2, <3>1, DartsAre
    <3>3. ~({a, b} \subseteq Surface!corners(d))
      BY <2>2, <3>1, DartCorners DEF tri, Has
    <3> QED
      BY <3>2, <3>3 DEF Surface!On
  <2> QED
    BY <2>1, <2>2
<1>5. \A d : d \in darts_of(r) <=> \E f \in faces(r), i \in Locals : d = dart(r, f, i)
  BY DartsAre
<1> HIDE DEF rest, D, a, b
<1>6. \A d : d \in darts_of(r) <=> \E e \in rest : d = Surface!moved(e, a, b)
  <2>1. ASSUME NEW d \in darts_of(r) PROVE \E e \in rest : d = Surface!moved(e, a, b)
    BY <1>3, <1>4, <1>5
  <2>2. ASSUME NEW e \in rest PROVE Surface!moved(e, a, b) \in darts_of(r)
    BY <1>3, <1>4, <1>5
  <2> QED
    BY <2>1, <2>2
<1>7. darts_of(r) = {Surface!moved(e, a, b) : e \in rest}
  BY <1>6
<1>8. CollapseStep(D, darts_of(r), a, b)
  BY <1>7 DEF CollapseStep, rest
<1> QED
  BY <1>8 DEF D, a, b, r

-----------------------------------------------------------------------------
(* Splits and collapses in a free mesh, on the surface.                    *)

\* Moving a vertex, in a triple.
LEMMA MovedTriple ==
    ASSUME NEW p, NEW q, NEW s, NEW u, NEW w
    PROVE  Surface!moved(<<p, q, s>>, u, w) =
              <<IF p = u THEN w ELSE p, IF q = u THEN w ELSE q, IF s = u THEN w ELSE s>>
<1> DEFINE new(v) == IF v = u THEN w ELSE v
           d == <<p, q, s>>
<1>1. Surface!moved(d, u, w) = [n \in 1 .. 3 |-> new(d[n])]
  BY DEF Surface!moved
<1>2. [n \in 1 .. 3 |-> new(d[n])] = <<new(p), new(q), new(s)>>
  OBVIOUS
<1> QED
  BY <1>1, <1>2

\* The darts that a face of a free mesh does not have.
LEMMA DartsApart ==
    ASSUME NEW m, Apart(m), NEW f \in faces(m), NEW i \in Locals
    PROVE  \A d : (d \in darts_of(m) /\ d \notin Surface!around(dart(m, f, i))) <=>
              \E g \in faces(m) \ {f}, k \in Locals : d = dart(m, g, k)
<1>1. \A d : d \in Surface!around(dart(m, f, i)) <=> \E k \in Locals : d = dart(m, f, k)
  BY DartsAround
<1>2. \A g \in faces(m), k, l \in Locals : dart(m, g, k) = dart(m, f, l) => g = f
  <2> SUFFICES ASSUME NEW g \in faces(m), NEW k \in Locals, NEW l \in Locals,
                      dart(m, g, k) = dart(m, f, l)
               PROVE  g = f
    OBVIOUS
  <2>1. m.fv[g][k] = m.fv[f][l]
    BY DEF dart
  <2> QED
    BY <2>1 DEF Apart
<1> QED
  BY <1>1, <1>2, DartsAre

\* The halves of a face of a free mesh: in the first one the end d[2] of the
\* edge is new, in the second one the two other vertices.
FreeStep(D, E, d, w, x, y) ==
    E = (D \ Surface!around(d)) \cup Surface!around(Surface!moved(d, d[2], w))
            \cup Surface!around(Surface!moved(Surface!moved(d, d[1], x), d[3], y))

\* In a free mesh, a split makes two faces that share no vertex.
LEMMA FreeSplitDarts ==
    ASSUME NEW m, Manifold(m), m.free, NEW t \in Tuples(m), NEW r, SplitTables(r, m, t)
    PROVE  \E d \in darts_of(m), x, y \in {split_new_vid(m), free_split_v(m, 1)} :
              x # y /\ FreeStep(darts_of(m), darts_of(r), d, free_split_v(m, 0), x, y)
<1> DEFINE f == t.f
           a == t.v
           b == third(t)
           e == t.e
           p == split_f(m, 1, 0)
           q == split_f(m, 1, 1)
           w == free_split_v(m, 0)
           z == free_split_v(m, 1)
           n == split_new_vid(m)
           V == vertices(m)
<1>1. IsFreeSplit(r, m, t, a, b, e) /\ Apart(m) /\ b \in Locals
  BY FreeSplitFacts, ManifoldApart, Places
<1>2. /\ a \in Locals /\ e \in Locals /\ a # b /\ a # e /\ b # e
      /\ Locals = {a, b, e} /\ f \in faces(m)
      /\ p # q /\ p \notin faces(m) /\ q \notin faces(m)
      /\ faces(r) = (faces(m) \ {f}) \cup {p, q}
      /\ r.fv[p][a] = m.fv[f][a] /\ r.fv[p][e] = m.fv[f][e] /\ r.fv[p][b] = w
      /\ r.fv[q][b] = m.fv[f][b] /\ r.fv[q][e] = n /\ r.fv[q][a] = z
      /\ \A g \in faces(m) \ {f} : r.fv[g] = m.fv[g]
  BY <1>1 DEF IsFreeSplit
<1>3. /\ \A k \in Locals : m.fv[f][k] \in V
      /\ w \notin V /\ z \notin V /\ n \notin V /\ z # n
  <2>1. \A k \in Locals : m.fv[f][k] \in V
    BY <1>2, Rows DEF Manifold
  <2>2. m.cap.v \in Nat /\ \A v \in V : v \in Nat /\ v < m.cap.v
    BY DEF Manifold, Fields, Typed
  <2> QED
    BY <2>1, <2>2 DEF free_split_v, split_new_vid
<1>4. PICK i \in Locals : (i + 1) % 3 = b
  <2>1. b = 0 \/ b = 1 \/ b = 2
    BY <1>1 DEF Locals
  <2>2. 0 \in Locals /\ 1 \in Locals /\ 2 \in Locals /\ (0 + 1) % 3 = 1 /\ (1 + 1) % 3 = 2
        /\ (2 + 1) % 3 = 0
    BY DEF Locals
  <2> QED
    BY <2>1, <2>2
<1> DEFINE l == (i + 2) % 3
<1>5. /\ l \in Locals /\ i # l /\ i # b /\ l # b
      /\ ((i = a /\ l = e) \/ (i = e /\ l = a))
      /\ Locals = {i, b, l}
  <2>1. l \in Locals /\ i # l /\ i # b /\ l # b /\ Locals = {i, b, l}
    BY <1>4, Turn
  <2> HIDE DEF l
  <2> QED
    BY <1>1, <1>2, <2>1
<1> DEFINE d == dart(m, f, i)
           x == r.fv[q][i]
           y == r.fv[q][l]
<1>6. d = <<m.fv[f][i], m.fv[f][b], m.fv[f][l]>>
  BY <1>4 DEF dart
<1>7. d \in darts_of(m)
  BY <1>2, DartsAre
<1>8. dart(r, p, i) = Surface!moved(d, m.fv[f][b], w)
  <2>1. \A g, h \in faces(m), k, o \in Locals : m.fv[g][k] = m.fv[h][o] => k = o
    BY <1>1 DEF Apart
  <2>2. \A k \in Locals : r.fv[p][k] = IF m.fv[f][k] = m.fv[f][b] THEN w ELSE m.fv[f][k]
    <3>1. m.fv[f][a] # m.fv[f][b] /\ m.fv[f][e] # m.fv[f][b]
      BY <1>1, <1>2, <2>1
    <3> HIDE DEF a, b, e, p, w, f
    <3> QED
      BY <1>2, <3>1
  <2> HIDE DEF p, w, f, b
  <2> QED
    BY <2>2, DartMoved
<1>9. dart(r, q, i) = <<x, m.fv[f][b], y>>
  <2>1. dart(r, q, i) = <<x, r.fv[q][(i + 1) % 3], y>>
    BY DEF dart
  <2> QED
    BY <1>2, <1>4, <2>1
<1>10. x \in {n, z} /\ y \in {n, z} /\ x # y
  BY <1>2, <1>3, <1>5
<1>11. Surface!moved(Surface!moved(d, d[1], x), d[3], y) = dart(r, q, i)
  <2> DEFINE A == m.fv[f][i]
             B == m.fv[f][b]
             C == m.fv[f][l]
  <2>1. A # B /\ B # C /\ A # C
    <3>1. \A k, o \in Locals : m.fv[f][k] = m.fv[f][o] => k = o
      BY SMTT(20), <1>1, <1>2 DEF Apart
    <3>2. i \in Locals /\ b \in Locals /\ l \in Locals /\ i # b /\ b # l /\ i # l
      BY <1>1, <1>4, <1>5
    <3> HIDE DEF l, b, f
    <3> QED
      BY ONLY <3>1, <3>2
  <2>2. x # C /\ y # C /\ x # A
    BY <1>3, <1>5, <1>10
  <2>3. d = <<A, B, C>> /\ d[1] = A /\ d[3] = C
    BY <1>6
  <2> HIDE DEF A, B, C, x, y, d
  <2>4. Surface!moved(<<A, B, C>>, A, x) =
           <<IF A = A THEN x ELSE A, IF B = A THEN x ELSE B, IF C = A THEN x ELSE C>>
    BY MovedTriple
  <2>5. Surface!moved(<<A, B, C>>, A, x) = <<x, B, C>>
    BY <2>1, <2>4
  <2>6. Surface!moved(<<x, B, C>>, C, y) =
           <<IF x = C THEN y ELSE x, IF B = C THEN y ELSE B, IF C = C THEN y ELSE C>>
    BY MovedTriple
  <2>7. Surface!moved(<<x, B, C>>, C, y) = <<x, B, y>>
    BY <2>1, <2>2, <2>6
  <2> QED
    BY <1>9, <2>3, <2>5, <2>7 DEF B
<1>12. d[2] = m.fv[f][b]
  BY <1>6
<1>13. \A c : c \in darts_of(r) <=>
          \/ c \in darts_of(m) /\ c \notin Surface!around(d)
          \/ c \in Surface!around(dart(r, p, i)) \/ c \in Surface!around(dart(r, q, i))
  <2>1. \A c : (c \in darts_of(m) /\ c \notin Surface!around(d)) <=>
                  \E g \in faces(m) \ {f}, k \in Locals : c = dart(m, g, k)
    BY <1>1, <1>2, DartsApart
  <2>2. \A c : /\ c \in Surface!around(dart(r, p, i)) <=> \E k \in Locals : c = dart(r, p, k)
               /\ c \in Surface!around(dart(r, q, i)) <=> \E k \in Locals : c = dart(r, q, k)
    BY DartsAround
  <2>3. \A g \in faces(m) \ {f}, k \in Locals : dart(r, g, k) = dart(m, g, k)
    BY <1>2 DEF dart
  <2>4. \A c : c \in darts_of(r) <=> \E g \in faces(r), k \in Locals : c = dart(r, g, k)
    BY DartsAre
  <2>5. \A g : g \in faces(r) <=> g \in faces(m) \ {f} \/ g = p \/ g = q
    BY <1>2
  <2> HIDE DEF p, q, f, d
  <2> QED
    BY <2>1, <2>2, <2>3, <2>4, <2>5
<1>14. FreeStep(darts_of(m), darts_of(r), d, w, x, y)
  <2> DEFINE D == darts_of(m)
             E == darts_of(r)
             A0 == Surface!around(d)
             A1 == Surface!around(dart(r, p, i))
             A2 == Surface!around(dart(r, q, i))
  <2>1. E = (D \ A0) \cup A1 \cup A2
    <3>1. \A c : c \in E <=> (c \in D /\ c \notin A0) \/ c \in A1 \/ c \in A2
      BY <1>13
    <3> HIDE DEF D, E, A0, A1, A2
    <3> QED
      BY <3>1
  <2>2. A1 = Surface!around(Surface!moved(d, d[2], w))
    BY <1>8, <1>12
  <2>3. A2 = Surface!around(Surface!moved(Surface!moved(d, d[1], x), d[3], y))
    BY <1>11
  <2> QED
    BY <2>1, <2>2, <2>3 DEF FreeStep
<1> QED
  BY <1>7, <1>10, <1>14

\* In a free mesh, a collapse takes the face away.
LEMMA FreeCollapseDarts ==
    ASSUME NEW m, Manifold(m), m.free, NEW t \in Tuples(m)
    PROVE  \E d \in darts_of(m) :
              darts_of(collapse_edge(m, t)) = darts_of(m) \ Surface!around(d)
<1> DEFINE r == collapse_free(m, t)
           f == t.f
           d == dart(m, f, 0)
<1>0. r = collapse_edge(m, t)
  BY DEF collapse_edge
<1>1. Apart(m) /\ Tables(m) /\ f \in faces(m) /\ 0 \in Locals
  BY ManifoldApart, ManifoldTables DEF Manifold, Tuples, Locals
<1>2. Removed(r, m, {m.fv[t.f][k] : k \in Locals}, {m.fe[t.f][k] : k \in Locals}, {t.f})
  BY <1>1, RemoveSimplices DEF collapse_free
<1> HIDE DEF r
<1>3. faces(r) = faces(m) \ {f} /\ \A g \in faces(r) : r.fv[g] = m.fv[g]
  BY <1>2 DEF Removed
<1>4. d \in darts_of(m)
  BY <1>1, DartsAre
<1>5. \A c : (c \in darts_of(m) /\ c \notin Surface!around(d)) <=>
                \E g \in faces(m) \ {f}, k \in Locals : c = dart(m, g, k)
  BY <1>1, DartsApart
<1>6. \A g \in faces(r), k \in Locals : dart(r, g, k) = dart(m, g, k)
  BY <1>3 DEF dart
<1>7. \A c : c \in darts_of(r) <=> \E g \in faces(r), k \in Locals : c = dart(r, g, k)
  BY DartsAre
<1> HIDE DEF f, d
<1>8. \A c : c \in darts_of(r) <=> c \in darts_of(m) /\ c \notin Surface!around(d)
  BY <1>3, <1>5, <1>6, <1>7
<1>9. darts_of(r) = darts_of(m) \ Surface!around(d)
  BY <1>8
<1> QED
  BY <1>0, <1>4, <1>9

-----------------------------------------------------------------------------
(* consolidate numbers the vertices of the surface anew.                   *)

number(D, v) == Surface!Cardinality({u \in Surface!Used(D) : u < v})
RenumberStep(D, E) == E = {<<number(D, d[1]), number(D, d[2]), number(D, d[3])>> : d \in D}

\* consolidate numbers a vertex as the surface does.
LEMMA NumberIs ==
    ASSUME NEW m, Manifold(m), NEW v \in vertices(m)
    PROVE  number(darts_of(m), v) = old2new(vertices(m), v)
<1>1. Surface!Used(darts_of(m)) = vertices(m)
  BY UsedVertices
<1>2. v \in Nat
  BY Rows DEF Manifold
<1>3. ~(v < 0)
  BY <1>2
<1>4. old2new(vertices(m), v) = Cardinality({u \in vertices(m) : u < v})
  BY <1>3 DEF old2new
<1>5. number(darts_of(m), v) = Surface!Cardinality({u \in vertices(m) : u < v})
  BY <1>1 DEF number
<1> QED
  BY <1>4, <1>5, SameCardinality

\* consolidate renumbers the surface.
LEMMA ConsolidatedIsStep ==
    ASSUME NEW m, Manifold(m)
    PROVE  RenumberStep(darts_of(m), darts_of(consolidated(m)))
<1> DEFINE r == consolidated(m)
           D == darts_of(m)
           E == darts_of(r)
           F == faces(m)
           new(d) == <<number(D, d[1]), number(D, d[2]), number(D, d[3])>>
<1>1. IsPacked(r, m)
  BY ConsolidatedIs DEF Manifold
<1>2. PackedRows(r, m)
  BY <1>1, PackedRowsAre
<1> HIDE DEF r
<1>3. \A f \in faces(r), i \in Locals : dart(r, f, i) = new(dart(m, packed(F, f), i))
  <2> SUFFICES ASSUME NEW f \in faces(r), NEW i \in Locals
               PROVE  dart(r, f, i) = new(dart(m, packed(F, f), i))
    OBVIOUS
  <2> DEFINE g == packed(F, f)
             j == (i + 1) % 3
             k == (i + 2) % 3
  <2>1. \A l \in Locals : m.fv[g][l] \in vertices(m) /\ r.fv[f][l] = old2new(vertices(m), m.fv[g][l])
    BY <1>2 DEF PackedRows
  <2>2. \A l \in Locals : r.fv[f][l] = number(D, m.fv[g][l])
    BY <2>1, NumberIs
  <2>3. j \in Locals /\ k \in Locals
    BY Turn
  <2>4. dart(m, g, i) = <<m.fv[g][i], m.fv[g][j], m.fv[g][k]>>
        /\ dart(r, f, i) = <<r.fv[f][i], r.fv[f][j], r.fv[f][k]>>
    BY DEF dart
  <2> HIDE DEF j, k, g
  <2>5. new(dart(m, g, i)) = <<number(D, m.fv[g][i]), number(D, m.fv[g][j]), number(D, m.fv[g][k])>>
    BY <2>4
  <2>6. dart(r, f, i) = <<number(D, m.fv[g][i]), number(D, m.fv[g][j]), number(D, m.fv[g][k])>>
    BY <2>2, <2>3, <2>4
  <2> QED
    BY <2>5, <2>6 DEF g
<1>4. /\ \A f \in faces(r) : packed(F, f) \in F
      /\ \A g \in F : \E f \in faces(r) : packed(F, f) = g
  <2>1. Numbers(F) /\ faces(r) = upto(F)
    BY <1>1 DEF IsPacked
  <2> QED
    BY <2>1 DEF Numbers
<1>5. \A d : d \in E <=> \E f \in faces(r), i \in Locals : d = dart(r, f, i)
  BY DartsAre
<1>6. \A d : d \in D <=> \E f \in F, i \in Locals : d = dart(m, f, i)
  BY DartsAre
<1> HIDE DEF D, E, F, new
<1>7. ASSUME NEW d \in E PROVE \E e \in D : d = new(e)
  <2>1. PICK f \in faces(r), i \in Locals : d = dart(r, f, i)
    BY <1>5
  <2>2. dart(m, packed(F, f), i) \in D
    BY <1>4, <1>6
  <2> QED
    BY <1>3, <2>1, <2>2
<1>8. ASSUME NEW e \in D PROVE new(e) \in E
  <2>1. PICK g \in F, i \in Locals : e = dart(m, g, i)
    BY <1>6
  <2>2. PICK f \in faces(r) : packed(F, f) = g
    BY <1>4
  <2>3. dart(r, f, i) = new(e)
    BY <1>3, <2>1, <2>2
  <2> QED
    BY <1>5, <2>3
<1>9. E = {new(e) : e \in D}
  BY <1>7, <1>8
<1>10. E = {<<number(D, d[1]), number(D, d[2]), number(D, d[3])>> : d \in D}
  BY <1>9 DEF new
<1> QED
  BY <1>10 DEF RenumberStep, D, E, r

-----------------------------------------------------------------------------
(* A manifold is a surface.                                                *)

\* Three that differ are three.
LEMMA TripleCount ==
    ASSUME NEW a, NEW b, NEW c, a # b, a # c, b # c
    PROVE  Cardinality({a, b, c}) = 3
<1>1. IsFiniteSet({}) /\ Cardinality({}) = 0
  BY FS_EmptySet
<1>2. IsFiniteSet({} \cup {a}) /\ Cardinality({} \cup {a}) = 1
  BY <1>1, FS_AddElement
<1>3. {} \cup {a} = {a} /\ b \notin {a}
  OBVIOUS
<1>4. IsFiniteSet({a} \cup {b}) /\ Cardinality({a} \cup {b}) = 2
  BY <1>2, <1>3, FS_AddElement
<1> DEFINE S == {a} \cup {b}
<1>5. c \notin S /\ S \cup {c} = {a, b, c}
  OBVIOUS
<1> HIDE DEF S
<1>6. Cardinality(S \cup {c}) = 3
  BY <1>4, <1>5, FS_AddElement DEF S
<1> QED
  BY <1>5, <1>6

\* Some of two are at most two.
LEMMA PairCount ==
    ASSUME NEW a, NEW b, NEW S, S \subseteq {a, b}
    PROVE  Cardinality(S) <= 2
<1>1. IsFiniteSet({}) /\ Cardinality({}) = 0
  BY FS_EmptySet
<1>2. IsFiniteSet({} \cup {a}) /\ Cardinality({} \cup {a}) = 1
  BY <1>1, FS_AddElement
<1>3. {} \cup {a} = {a} /\ {a} \cup {b} = {a, b}
  OBVIOUS
<1> DEFINE T == {a, b}
<1>4. IsFiniteSet(T) /\ (Cardinality(T) = 1 \/ Cardinality(T) = 2)
  <2>1. CASE a = b
    <3>1. T = {a}
      BY <2>1
    <3> QED
      BY <1>2, <1>3, <3>1
  <2>2. CASE a # b
    <3>1. b \notin {a}
      BY <2>2
    <3>2. IsFiniteSet({a} \cup {b}) /\ Cardinality({a} \cup {b}) = 2
      BY <1>2, <1>3, <3>1, FS_AddElement
    <3> QED
      BY <1>3, <3>2
  <2> QED
    BY <2>1, <2>2
<1> HIDE DEF T
<1>5. S \in SUBSET T
  BY DEF T
<1>6. Cardinality(S) <= Cardinality(T) /\ Cardinality(S) \in Nat /\ Cardinality(T) \in Nat
  BY <1>4, <1>5, FS_Subset, FS_CardinalityType
<1> QED
  BY <1>4, <1>6

\* The type of a surface, of its darts D.
IsSurface(D, free) ==
    /\ free \in BOOLEAN
    /\ D \subseteq (0 .. MaxVertices - 1) \X (0 .. MaxVertices - 1) \X (0 .. MaxVertices - 1)
    /\ \A d \in D : Surface!Cardinality(Surface!corners(d)) = 3 /\ Surface!around(d) \subseteq D
    /\ \A e \in Surface!Edges(D) :
          Surface!Cardinality({t \in Surface!Triangles(D) : e \subseteq t}) <= 2
    /\ free => \A d, f \in D : \/ f \in Surface!around(d)
                               \/ Surface!corners(d) \cap Surface!corners(f) = {}

\* The darts of a manifold have the type of the surface.
LEMMA ManifoldIsSurface ==
    ASSUME NEW m, Manifold(m), m.cap.v <= MaxVertices
    PROVE  IsSurface(darts_of(m), m.free)
<1> DEFINE D == darts_of(m)
           V == 0 .. MaxVertices - 1
<1>1. m.free \in BOOLEAN
  BY DEF Manifold, Fields
<1>2. \A f \in faces(m), k \in Locals : m.fv[f][k] \in V
  <2>1. \A f \in faces(m), k \in Locals : m.fv[f][k] \in vertices(m)
    BY Rows DEF Manifold
  <2>2. vertices(m) \subseteq 0 .. m.cap.v - 1 /\ m.cap.v \in Nat
    BY DEF Manifold, Typed, Fields
  <2> QED
    BY <2>1, <2>2, MaxVerticesAssumption
<1>3. D \subseteq V \X V \X V
  <2> SUFFICES ASSUME NEW d \in D PROVE d \in V \X V \X V
    OBVIOUS
  <2>1. PICK f \in faces(m), i \in Locals : d = dart(m, f, i)
    BY DartsAre
  <2> DEFINE j == (i + 1) % 3
             k == (i + 2) % 3
  <2>2. j \in Locals /\ k \in Locals
    BY Turn
  <2>3. d = <<m.fv[f][i], m.fv[f][j], m.fv[f][k]>>
    BY <2>1 DEF dart
  <2> HIDE DEF j, k, V
  <2> QED
    BY <1>2, <2>2, <2>3
<1>4. \A d \in D : Surface!Cardinality(Surface!corners(d)) = 3 /\ Surface!around(d) \subseteq D
  <2> SUFFICES ASSUME NEW d \in D
               PROVE  Surface!Cardinality(Surface!corners(d)) = 3 /\ Surface!around(d) \subseteq D
    OBVIOUS
  <2>1. PICK f \in faces(m), i \in Locals : d = dart(m, f, i)
    BY DartsAre
  <2> DEFINE j == (i + 1) % 3
             k == (i + 2) % 3
             a == m.fv[f][i]
             b == m.fv[f][j]
             c == m.fv[f][k]
  <2>2. i # j /\ i # k /\ j # k /\ j \in Locals /\ k \in Locals
    BY Turn
  <2>3. a # b /\ a # c /\ b # c
    <3>1. \A x, y \in Locals : m.fv[f][x] = m.fv[f][y] => x = y
      BY DEF Manifold, Corners
    <3> HIDE DEF j, k
    <3> QED
      BY <2>2, <3>1
  <2>4. Surface!corners(d) = {a, b, c}
    BY <2>1 DEF Surface!corners, dart
  <2> HIDE DEF a, b, c
  <2>5. Cardinality({a, b, c}) = 3
    BY <2>3, TripleCount
  <2>6. Surface!Cardinality(Surface!corners(d)) = 3
    BY <2>4, <2>5, SameCardinality
  <2>7. \A e \in Surface!around(d) : e \in D
    <3>1. \A e \in Surface!around(d) : \E l \in Locals : e = dart(m, f, l)
      BY <2>1, DartsAround
    <3> QED
      BY <2>1, <3>1, DartsAre
  <2> QED
    BY <2>6, <2>7
<1>5. \A e \in Surface!Edges(D) :
         Surface!Cardinality({t \in Surface!Triangles(D) : e \subseteq t}) <= 2
  <2> SUFFICES ASSUME NEW e \in Surface!Edges(D)
               PROVE  Surface!Cardinality({t \in Surface!Triangles(D) : e \subseteq t}) <= 2
    OBVIOUS
  <2>1. PICK f \in faces(m), k \in Locals : e = ends(m, f, k)
    BY EdgesAre
  <2> DEFINE T == {t \in Surface!Triangles(D) : e \subseteq t}
  <2>2. T \subseteq {tri(m, f), tri(m, m.ff[f][k])}
    <3> SUFFICES ASSUME NEW t \in Surface!Triangles(D), e \subseteq t
                 PROVE  t = tri(m, f) \/ t = tri(m, m.ff[f][k])
      OBVIOUS
    <3>1. PICK h \in faces(m) : t = tri(m, h)
      BY TrianglesAre
    <3>2. h = f \/ h = m.ff[f][k]
      BY <2>1, <3>1, FacesOfEdge
    <3> QED
      BY <3>1, <3>2
  <2> HIDE DEF T
  <2>3. Cardinality(T) <= 2
    BY <2>2, PairCount
  <2>4. Surface!Cardinality(T) <= 2
    BY <2>3, SameCardinality
  <2> QED
    BY <2>4 DEF T
<1>6. ASSUME m.free, NEW d \in D, NEW c \in D, c \notin Surface!around(d)
      PROVE  Surface!corners(d) \cap Surface!corners(c) = {}
  <2>1. PICK f \in faces(m), i \in Locals : d = dart(m, f, i)
    BY DartsAre
  <2>2. PICK g \in faces(m) \ {f}, j \in Locals : c = dart(m, g, j)
    BY <1>6, <2>1, ManifoldApart, DartsApart
  <2>3. Surface!corners(d) = tri(m, f) /\ Surface!corners(c) = tri(m, g)
    BY <2>1, <2>2, DartCorners
  <2>4. \A k, l \in Locals : m.fv[f][k] # m.fv[g][l]
    BY <1>6, <2>2, ManifoldApart DEF Apart
  <2>5. tri(m, f) \cap tri(m, g) = {}
    BY <2>4 DEF tri
  <2> QED
    BY <2>3, <2>5
<1> QED
  BY <1>1, <1>3, <1>4, <1>5, <1>6 DEF IsSurface

-----------------------------------------------------------------------------
(* Each step is one of the surface.                                        *)

\* The darts are those of the table of faces.
LEMMA SameDarts ==
    ASSUME NEW m, NEW r, r.fv = m.fv
    PROVE  darts_of(r) = darts_of(m)
BY DEF darts_of, faces

\* Initial meshes are initial surfaces.
LEMMA InitIsSurface == Init => Surface!Init
<1> SUFFICES ASSUME Init PROVE Surface!Init
  OBVIOUS
<1>1. Inv
  BY InvInit
<1>2. mesh.cap.v \in Nat /\ splits \in Nat
  BY <1>1 DEF Inv, Manifold, Fields
<1>3. mesh.cap.v <= MaxVertices
  <2>1. mesh.cap.v + (IF mesh.free THEN 3 ELSE 1) * splits <= MaxVertices
    BY <1>1 DEF Inv
  <2>2. (IF mesh.free THEN 3 ELSE 1) * splits \in Nat
    BY <1>2
  <2> QED
    BY <1>2, <2>1, <2>2, MaxVerticesAssumption
<1>4. IsSurface(darts_of(mesh), mesh.free)
  BY <1>1, <1>3, ManifoldIsSurface DEF Inv
<1> QED
  BY <1>4 DEF Surface!Init, Surface!TypeOK, IsSurface

\* consolidate is a step of the surface.
LEMMA ConsolidateIsSurface ==
    ASSUME Inv, consolidate
    PROVE  Surface!Next
<1>1. RenumberStep(darts_of(mesh), darts_of(mesh')) /\ mesh'.free = mesh.free
  BY ConsolidatedIsStep, ConsolidatedKeepsManifold DEF consolidate, Inv
<1>2. Surface!Renumber
  BY <1>1 DEF Surface!Renumber, RenumberStep, number, darts_of, faces
<1> QED
  BY <1>2 DEF Surface!Next

\* The mesh is what it is after a step: primes are inside.
LEMMA DartsThen == darts_of(mesh)' = darts_of(mesh')
BY DEF darts_of, faces

\* A split is a step of the surface, or changes nothing of it.
LEMMA SplitIsSurface ==
    ASSUME Inv, NEW t \in Tuples(mesh), NEW accepted \in BOOLEAN, split(t, accepted)
    PROVE  [Surface!Next]_(Surface!vars)
<1> DEFINE D == darts_of(mesh)
           E == darts_of(mesh')
           w == split_new_vid(mesh)
           V == 0 .. MaxVertices - 1
<1>0. Manifold(mesh) /\ splits \in Nat /\ splits > 0 /\ mesh.cap.v \in Nat /\ MaxVertices \in Nat
      /\ mesh.free \in BOOLEAN
  BY MaxVerticesAssumption DEF Inv, split, Manifold, Fields
<1>1. mesh.cap.v + (IF mesh.free THEN 3 ELSE 1) <= MaxVertices
  <2>1. mesh.cap.v + (IF mesh.free THEN 3 ELSE 1) * splits <= MaxVertices
    BY DEF Inv
  <2>2. (IF mesh.free THEN 3 ELSE 1) * splits >= (IF mesh.free THEN 3 ELSE 1)
    BY <1>0
  <2>3. (IF mesh.free THEN 3 ELSE 1) * splits \in Nat
    BY <1>0
  <2> QED
    BY <1>0, <2>1, <2>2, <2>3
<1>2. Surface!Used(D) = vertices(mesh) /\ \A v \in vertices(mesh) : v \in Nat /\ v < mesh.cap.v
  <2>1. Surface!Used(D) = vertices(mesh)
    BY <1>0, UsedVertices
  <2>2. vertices(mesh) \subseteq 0 .. mesh.cap.v - 1
    BY <1>0 DEF Manifold, Typed
  <2>3. \A v \in vertices(mesh) : v \in Nat /\ v < mesh.cap.v
    BY <1>0, <2>2
  <2> QED
    BY <2>1, <2>3
<1>3. CASE ~accepted
  <2>1. mesh'.fv = mesh.fv /\ mesh'.free = mesh.free
    BY <1>0, <1>3 DEF split, Manifold, Fields, Plain, Attributes
  <2>2. E = D
    BY <2>1, SameDarts
  <2> QED
    BY <2>1, <2>2, DartsThen DEF Surface!vars
<1>4. CASE accepted /\ ~mesh.free
  <2>1. mesh' = split_edge(mesh, t) /\ mesh'.free = mesh.free
    BY <1>0, <1>4, SplitKeepsManifold DEF split
  <2> DEFINE a == spine_vid(mesh, t, 0)
             b == spine_vid(mesh, t, 1)
  <2>2. SplitStep(D, E, a, b, w) /\ w \notin Surface!Used(D)
    BY <1>0, <1>4, <2>1, SplitIsStep
  <2>3. SplitStep(D, E, b, a, w)
    BY <2>2, SplitEitherWay
  <2>4. w \in V \ Surface!Used(D)
    BY <1>0, <1>1, <1>4, <2>2 DEF split_new_vid
  <2>5. ASSUME NEW x, NEW y, SplitStep(D, E, x, y, w)
        PROVE  Surface!Split(x, y)
    <3>1. LET on == Surface!On(D, x, y)
          IN  E = (D \ on) \cup {Surface!moved(d, x, w) : d \in on}
                           \cup {Surface!moved(d, y, w) : d \in on}
      BY <2>5 DEF SplitStep
    <3>2. darts_of(mesh)' = E
      BY DartsThen
    <3> QED
      BY <1>4, <2>1, <2>4, <3>1, <3>2 DEF Surface!Split
  <2>6. PICK d \in D : (d[1] = a /\ d[2] = b) \/ (d[1] = b /\ d[2] = a)
    BY EdgeDart
  <2>7. Surface!Split(d[1], d[2])
    BY <2>2, <2>3, <2>5, <2>6
  <2> QED
    BY <2>6, <2>7 DEF Surface!Next
<1>5. CASE accepted /\ mesh.free
  <2>1. mesh' = split_edge(mesh, t) /\ mesh'.free = mesh.free
    BY <1>0, <1>5, SplitKeepsManifold DEF split
  <2>2. SplitTables(mesh', mesh, t)
    BY <1>0, <2>1, SplitEdgeIs
  <2> DEFINE z == free_split_v(mesh, 0)
  <2>3. PICK d \in D, x, y \in {w, free_split_v(mesh, 1)} :
           x # y /\ FreeStep(D, E, d, z, x, y)
    BY <1>0, <1>5, <2>2, FreeSplitDarts
  <2>4. z \in V \ Surface!Used(D) /\ x \in V \ Surface!Used(D) /\ y \in V \ Surface!Used(D)
        /\ z # x /\ z # y
    <3>1. z = mesh.cap.v + 1 /\ w = mesh.cap.v /\ free_split_v(mesh, 1) = mesh.cap.v + 2
      BY <1>0 DEF split_new_vid, free_split_v
    <3>2. \A n \in {mesh.cap.v, mesh.cap.v + 1, mesh.cap.v + 2} : n \in V \ Surface!Used(D)
      BY <1>0, <1>1, <1>2, <1>5
    <3> HIDE DEF V, D
    <3> QED
      BY <1>0, <2>3, <3>1, <3>2
  <2>5. Surface!Cardinality({z, x, y}) = 3
    <3> HIDE DEF z
    <3>1. Cardinality({z, x, y}) = 3
      BY <2>3, <2>4, TripleCount
    <3> QED
      BY <3>1, SameCardinality
  <2>6. E = (D \ Surface!around(d)) \cup Surface!around(Surface!moved(d, d[2], z))
                \cup Surface!around(Surface!moved(Surface!moved(d, d[1], x), d[3], y))
    BY <2>3 DEF FreeStep
  <2>7. Surface!SplitFree(d)
    <3>1. darts_of(mesh)' = E
      BY DartsThen
    <3>2. \E p, q, s \in V \ Surface!Used(D) :
             /\ Surface!Cardinality({p, q, s}) = 3
             /\ E = (D \ Surface!around(d)) \cup Surface!around(Surface!moved(d, d[2], p))
                        \cup Surface!around(Surface!moved(Surface!moved(d, d[1], q), d[3], s))
      BY <2>4, <2>5, <2>6
    <3> QED
      BY <1>5, <2>1, <3>1, <3>2 DEF Surface!SplitFree
  <2> QED
    BY <2>3, <2>7 DEF Surface!Next
<1> QED
  BY <1>0, <1>3, <1>4, <1>5

\* A collapse is a step of the surface, or changes nothing of it.
LEMMA CollapseIsSurface ==
    ASSUME Inv, NEW t \in Tuples(mesh), NEW accepted \in BOOLEAN, collapse(t, accepted)
    PROVE  [Surface!Next]_(Surface!vars)
<1> DEFINE D == darts_of(mesh)
           E == darts_of(mesh')
<1>0. Manifold(mesh) /\ mesh.free \in BOOLEAN
  BY DEF Inv, Manifold, Fields
<1>1. CASE ~accepted
  <2>1. mesh' = mesh
    BY <1>1 DEF collapse
  <2> QED
    BY <2>1, DartsThen DEF Surface!vars
<1>2. CASE accepted /\ ~mesh.free
  <2>1. mesh' = collapse_edge(mesh, t) /\ link_condition(mesh, t)
    BY <1>2 DEF collapse
  <2>2. mesh'.free = mesh.free
    BY <1>0, <2>1, CollapseKeepsManifold
  <2> DEFINE a == spine_vid(mesh, t, 0)
             b == spine_vid(mesh, t, 1)
  <2>3. CollapseStep(D, E, a, b)
    BY <1>0, <1>2, <2>1, CollapseIsStep
  <2>4. Surface!LinkCondition(D, a, b)
    <3>1. a = id_vertex(mesh, t) /\ b = id_vertex(mesh, switch_vertex(t))
      BY DEF spine_vid
    <3> QED
      BY <1>0, <2>1, <3>1, LinkExact
  <2>5. Surface!Collapse(a, b)
    <3>1. darts_of(mesh)' = E
      BY DartsThen
    <3>2. E = {Surface!moved(d, a, b) : d \in D \ Surface!On(D, a, b)}
      BY <2>3 DEF CollapseStep
    <3> QED
      BY <1>2, <2>2, <2>4, <3>1, <3>2 DEF Surface!Collapse
  <2>6. PICK d \in D : (d[1] = a /\ d[2] = b) \/ (d[1] = b /\ d[2] = a)
    BY EdgeDart
  <2>7. Surface!Collapse(d[1], d[2]) \/ Surface!Collapse(d[2], d[1])
    BY <2>5, <2>6
  <2> QED
    BY <2>6, <2>7 DEF Surface!Next
<1>3. CASE accepted /\ mesh.free
  <2>1. mesh' = collapse_edge(mesh, t)
    BY <1>3 DEF collapse
  <2>2. mesh'.free = mesh.free
    BY <1>0, <1>3, <2>1, CollapseKeepsManifold
  <2>3. PICK d \in D : E = D \ Surface!around(d)
    BY <1>0, <1>3, <2>1, FreeCollapseDarts
  <2>4. Surface!CollapseFree(d)
    BY <1>3, <2>2, <2>3, DartsThen DEF Surface!CollapseFree
  <2> QED
    BY <2>3, <2>4 DEF Surface!Next
<1> QED
  BY <1>0, <1>1, <1>2, <1>3

\* TriMesh implements the surface: whatever the ids and the tables, a split, a
\* collapse and a consolidate do to the triangles what TriangleComplex says, a
\* collapse under the textbook's link condition, and what fails changes none.
THEOREM ComplexRefinement == Spec => ImplementsComplex
<1>1. Init => Surface!Init
  BY InitIsSurface
<1>2. Inv /\ [Next]_vars => [Surface!Next]_(Surface!vars)
  <2> SUFFICES ASSUME Inv, [Next]_vars
               PROVE  [Surface!Next]_(Surface!vars)
    OBVIOUS
  <2>1. CASE consolidate
    BY <2>1, ConsolidateIsSurface
  <2>2. CASE \E t \in Tuples(mesh), accepted \in BOOLEAN : split(t, accepted)
    BY <2>2, SplitIsSurface
  <2>3. CASE \E t \in Tuples(mesh), accepted \in BOOLEAN : collapse(t, accepted)
    BY <2>3, CollapseIsSurface
  <2>4. CASE UNCHANGED vars
    <3>1. mesh' = mesh
      BY <2>4 DEF vars
    <3> QED
      BY <3>1, DartsThen DEF Surface!vars
  <2> QED
    BY <2>1, <2>2, <2>3, <2>4 DEF Next
<1> QED
  BY <1>1, <1>2, AlwaysManifold, PTL DEF Spec, ImplementsComplex, Surface!Spec

-----------------------------------------------------------------------------
\* The tables have a row for each active simplex, of active ids below the
\* capacities, and the bound on the vertices holds.
THEOREM TypeCorrect == Spec => []TypeOK
BY AlwaysManifold, InvTypeOK, PTL

\* TriMesh::is_connectivity_valid holds after every operation.
THEOREM ConnectivityCorrect == Spec => []is_connectivity_valid
BY AlwaysManifold, InvConnectivityValid, PTL

\* The tables stay those of the triangles: what the check of the code lets pass
\* and would break the operations after it does not happen.
THEOREM TablesCorrect == Spec => []TablesAgree
BY AlwaysManifold, InvTablesAgree, PTL

\* Turning around any vertex from the tuple of its table meets all its faces,
\* which is what collapse_edge relies on to rename the vertex.
THEOREM StarsCorrect == Spec => []StarsReachable
BY AlwaysManifold, InvStarsReachable, PTL

\* The tuples that split_edge and collapse_edge return are tuples of the mesh
\* they leave, at the vertex that their assertions ask for.
THEOREM OutputCorrect == Spec => []OutputNavigable
BY AlwaysManifold, InvOutputNavigable, PTL

\* simplex::link_condition decides the link condition of the surface whose
\* boundary is coned to a vertex, on every edge of every mesh that is reached.
THEOREM LinkConditionCorrect == Spec => []LinkConditionExact
BY AlwaysManifold, InvLinkConditionExact, PTL

-----------------------------------------------------------------------------
(* Multimesh: the maps between the parent and the child.                   *)

\* MapsAgree of any parent m, edges K of its child and maps M.
Agree(m, K, M) ==
    /\ DOMAIN M.c2p = K
    /\ \A c \in K :
          /\ M.c2p[c] \in Tuples(m)
          /\ id_edge(m, M.c2p[c]) \in DOMAIN M.p2c
          /\ M.p2c[id_edge(m, M.c2p[c])] = [c |-> c, v |-> M.c2p[c].v, e |-> M.c2p[c].e]
    /\ \A e \in DOMAIN M.p2c : M.p2c[e].c \in K /\ id_edge(m, M.c2p[M.p2c[e].c]) = e

\* The inductive invariant: the parent is a surface, the maps agree, and an id
\* of the child's that is not given yet is not in them.
IsCurve(k) == k = [v |-> k.v, e |-> k.e, ev |-> k.ev, ee |-> k.ee, ve |-> k.ve]
FamilyInv ==
    /\ Inv /\ ~mesh.free
    /\ capacity.e \in Nat /\ curve.e \subseteq 0 .. capacity.e - 1 /\ IsCurve(curve)
    /\ Agree(mesh, curve.e, maps)

\* An edge of the child has one tuple, and no two have tuples of one edge.
LEMMA AgreeFacts ==
    ASSUME NEW m, Manifold(m), NEW K, NEW M, Agree(m, K, M)
    PROVE  /\ \A e \in DOMAIN M.p2c :
                 /\ M.p2c[e].c \in K /\ M.c2p[M.p2c[e].c] \in Tuples(m)
                 /\ id_edge(m, M.c2p[M.p2c[e].c]) = e /\ e \in edges(m)
                 /\ mapped_tuple(M, e) = M.c2p[M.p2c[e].c]
                 /\ M.p2c[e] = [c |-> M.p2c[e].c, v |-> M.c2p[M.p2c[e].c].v,
                                e |-> M.c2p[M.p2c[e].c].e]
           /\ \A c \in K : M.p2c[id_edge(m, M.c2p[c])].c = c
           /\ \A c, d \in K : id_edge(m, M.c2p[c]) = id_edge(m, M.c2p[d]) => c = d
<1>1. ASSUME NEW c \in K
      PROVE  M.p2c[id_edge(m, M.c2p[c])].c = c
  <2>1. M.p2c[id_edge(m, M.c2p[c])] = [c |-> c, v |-> M.c2p[c].v, e |-> M.c2p[c].e]
    BY DEF Agree
  <2> QED
    BY <2>1
<1>2. \A c, d \in K : id_edge(m, M.c2p[c]) = id_edge(m, M.c2p[d]) => c = d
  BY <1>1
<1>3. ASSUME NEW e \in DOMAIN M.p2c
      PROVE  /\ M.p2c[e].c \in K /\ M.c2p[M.p2c[e].c] \in Tuples(m)
             /\ id_edge(m, M.c2p[M.p2c[e].c]) = e /\ e \in edges(m)
             /\ mapped_tuple(M, e) = M.c2p[M.p2c[e].c]
             /\ M.p2c[e] = [c |-> M.p2c[e].c, v |-> M.c2p[M.p2c[e].c].v,
                            e |-> M.c2p[M.p2c[e].c].e]
  <2> DEFINE c == M.p2c[e].c
             x == M.c2p[c]
  <2>1. c \in K /\ id_edge(m, x) = e /\ x \in Tuples(m)
        /\ M.p2c[e] = [c |-> c, v |-> x.v, e |-> x.e]
    BY DEF Agree
  <2>2. e \in edges(m)
    <3>1. x.f \in faces(m) /\ x.e \in Locals
      BY <2>1 DEF Tuples
    <3>2. m.fe[x.f][x.e] \in edges(m)
      BY <3>1, Rows DEF Manifold
    <3> QED
      BY <2>1, <3>2 DEF id_edge
  <2>3. x = [v |-> x.v, e |-> x.e, f |-> x.f]
    BY <2>1 DEF Tuples
  <2>4. M.p2c[e].v = x.v /\ M.p2c[e].e = x.e
    BY <2>1
  <2>5. mapped_tuple(M, e) = [v |-> x.v, e |-> x.e, f |-> x.f]
    BY <2>4 DEF mapped_tuple
  <2> QED
    BY <2>1, <2>2, <2>3, <2>5
<1> QED
  BY <1>1, <1>2, <1>3

\* W is M where the child's edge c and the edge e of the parent have been given
\* the tuple a.
Wrote(W, M, c, e, a) ==
    /\ DOMAIN W.p2c = DOMAIN M.p2c \cup {e} /\ DOMAIN W.c2p = DOMAIN M.c2p \cup {c}
    /\ W.p2c[e] = [c |-> c, v |-> a.v, e |-> a.e] /\ W.c2p[c] = a
    /\ \A i \in DOMAIN M.p2c : i # e => W.p2c[i] = M.p2c[i]
    /\ \A i \in DOMAIN M.c2p : i # c => W.c2p[i] = M.c2p[i]

\* symmetric_write_tuple_map_attributes writes one tuple of the edge.
LEMMA SymmetricWrite ==
    ASSUME NEW m, NEW M, NEW t \in Tuples(m), NEW c, NEW s \in Sides
    PROVE  /\ at_side(t, s) \in Tuples(m) /\ id_edge(m, at_side(t, s)) = id_edge(m, t)
           /\ s = 0 => at_side(t, s) = t
           /\ Wrote(symmetric_write(m, M, t, c, s), M, c, id_edge(m, t), at_side(t, s))
<1> DEFINE a == at_side(t, s)
           e == id_edge(m, t)
           W == symmetric_write(m, M, t, c, s)
<1>1. a \in Tuples(m) /\ id_edge(m, a) = e /\ (s = 0 => a = t)
  <2>1. third(t) \in Locals /\ third(t) # t.e /\ t.v \in Locals /\ t.e \in Locals
        /\ t.f \in faces(m) /\ t = [v |-> t.v, e |-> t.e, f |-> t.f]
    BY Places DEF Tuples, third, Locals
  <2>2. switch_vertex(t) = [v |-> third(t), e |-> t.e, f |-> t.f]
    BY <2>1 DEF switch_vertex
  <2>3. a = t \/ a = [v |-> third(t), e |-> t.e, f |-> t.f]
    BY <2>2 DEF at_side
  <2>4. [v |-> third(t), e |-> t.e, f |-> t.f] \in Tuples(m)
    BY <2>1 DEF Tuples
  <2>5. a \in Tuples(m) /\ a.f = t.f /\ a.e = t.e
    BY <2>3, <2>4
  <2> QED
    BY <2>5 DEF id_edge, at_side
<1>2. W.p2c = put(M.p2c, e, [c |-> c, v |-> a.v, e |-> a.e]) /\ W.c2p = put(M.c2p, c, a)
  BY DEF symmetric_write
<1> HIDE DEF W, a, e
<1>3. Wrote(W, M, c, e, a)
  BY <1>2 DEF Wrote, put
<1> QED
  BY <1>1, <1>3 DEF W, a, e

\* Only what is active is kept.
LEMMA OfActive ==
    ASSUME NEW m, NEW k, NEW M
    PROVE  LET R == of_active(m, k, M)
           IN  /\ DOMAIN R.p2c = DOMAIN M.p2c \cap edges(m) /\ DOMAIN R.c2p = DOMAIN M.c2p \cap k.e
               /\ \A e \in DOMAIN R.p2c : R.p2c[e] = M.p2c[e]
               /\ \A c \in DOMAIN R.c2p : R.c2p[c] = M.c2p[c]
BY DEF of_active, Restrict

\* A fold over the faces of the fan is one step or two.
LEMMA MaxOne ==
    /\ Max({1}) = 1 /\ Max({2}) = 2 /\ Max({1, 2}) = 2
    /\ {1} \ {Max({1})} = {} /\ {2} \ {Max({2})} = {} /\ {1, 2} \ {Max({1, 2})} = {1}
<1>1. Max({1}) = 1 /\ Max({2}) = 2
  BY DEF Max
<1>2. Max({1, 2}) = 2
  <2>1. Max({1, 2}) \in {1, 2} /\ \A y \in {1, 2} : Max({1, 2}) >= y
    <3>1. \E x \in {1, 2} : \A y \in {1, 2} : x >= y
      OBVIOUS
    <3> QED
      BY <3>1 DEF Max
  <2> QED
    BY <2>1
<1> QED
  BY <1>1, <1>2

\* The update of one ear, and of the two ears of a face.
ear_updated(m, t, M, e) ==
    LET a == get_alternative(t, mapped_tuple(M, e))
    IN  IF e \notin DOMAIN M.p2c THEN M
        ELSE IF a = null_tuple THEN M
        ELSE symmetric_write(m, M, a, M.p2c[e].c, 0)
face_updated(m, t, M, x) == ear_updated(m, t, ear_updated(m, t, M, x.ears[0].e), x.ears[1].e)

SplitFold(h, m, t, M0, D) ==
    h = [s \in SUBSET (DOMAIN D) |->
            IF s = {} THEN M0 ELSE face_updated(m, t, h[s \ {Max(s)}], D[Max(s)])]

\* The fold over one face or two has a value.
LEMMA SplitFoldExists ==
    ASSUME NEW m, NEW t, NEW M0, NEW D, DOMAIN D = {1} \/ DOMAIN D = {1, 2}
    PROVE  \E h : SplitFold(h, m, t, M0, D)
<1> DEFINE one == face_updated(m, t, M0, D[1])
           h == [s \in SUBSET (DOMAIN D) |->
                    IF s = {} THEN M0 ELSE IF s = {1} THEN one
                    ELSE IF s = {2} THEN face_updated(m, t, M0, D[2])
                    ELSE face_updated(m, t, one, D[2])]
           step(s) == IF s = {} THEN M0 ELSE face_updated(m, t, h[s \ {Max(s)}], D[Max(s)])
<1>1. \A s \in SUBSET (DOMAIN D) : s = {} \/ s = {1} \/ (2 \in DOMAIN D /\ (s = {2} \/ s = {1, 2}))
  OBVIOUS
<1>2. 1 \in DOMAIN D /\ h[{}] = M0 /\ h[{1}] = one
  OBVIOUS
<1>3. 2 \in DOMAIN D => h[{2}] = face_updated(m, t, M0, D[2])
                        /\ h[{1, 2}] = face_updated(m, t, one, D[2])
  <2>1. {2} # {1} /\ {1, 2} # {1} /\ {1, 2} # {2}
    OBVIOUS
  <2>2. 2 \in DOMAIN D => {2} \in SUBSET (DOMAIN D) /\ {1, 2} \in SUBSET (DOMAIN D)
    BY <1>2
  <2> QED
    BY <2>1, <2>2
<1> HIDE DEF h
<1>4. ASSUME NEW s \in SUBSET (DOMAIN D)
      PROVE  h[s] = step(s)
  <2>1. CASE s = {}
    BY <1>2, <2>1
  <2>2. CASE s = {1}
    BY <1>2, <2>2, MaxOne
  <2>3. CASE 2 \in DOMAIN D /\ s = {2}
    BY <1>2, <1>3, <2>3, MaxOne
  <2>4. CASE 2 \in DOMAIN D /\ s = {1, 2}
    BY <1>2, <1>3, <2>4, MaxOne
  <2> QED
    BY <1>1, <2>1, <2>2, <2>3, <2>4
<1>5. h = [s \in SUBSET (DOMAIN D) |-> h[s]]
  BY DEF h
<1>6. h = [s \in SUBSET (DOMAIN D) |-> step(s)]
  BY <1>4, <1>5
<1> QED
  BY <1>6 DEF SplitFold

\* update_maps_from_edge_operation updates one face or two.
LEMMA UpdateMapsIs ==
    ASSUME NEW m, NEW t, NEW M0, NEW D, D = incident_face_datas(mesh, t),
           DOMAIN D = {1} \/ DOMAIN D = {1, 2}
    PROVE  update_maps_from_split(m, t, M0) =
              IF DOMAIN D = {1} THEN face_updated(m, t, M0, D[1])
              ELSE face_updated(m, t, face_updated(m, t, M0, D[1]), D[2])
<1> DEFINE h == CHOOSE h : SplitFold(h, m, t, M0, D)
<1>1. update_maps_from_split(m, t, M0) = h[DOMAIN D]
  BY DEF update_maps_from_split, FoldLeft, MapThenFoldSet, SplitFold, face_updated, ear_updated
<1>2. SplitFold(h, m, t, M0, D)
  BY SplitFoldExists
<1> HIDE DEF h
<1>3. /\ h = [s \in SUBSET (DOMAIN D) |->
               IF s = {} THEN M0 ELSE face_updated(m, t, h[s \ {Max(s)}], D[Max(s)])]
  BY <1>2 DEF SplitFold
<1>4. \A s \in SUBSET (DOMAIN D) :
         h[s] = IF s = {} THEN M0 ELSE face_updated(m, t, h[s \ {Max(s)}], D[Max(s)])
  BY <1>3
<1>5. h[{}] = M0 /\ h[{1}] = face_updated(m, t, M0, D[1])
  <2>1. {} \in SUBSET (DOMAIN D) /\ {1} \in SUBSET (DOMAIN D) /\ {1} # {}
    OBVIOUS
  <2> QED
    BY <1>4, <2>1, MaxOne
<1>6. DOMAIN D = {1, 2} => h[{1, 2}] = face_updated(m, t, h[{1}], D[2])
  <2>1. DOMAIN D = {1, 2} => {1, 2} \in SUBSET (DOMAIN D) /\ {1, 2} # {}
    OBVIOUS
  <2> QED
    BY <1>4, <2>1, MaxOne
<1>7. {1, 2} # {1}
  OBVIOUS
<1> QED
  BY <1>1, <1>5, <1>6, <1>7

\* The tuple x of an edge that a split does not halve, after the split.
kept_tuple(t, x) == IF get_alternative(t, x) = null_tuple THEN x ELSE get_alternative(t, x)

\* In which of the faces of the fan a tuple lies, and where it goes.
LEMMA AlternativeIs ==
    ASSUME Manifold(mesh), NEW t \in Tuples(mesh), NEW x
    PROVE  LET U == Fan(mesh, t)
           IN  /\ (\A i \in 1 .. Len(U) : x.f # U[i].f) => get_alternative(t, x) = null_tuple
               /\ \A i \in 1 .. Len(U) : x.f = U[i].f =>
                     get_alternative(t, x) =
                        [x EXCEPT !.f = split_f(mesh, i, IF x.e = third(U[i]) THEN 0 ELSE 1)]
<1> DEFINE U == Fan(mesh, t)
           D == incident_face_datas(mesh, t)
           hit == {i \in DOMAIN D : D[i].f = x.f}
           to(i) == [x EXCEPT !.f = split_f(mesh, i, IF x.e = third(D[i].t) THEN 0 ELSE 1)]
<1>1. DOMAIN D = 1 .. Len(U) /\ \A i \in 1 .. Len(U) : D[i] = get_incident_face_data(mesh, U[i])
  BY FanData
<1>2. \A i \in 1 .. Len(U) : D[i].f = U[i].f /\ D[i].t = U[i]
  BY <1>1 DEF get_incident_face_data
<1>3. IsFan(mesh, t, U)
  BY Incident
<1>4. \A i, k \in 1 .. Len(U) : U[i].f = U[k].f => i = k
  BY <1>3 DEF IsFan
<1>5. get_alternative(t, x) = IF hit = {} THEN null_tuple ELSE to(CHOOSE i \in hit : TRUE)
  BY DEF get_alternative
<1>6. ASSUME \A i \in 1 .. Len(U) : x.f # U[i].f
      PROVE  get_alternative(t, x) = null_tuple
  BY <1>1, <1>2, <1>5, <1>6
<1>7. ASSUME NEW i \in 1 .. Len(U), x.f = U[i].f
      PROVE  get_alternative(t, x)
                = [x EXCEPT !.f = split_f(mesh, i, IF x.e = third(U[i]) THEN 0 ELSE 1)]
  <2>1. i \in hit /\ \A k \in hit : k = i
    BY <1>1, <1>2, <1>4, <1>7
  <2> HIDE DEF hit
  <2>2. (CHOOSE k \in hit : TRUE) = i /\ hit # {}
    BY <2>1
  <2>3. to(i) = [x EXCEPT !.f = split_f(mesh, i, IF x.e = third(U[i]) THEN 0 ELSE 1)]
    BY <1>2
  <2> HIDE DEF to
  <2> QED
    BY <1>5, <2>2, <2>3
<1> QED
  BY <1>6, <1>7

IsKept(r, t, x, y) ==
    /\ y \in Tuples(r) /\ y.v = x.v /\ y.e = x.e /\ id_edge(r, y) = id_edge(mesh, x)
    /\ get_alternative(t, y) = null_tuple
    /\ (\A i \in 1 .. Len(Fan(mesh, t)), j \in Sides :
          id_edge(mesh, x) # ear(mesh, Fan(mesh, t)[i], j)) => y = x

\* A tuple of an ear moves to the half with the ear, every other stays.
LEMMA KeptTuple ==
    ASSUME Manifold(mesh), ~mesh.free, NEW t \in Tuples(mesh), NEW x \in Tuples(mesh),
           id_edge(mesh, x) # id_edge(mesh, t)
    PROVE  IsKept(split_edge(mesh, t), t, x, kept_tuple(t, x))
<1> DEFINE r == split_edge(mesh, t)
           y == kept_tuple(t, x)
           U == Fan(mesh, t)
<1>1. IsSplit(r, mesh, t, U)
  BY SplitEdgeIs, SplitFacts
<1> HIDE DEF r
<1>2. /\ x.f \in faces(mesh) /\ x.v \in Locals /\ x.e \in Locals /\ x.v # x.e
      /\ x = [v |-> x.v, e |-> x.e, f |-> x.f]
  BY DEF Tuples
<1>3. \A f : f \in Gone(mesh, t) <=> \E i \in 1 .. Len(U) : f = U[i].f
  <2>1. DOMAIN U = 1 .. Len(U)
    BY <1>1 DEF IsSplit, IsFan
  <2> QED
    BY <2>1 DEF Gone
<1>4. CASE x.f \notin Gone(mesh, t)
  <2>1. get_alternative(t, x) = null_tuple
    BY <1>3, <1>4, AlternativeIs
  <2>2. y = x
    BY <2>1 DEF kept_tuple
  <2>3. x.f \in faces(r) /\ r.fe[x.f] = mesh.fe[x.f]
    BY <1>1, <1>2, <1>4 DEF IsSplit, AtKept
  <2>4. x \in Tuples(r) /\ id_edge(r, x) = id_edge(mesh, x)
    BY <1>2, <2>3 DEF Tuples, id_edge
  <2> QED
    BY <2>1, <2>2, <2>4 DEF IsKept, r
<1>5. CASE x.f \in Gone(mesh, t)
  <2>1. PICK i \in 1 .. Len(U) : x.f = U[i].f
    BY <1>3, <1>5
  <2> DEFINE u == U[i]
             j == IF x.e = third(u) THEN 0 ELSE 1
             p == split_f(mesh, i, j)
  <2>2. IsWedge(mesh, t, u)
    BY <1>1, <2>1 DEF IsSplit
  <2>3. x.e # u.e
    BY <2>1, <2>2 DEF IsWedge, id_edge
  <2>4. pos(u, 0) = u.v /\ pos(u, 1) = third(u) /\ u.v # third(u)
    BY <2>2, Places, ThreeLocals DEF IsWedge, Tuples
  <2>5. x.e = pos(u, 1 - j) /\ j \in Sides
    <3>1. Locals = {u.e, u.v, third(u)}
      BY <2>2, ThreeLocals DEF IsWedge, Tuples
    <3>2. x.e = u.v \/ x.e = third(u)
      BY <1>2, <2>3, <3>1
    <3> QED
      BY <2>4, <3>2 DEF Sides
  <2>6. get_alternative(t, x) = [x EXCEPT !.f = p]
    BY <2>1, AlternativeIs
  <2> DEFINE s == IF Len(U) = 1 THEN Null ELSE split_f(mesh, 3 - i, j)
  <2>7. IsHalfFace(r, mesh, t, i, j, u, s)
    BY <1>1, <2>1, <2>5 DEF IsSplit
  <2> HIDE DEF s
  <2>8. p \in faces(r) /\ p \notin faces(mesh) /\ r.fe[p][x.e] = ear(mesh, u, j)
    BY <2>5, <2>7 DEF IsHalfFace
  <2>9. ear(mesh, u, j) = id_edge(mesh, x)
    BY <2>1, <2>5 DEF ear, id_edge
  <2> HIDE DEF p, j
  <2>10. [x EXCEPT !.f = p] = [v |-> x.v, e |-> x.e, f |-> p]
    BY <1>2
  <2>11. [v |-> x.v, e |-> x.e, f |-> p] # null_tuple
    BY <1>2 DEF null_tuple, Null, Locals
  <2>12. y = [v |-> x.v, e |-> x.e, f |-> p]
    BY <2>6, <2>10, <2>11 DEF kept_tuple
  <2>13. y \in Tuples(r) /\ y.f = p /\ y.v = x.v /\ y.e = x.e
    BY <1>2, <2>8, <2>12 DEF Tuples
  <2>14. id_edge(r, y) = id_edge(mesh, x)
    BY <2>8, <2>9, <2>13 DEF id_edge
  <2>15. get_alternative(t, y) = null_tuple
    <3>1. \A k \in 1 .. Len(U) : U[k].f \in faces(mesh)
      BY <1>1 DEF IsSplit, IsWedge
    <3>2. \A k \in 1 .. Len(U) : y.f # U[k].f
      BY <2>8, <2>13, <3>1
    <3> QED
      BY <3>2, AlternativeIs
  <2>16. ~ \A k \in 1 .. Len(U), l \in Sides : id_edge(mesh, x) # ear(mesh, U[k], l)
    BY <2>1, <2>5, <2>9
  <2> QED
    BY <2>13, <2>14, <2>15, <2>16 DEF IsKept, r
<1> QED
  BY <1>4, <1>5

\* While a split updates the maps: the tuples of the edges S are where the
\* split leaves them, the halves of a mapped edge are written.
Carried(M, t, S) ==
    /\ \A e \in DOMAIN maps.p2c : e \in DOMAIN M.p2c /\ M.p2c[e] = maps.p2c[e]
    /\ \A c \in curve.e : c \in DOMAIN M.c2p
    /\ \A c \in curve.e :
          id_edge(mesh, maps.c2p[c]) # id_edge(mesh, t) =>
             M.c2p[c] = IF id_edge(mesh, maps.c2p[c]) \in S THEN kept_tuple(t, maps.c2p[c])
                        ELSE maps.c2p[c]
halves(t) == IF is_mapped(t) THEN Sides ELSE {}
AtHalves(M, r, t) ==
    /\ DOMAIN M.p2c = DOMAIN maps.p2c \cup {split_spine_eid(mesh, i) : i \in halves(t)}
    /\ DOMAIN M.c2p = curve.e \cup {capacity.e + i : i \in halves(t)}
    /\ \A i \in halves(t) :
          LET a == M.c2p[capacity.e + i]
          IN  /\ a \in Tuples(r) /\ id_edge(r, a) = split_spine_eid(mesh, i)
              /\ M.p2c[split_spine_eid(mesh, i)] = [c |-> capacity.e + i, v |-> a.v, e |-> a.e]

\* The ids that a split asks for are not in the maps.
LEMMA FreshHalves ==
    ASSUME FamilyInv, NEW t \in Tuples(mesh)
    PROVE  /\ \A i \in Sides : /\ capacity.e + i \notin curve.e
                               /\ split_spine_eid(mesh, i) \notin edges(mesh)
           /\ capacity.e + 0 # capacity.e + 1
           /\ split_spine_eid(mesh, 0) # split_spine_eid(mesh, 1)
           /\ Manifold(mesh) /\ ~mesh.free /\ Agree(mesh, curve.e, maps)
           /\ \A e \in DOMAIN maps.p2c : e \in edges(mesh)
<1>1. Manifold(mesh) /\ ~mesh.free /\ Agree(mesh, curve.e, maps)
  BY DEF FamilyInv, Inv
<1>2. \A i \in Sides : split_spine_eid(mesh, i) \notin edges(mesh)
  <2>1. 1 \in {1, 2} /\ Fields(mesh) /\ Typed(mesh)
    BY <1>1 DEF Manifold
  <2> QED
    BY <2>1, NewIds
<1>3. split_spine_eid(mesh, 0) # split_spine_eid(mesh, 1)
  <2>1. 1 \in {1, 2} /\ Fields(mesh) /\ Typed(mesh)
    BY <1>1 DEF Manifold
  <2> QED
    BY <2>1, NewIds
<1>4. /\ \A i \in Sides : capacity.e + i \notin curve.e
      /\ capacity.e + 0 # capacity.e + 1
  <2>1. capacity.e \in Nat /\ curve.e \subseteq 0 .. capacity.e - 1
    BY DEF FamilyInv
  <2> QED
    BY <2>1 DEF Sides
<1> QED
  BY <1>1, <1>2, <1>3, <1>4, AgreeFacts

\* Nothing is moved that the maps do not have.
LEMMA CarriedMore ==
    ASSUME FamilyInv, NEW M, NEW t \in Tuples(mesh), NEW S, Carried(M, t, S), NEW e,
           e \notin DOMAIN maps.p2c \/ e \in S
           \/ kept_tuple(t, maps.c2p[maps.p2c[e].c]) = maps.c2p[maps.p2c[e].c]
    PROVE  Carried(M, t, S \cup {e})
<1>1. Agree(mesh, curve.e, maps) /\ Manifold(mesh)
  BY FreshHalves
<1>2. ASSUME NEW c \in curve.e, id_edge(mesh, maps.c2p[c]) # id_edge(mesh, t)
      PROVE  M.c2p[c] = IF id_edge(mesh, maps.c2p[c]) \in S \cup {e}
                        THEN kept_tuple(t, maps.c2p[c]) ELSE maps.c2p[c]
  <2>1. M.c2p[c] = IF id_edge(mesh, maps.c2p[c]) \in S THEN kept_tuple(t, maps.c2p[c])
                   ELSE maps.c2p[c]
    BY <1>2 DEF Carried
  <2>2. CASE id_edge(mesh, maps.c2p[c]) # e
    BY <2>1, <2>2
  <2>3. CASE id_edge(mesh, maps.c2p[c]) = e
    <3>1. e \in DOMAIN maps.p2c
      <4>1. id_edge(mesh, maps.c2p[c]) \in DOMAIN maps.p2c
        BY <1>1 DEF Agree
      <4> QED
        BY ONLY <2>3, <4>1
    <3>2. maps.p2c[e].c = c
      BY <1>1, <2>3, AgreeFacts
    <3> QED
      BY <2>1, <2>3, <3>1, <3>2
  <2> QED
    BY <2>2, <2>3
<1> QED
  BY <1>2 DEF Carried

\* The update of an ear takes its tuple to where the split leaves it.
LEMMA EarMoves ==
    ASSUME FamilyInv, NEW t \in Tuples(mesh), NEW r, r = split_edge(mesh, t),
           NEW M, NEW S, Carried(M, t, S), AtHalves(M, r, t),
           NEW e \in edges(mesh), e # id_edge(mesh, t)
    PROVE  Carried(ear_updated(r, t, M, e), t, S \cup {e}) /\ AtHalves(ear_updated(r, t, M, e), r, t)
<1> DEFINE W == ear_updated(r, t, M, e)
           c == maps.p2c[e].c
           x == maps.c2p[c]
           y == kept_tuple(t, x)
<1>1. Agree(mesh, curve.e, maps) /\ Manifold(mesh) /\ ~mesh.free
  BY FreshHalves
<1>2. CASE e \notin DOMAIN M.p2c
  <2>1. W = M
    BY <1>2 DEF ear_updated
  <2>2. e \notin DOMAIN maps.p2c
    BY <1>2 DEF Carried
  <2> QED
    BY <2>1, <2>2, CarriedMore
<1>3. CASE e \in DOMAIN M.p2c
  <2>1. e \in DOMAIN maps.p2c
    <3>1. \A i \in halves(t) : split_spine_eid(mesh, i) # e
      BY FreshHalves DEF halves
    <3> QED
      BY <1>3, <3>1 DEF AtHalves
  <2>2. c \in curve.e /\ x \in Tuples(mesh) /\ id_edge(mesh, x) = e
        /\ maps.p2c[e] = [c |-> c, v |-> x.v, e |-> x.e]
    BY <1>1, <2>1, AgreeFacts
  <2>3. IsKept(r, t, x, y)
    BY <1>1, <2>2, KeptTuple
  <2>4. x = [v |-> x.v, e |-> x.e, f |-> x.f] /\ y = [v |-> x.v, e |-> x.e, f |-> y.f]
    <3>1. y \in Tuples(r) /\ y.v = x.v /\ y.e = x.e
      BY <2>3 DEF IsKept
    <3> QED
      BY <2>2, <3>1 DEF Tuples
  <2>5. M.p2c[e] = [c |-> c, v |-> x.v, e |-> x.e] /\ M.p2c[e].c = c
        /\ M.p2c[e].v = x.v /\ M.p2c[e].e = x.e
    BY <2>1, <2>2 DEF Carried
  <2>6. M.c2p[c] = IF e \in S THEN y ELSE x
    BY <2>2 DEF Carried
  <2> HIDE DEF c, x
  <2>7. mapped_tuple(M, e) = IF e \in S THEN y ELSE x
    BY <2>4, <2>5, <2>6 DEF mapped_tuple
  <2>8. CASE e \in S
    <3>1. get_alternative(t, y) = null_tuple
      BY <2>3 DEF IsKept
    <3>2. W = M
      BY <2>7, <2>8, <3>1 DEF ear_updated
    <3> QED
      BY <2>8, <3>2, CarriedMore
  <2>9. CASE e \notin S /\ get_alternative(t, x) = null_tuple
    <3>1. W = M
      BY <2>7, <2>9 DEF ear_updated
    <3>2. y = x
      BY <2>9 DEF kept_tuple
    <3> QED
      BY <3>1, <3>2, CarriedMore DEF x, c
  <2>10. CASE e \notin S /\ get_alternative(t, x) # null_tuple
    <3>1. y = get_alternative(t, x) /\ mapped_tuple(M, e) = x
      BY <2>7, <2>10 DEF kept_tuple
    <3>2. W = symmetric_write(r, M, y, c, 0)
      BY <1>3, <2>5, <2>10, <3>1 DEF ear_updated
    <3>3. y \in Tuples(r) /\ id_edge(r, y) = e
      BY <2>2, <2>3 DEF IsKept
    <3> HIDE DEF y, W
    <3>4. Wrote(W, M, c, e, y)
      <4>1. 0 \in Sides
        BY DEF Sides
      <4>2. at_side(y, 0) = y
        BY DEF at_side
      <4>3. Wrote(symmetric_write(r, M, y, c, 0), M, c, id_edge(r, y), at_side(y, 0))
        BY <3>3, <4>1, SymmetricWrite
      <4> QED
        BY <3>2, <3>3, <4>2, <4>3
    <3>5. DOMAIN W.p2c = DOMAIN M.p2c /\ DOMAIN W.c2p = DOMAIN M.c2p
      <4>1. c \in DOMAIN M.c2p
        BY <2>2 DEF Carried
      <4> QED
        BY <1>3, <3>4, <4>1 DEF Wrote
    <3>6. W.p2c[e] = M.p2c[e]
      <4>1. W.p2c[e] = [c |-> c, v |-> y.v, e |-> y.e]
        BY <3>4 DEF Wrote
      <4> QED
        BY <2>3, <2>5, <4>1 DEF IsKept
    <3>7. \A i \in DOMAIN M.p2c : W.p2c[i] = M.p2c[i]
      BY <3>4, <3>6 DEF Wrote
    <3>8. ASSUME NEW d \in curve.e, id_edge(mesh, maps.c2p[d]) # id_edge(mesh, t)
          PROVE  W.c2p[d] = IF id_edge(mesh, maps.c2p[d]) \in S \cup {e}
                            THEN kept_tuple(t, maps.c2p[d]) ELSE maps.c2p[d]
      <4>1. CASE d = c
        BY <2>2, <3>4, <4>1 DEF Wrote, x, y
      <4>2. CASE d # c
        <5>1. id_edge(mesh, maps.c2p[d]) # e
          BY <1>1, <2>2, <4>2, AgreeFacts DEF x
        <5>2. W.c2p[d] = M.c2p[d]
          BY <3>4, <4>2 DEF Wrote, Carried
        <5>3. M.c2p[d] = IF id_edge(mesh, maps.c2p[d]) \in S THEN kept_tuple(t, maps.c2p[d])
                         ELSE maps.c2p[d]
          BY <3>8 DEF Carried
        <5> QED
          BY <5>1, <5>2, <5>3
      <4> QED
        BY <4>1, <4>2
    <3>9. Carried(W, t, S \cup {e})
      BY <3>5, <3>7, <3>8 DEF Carried
    <3>10. ASSUME NEW i \in halves(t)
           PROVE  /\ W.c2p[capacity.e + i] = M.c2p[capacity.e + i]
                  /\ W.p2c[split_spine_eid(mesh, i)] = M.p2c[split_spine_eid(mesh, i)]
      <4>1. i \in Sides /\ capacity.e + i \in DOMAIN M.c2p
            /\ split_spine_eid(mesh, i) \in DOMAIN M.p2c
        BY DEF halves, AtHalves
      <4>2. capacity.e + i # c
        BY <2>2, <4>1, FreshHalves
      <4> QED
        BY <3>4, <3>7, <4>1, <4>2 DEF Wrote
    <3>11. AtHalves(W, r, t)
      BY <3>5, <3>10 DEF AtHalves
    <3> QED
      BY <3>9, <3>11 DEF W
  <2> QED
    BY <2>8, <2>9, <2>10
<1> QED
  BY <1>2, <1>3

\* The tuples that map_halves writes lie on the halves of the split edge.
LEMMA HalfTuple ==
    ASSUME Manifold(mesh), ~mesh.free, NEW t \in Tuples(mesh), NEW r, r = split_edge(mesh, t),
           NEW i \in Sides
    PROVE  LET o == tuple_from_global_ids(r, split_f(mesh, 1, i), split_spine_eid(mesh, i),
                                          spine_vid(mesh, t, i))
           IN  o \in Tuples(r) /\ id_edge(r, o) = split_spine_eid(mesh, i)
<1> DEFINE U == Fan(mesh, t)
           u == U[1]
           p == split_f(mesh, 1, i)
           s == IF Len(U) = 1 THEN Null ELSE split_f(mesh, 3 - 1, i)
<1>1. IsSplit(r, mesh, t, U) /\ Manifold(r)
  BY SplitEdgeIs, SplitFacts, SplitKeepsManifold
<1>2. 1 \in 1 .. Len(U)
  BY <1>1 DEF IsSplit, IsFan
<1>3. IsHalfFace(r, mesh, t, 1, i, u, s)
  BY <1>1, <1>2 DEF IsSplit
<1> HIDE DEF s
<1>4. u \in Tuples(mesh)
  BY <1>1, <1>2 DEF IsSplit, IsWedge
<1>5. pos(u, i) \in Locals /\ u.e \in Locals /\ pos(u, i) # u.e
  BY <1>4, Places
<1>6. p \in faces(r) /\ r.fv[p][pos(u, i)] = spine_vid(mesh, t, i)
      /\ r.fe[p][u.e] = split_spine_eid(mesh, i)
  BY <1>3 DEF IsHalfFace
<1> HIDE DEF p, u
<1> QED
  BY <1>1, <1>5, <1>6, TupleOfIds DEF p

\* map_halves writes the two halves of a mapped edge, and nothing else.
LEMMA MapHalves ==
    ASSUME FamilyInv, NEW t \in Tuples(mesh), NEW r, r = split_edge(mesh, t)
    PROVE  Carried(map_halves(r, t), t, {}) /\ AtHalves(map_halves(r, t), r, t)
<1>1. Agree(mesh, curve.e, maps) /\ Manifold(mesh) /\ ~mesh.free
  BY FreshHalves
<1>2. Carried(maps, t, {})
  BY <1>1 DEF Carried, Agree
<1>3. CASE ~is_mapped(t)
  <2>1. map_halves(r, t) = maps
    BY <1>3 DEF map_halves
  <2>2. halves(t) = {}
    BY <1>3 DEF halves
  <2>3. AtHalves(maps, r, t)
    BY <1>1, <2>2 DEF AtHalves, Agree
  <2> QED
    BY <1>2, <2>1, <2>3
<1>4. CASE is_mapped(t)
  <2> DEFINE s == map_to_child_tuple(t).s
             o(i) == tuple_from_global_ids(r, split_f(mesh, 1, i), split_spine_eid(mesh, i),
                                           spine_vid(mesh, t, i))
             q(i) == Curve!side(s, i)
             c(i) == capacity.e + i
             e(i) == split_spine_eid(mesh, i)
             a(i) == at_side(o(i), q(i))
             V == symmetric_write(r, maps, o(0), c(0), q(0))
             W == symmetric_write(r, V, o(1), c(1), q(1))
  <2>1. map_halves(r, t) = W
    BY <1>4 DEF map_halves, Curve!split_e
  <2>2. \A i \in Sides : q(i) \in Sides
    <3>1. s \in Sides
      BY DEF map_to_child_tuple, Sides
    <3> HIDE DEF s
    <3> QED
      BY <3>1 DEF Curve!side, Sides
  <2>3. \A i \in Sides : o(i) \in Tuples(r) /\ id_edge(r, o(i)) = e(i)
    BY <1>1, HalfTuple
  <2>4. 0 \in Sides /\ 1 \in Sides /\ \A i \in Sides : i = 0 \/ i = 1
    BY DEF Sides
  <2>5. /\ \A i \in Sides : c(i) \notin curve.e /\ e(i) \notin edges(mesh)
        /\ c(0) # c(1) /\ e(0) # e(1) /\ \A x \in DOMAIN maps.p2c : x \in edges(mesh)
    BY FreshHalves
  <2>6. \A i \in Sides : a(i) \in Tuples(r) /\ id_edge(r, a(i)) = e(i)
    <3> HIDE DEF o, q, e
    <3> QED
      BY <2>2, <2>3, SymmetricWrite DEF a
  <2>7. Wrote(V, maps, c(0), e(0), a(0))
    <3> HIDE DEF o, q, e, c
    <3> QED
      BY <2>2, <2>3, <2>4, SymmetricWrite DEF a, V
  <2> HIDE DEF V
  <2>8. Wrote(W, V, c(1), e(1), a(1))
    <3> HIDE DEF o, q, e, c
    <3> QED
      BY <2>2, <2>3, <2>4, SymmetricWrite DEF a, W
  <2> HIDE DEF W, o, q, a, e, c
  <2>9. /\ DOMAIN W.p2c = DOMAIN maps.p2c \cup {e(0), e(1)}
        /\ DOMAIN W.c2p = curve.e \cup {c(0), c(1)}
        /\ \A x \in DOMAIN maps.p2c : W.p2c[x] = maps.p2c[x]
        /\ \A x \in curve.e : W.c2p[x] = maps.c2p[x]
    <3>1. DOMAIN maps.c2p = curve.e
      BY <1>1 DEF Agree
    <3>2. \A x \in DOMAIN maps.p2c : x # e(0) /\ x # e(1)
      BY <2>4, <2>5
    <3>3. \A x \in curve.e : x # c(0) /\ x # c(1)
      BY <2>4, <2>5
    <3> QED
      BY <2>7, <2>8, <3>1, <3>2, <3>3 DEF Wrote
  <2>10. \A i \in Sides : W.c2p[c(i)] = a(i) /\ W.p2c[e(i)] = [c |-> c(i), v |-> a(i).v, e |-> a(i).e]
    <3>1. W.c2p[c(1)] = a(1) /\ W.p2c[e(1)] = [c |-> c(1), v |-> a(1).v, e |-> a(1).e]
      BY <2>8 DEF Wrote
    <3>2. W.c2p[c(0)] = V.c2p[c(0)] /\ W.p2c[e(0)] = V.p2c[e(0)]
      BY <2>5, <2>7, <2>8 DEF Wrote
    <3>3. V.c2p[c(0)] = a(0) /\ V.p2c[e(0)] = [c |-> c(0), v |-> a(0).v, e |-> a(0).e]
      BY <2>7 DEF Wrote
    <3> QED
      BY <2>4, <3>1, <3>2, <3>3
  <2>11. Carried(W, t, {})
    BY <1>2, <2>9 DEF Carried
  <2>12. AtHalves(W, r, t)
    <3>1. halves(t) = Sides
      BY <1>4 DEF halves
    <3>2. {e(0), e(1)} = {split_spine_eid(mesh, i) : i \in Sides}
          /\ {c(0), c(1)} = {capacity.e + i : i \in Sides}
      BY DEF Sides, e, c
    <3>3. \A i \in Sides : c(i) = capacity.e + i /\ e(i) = split_spine_eid(mesh, i)
      BY DEF c, e
    <3>4. ASSUME NEW i \in Sides
          PROVE  /\ W.c2p[capacity.e + i] \in Tuples(r)
                 /\ id_edge(r, W.c2p[capacity.e + i]) = split_spine_eid(mesh, i)
                 /\ W.p2c[split_spine_eid(mesh, i)] =
                       [c |-> capacity.e + i, v |-> W.c2p[capacity.e + i].v,
                        e |-> W.c2p[capacity.e + i].e]
      BY <2>6, <2>10, <3>3
    <3> QED
      BY <2>9, <3>1, <3>2, <3>4 DEF AtHalves
  <2> QED
    BY <2>1, <2>11, <2>12
<1> QED
  BY <1>3, <1>4

\* The ears of a fan are edges of the parent, and none is the operating edge.
LEMMA EarEdges ==
    ASSUME Manifold(mesh), NEW t \in Tuples(mesh)
    PROVE  /\ \A i \in 1 .. Len(Fan(mesh, t)), j \in Sides :
                 /\ ear(mesh, Fan(mesh, t)[i], j) \in edges(mesh)
                 /\ ear(mesh, Fan(mesh, t)[i], j) # id_edge(mesh, t)
                 /\ incident_face_datas(mesh, t)[i].ears[j].e = ear(mesh, Fan(mesh, t)[i], j)
                 /\ incident_face_datas(mesh, t)[i].ears[j].f = behind(mesh, Fan(mesh, t)[i], j)
           /\ DOMAIN incident_face_datas(mesh, t) = 1 .. Len(Fan(mesh, t))
           /\ 1 .. Len(Fan(mesh, t)) = {1} \/ 1 .. Len(Fan(mesh, t)) = {1, 2}
<1> DEFINE U == Fan(mesh, t)
           D == incident_face_datas(mesh, t)
<1>1. IsFan(mesh, t, U)
  BY Incident
<1>2. DOMAIN D = 1 .. Len(U) /\ \A i \in 1 .. Len(U) : D[i] = get_incident_face_data(mesh, U[i])
  BY FanData
<1>3. ASSUME NEW i \in 1 .. Len(U), NEW j \in Sides
      PROVE  /\ ear(mesh, U[i], j) \in edges(mesh) /\ ear(mesh, U[i], j) # id_edge(mesh, t)
             /\ D[i].ears[j].e = ear(mesh, U[i], j) /\ D[i].ears[j].f = behind(mesh, U[i], j)
  <2>1. U[i] \in Tuples(mesh)
    BY <1>1 DEF IsFan
  <2>2. IsEar(mesh, t, U[i], j)
    BY EarFaces
  <2>3. D[i].ears[j].e = ear(mesh, U[i], j) /\ D[i].ears[j].f = behind(mesh, U[i], j)
    BY <1>2, <2>1, FaceData DEF ear, behind
  <2> QED
    BY <2>2, <2>3 DEF IsEar
<1>4. 1 .. Len(U) = {1} \/ 1 .. Len(U) = {1, 2}
  BY <1>1 DEF IsFan
<1> QED
  BY <1>2, <1>3, <1>4

\* After the updates every tuple is where the split leaves it.
LEMMA AllCarried ==
    ASSUME FamilyInv, NEW t \in Tuples(mesh), NEW r, r = split_edge(mesh, t)
    PROVE  \E M, S : /\ M = update_maps_from_split(r, t, map_halves(r, t))
                     /\ Carried(M, t, S) /\ AtHalves(M, r, t)
                     /\ \A i \in 1 .. Len(Fan(mesh, t)), j \in Sides :
                           ear(mesh, Fan(mesh, t)[i], j) \in S
<1> DEFINE U == Fan(mesh, t)
           D == incident_face_datas(mesh, t)
           M0 == map_halves(r, t)
           e(i, j) == D[i].ears[j].e
           OK(M, S) == Carried(M, t, S) /\ AtHalves(M, r, t)
           I == 1 .. Len(U)
<1>1. Manifold(mesh) /\ ~mesh.free
  BY FreshHalves
<1>2. /\ \A i \in I, j \in Sides : e(i, j) \in edges(mesh) /\ e(i, j) # id_edge(mesh, t)
                                   /\ e(i, j) = ear(mesh, U[i], j)
      /\ DOMAIN D = I /\ (I = {1} \/ I = {1, 2})
  BY <1>1, EarEdges
<1>3. 0 \in Sides /\ 1 \in Sides /\ \A j \in Sides : j = 0 \/ j = 1
  BY DEF Sides
<1> HIDE DEF I, OK, e
<1>4. ASSUME NEW M, NEW S, OK(M, S), NEW i \in I
      PROVE  OK(face_updated(r, t, M, D[i]), (S \cup {e(i, 0)}) \cup {e(i, 1)})
  <2>1. face_updated(r, t, M, D[i]) = ear_updated(r, t, ear_updated(r, t, M, e(i, 0)), e(i, 1))
    BY DEF face_updated, e
  <2>2. /\ e(i, 0) \in edges(mesh) /\ e(i, 0) # id_edge(mesh, t)
        /\ e(i, 1) \in edges(mesh) /\ e(i, 1) # id_edge(mesh, t)
    BY <1>2, <1>3, <1>4
  <2>3. OK(ear_updated(r, t, M, e(i, 0)), S \cup {e(i, 0)})
    BY <1>4, <2>2, EarMoves DEF OK
  <2>4. OK(ear_updated(r, t, ear_updated(r, t, M, e(i, 0)), e(i, 1)), (S \cup {e(i, 0)}) \cup {e(i, 1)})
    BY <2>2, <2>3, EarMoves DEF OK
  <2> QED
    BY <2>1, <2>4
<1>5. OK(M0, {})
  BY MapHalves DEF OK
<1> HIDE DEF M0
<1> DEFINE M1 == face_updated(r, t, M0, D[1])
           M2 == face_updated(r, t, M1, D[2])
           S1 == ({} \cup {e(1, 0)}) \cup {e(1, 1)}
           S2 == (S1 \cup {e(2, 0)}) \cup {e(2, 1)}
<1>6. OK(M1, S1) /\ (I = {1, 2} => OK(M2, S2))
  <2>1. 1 \in I
    BY <1>2
  <2>2. OK(M1, S1)
    BY <1>4, <1>5, <2>1
  <2> HIDE DEF M1, S1
  <2>3. I = {1, 2} => OK(M2, S2)
    BY <1>4, <2>2
  <2> QED
    BY <2>2, <2>3
<1>7. update_maps_from_split(r, t, M0) = IF I = {1} THEN M1 ELSE M2
  BY <1>2, UpdateMapsIs
<1>8. CASE I = {1}
  <2>1. \A i \in I, j \in Sides : ear(mesh, U[i], j) \in S1
    BY <1>2, <1>3, <1>8
  <2> HIDE DEF M1, S1
  <2> QED
    BY <1>6, <1>7, <1>8, <2>1 DEF OK, I, M0
<1>9. CASE I = {1, 2}
  <2>1. \A i \in I, j \in Sides : ear(mesh, U[i], j) \in S2
    BY <1>2, <1>3, <1>9
  <2>2. {1, 2} # {1}
    OBVIOUS
  <2> HIDE DEF M1, S1, M2, S2
  <2> QED
    BY <1>6, <1>7, <1>9, <2>1, <2>2 DEF OK, I, M0
<1> QED
  BY <1>2, <1>8, <1>9

\* The child after a split.
split_child(t) ==
    IF is_mapped(t)
    THEN Curve!split_edge_single_mesh(map_to_child_tuple(t).c, map_to_child_tuple(t).s)
    ELSE curve
\* A split of a mapped edge replaces the edge of the child by two that it asks for.
LEMMA SplitChild ==
    ASSUME FamilyInv, NEW t \in Tuples(mesh)
    PROVE  LET c == maps.p2c[id_edge(mesh, t)].c
           IN  /\ split_child(t).e = IF is_mapped(t)
                     THEN (curve.e \cup {capacity.e + i : i \in halves(t)}) \ {c} ELSE curve.e
               /\ IsCurve(split_child(t))
               /\ is_mapped(t) => map_to_child_tuple(t).c = c
<1> DEFINE d == map_to_child_tuple(t)
           k == Curve!split_edge_single_mesh(d.c, d.s)
<1>1. d.c = maps.p2c[id_edge(mesh, t)].c
  BY DEF map_to_child_tuple
<1> HIDE DEF d
<1>2. k.e = (curve.e \cup {capacity.e + 0, capacity.e + 1}) \ {d.c} /\ IsCurve(k)
  BY DEF Curve!split_edge_single_mesh, Curve!split_e, IsCurve
<1>3. is_mapped(t) => {capacity.e + i : i \in halves(t)} = {capacity.e + 0, capacity.e + 1}
  BY DEF halves, Sides
<1>4. IsCurve(curve)
  BY DEF FamilyInv
<1> HIDE DEF k
<1> QED
  BY <1>1, <1>2, <1>3, <1>4 DEF split_child, k, d

\* The maps after a split agree.
LEMMA SplitMapsAgree ==
    ASSUME FamilyInv, NEW t \in Tuples(mesh), NEW r, r = split_edge(mesh, t),
           NEW M, NEW S, Carried(M, t, S), AtHalves(M, r, t),
           \A i \in 1 .. Len(Fan(mesh, t)), j \in Sides : ear(mesh, Fan(mesh, t)[i], j) \in S,
           NEW k, k = split_child(t)
    PROVE  Agree(r, k.e, of_active(r, k, M))
<1> DEFINE R == of_active(r, k, M)
           e0 == id_edge(mesh, t)
           c0 == maps.p2c[e0].c
           H == {capacity.e + i : i \in halves(t)}
           X == {split_spine_eid(mesh, i) : i \in halves(t)}
<1>1. /\ \A i \in Sides : capacity.e + i \notin curve.e /\ split_spine_eid(mesh, i) \notin edges(mesh)
      /\ Manifold(mesh) /\ ~mesh.free /\ Agree(mesh, curve.e, maps)
      /\ \A e \in DOMAIN maps.p2c : e \in edges(mesh)
  BY FreshHalves
<1>2. SplitTables(r, mesh, t) /\ Manifold(r)
  BY <1>1, SplitEdgeIs, SplitKeepsManifold
<1>3. /\ k.e = IF is_mapped(t) THEN (curve.e \cup H) \ {c0} ELSE curve.e
      /\ halves(t) \subseteq Sides /\ (~is_mapped(t) => halves(t) = {})
  BY SplitChild DEF halves
<1>4. is_mapped(t) <=> e0 \in DOMAIN maps.p2c
  BY DEF is_mapped
<1>5. e0 \in edges(mesh) /\ e0 \notin edges(r)
  <2>1. e0 \in edges(mesh)
    BY <1>1, Rows DEF Manifold, Tuples, id_edge
  <2>2. e0 \notin SplitEdges(mesh, t)
    <3>1. \A i \in {1, 2} : \A j \in Sides : /\ split_spine_eid(mesh, j) \notin edges(mesh)
                                             /\ rib_eid(mesh, i) \notin edges(mesh)
      BY <1>1, NewIds DEF Manifold
    <3>2. \A i \in 1 .. Len(Fan(mesh, t)) : i \in {1, 2}
      BY <1>1, EarEdges
    <3>3. ASSUME NEW i \in 1 .. Len(Fan(mesh, t)), NEW e \in NewEdges(mesh, i)
          PROVE  e \notin edges(mesh)
      <4> DEFINE sides == {split_spine_eid(mesh, j) : j \in Sides}
                 rib == rib_eid(mesh, i)
      <4>1. e \in sides \cup {rib}
        <5>1. NewEdges(mesh, i) = sides \cup {rib}
          BY <1>1 DEF NewEdges
        <5> QED
          BY <5>1
      <4>2. rib \notin edges(mesh)
        <5>1. i \in {1, 2}
          BY <3>2
        <5>2. \A l \in {1, 2} : rib_eid(mesh, l) \notin edges(mesh)
          <6>1. 0 \in Sides
            BY DEF Sides
          <6> QED
            BY <3>1, <6>1
        <5> QED
          BY <5>1, <5>2
      <4>3. \A d \in sides : d \notin edges(mesh)
        BY <3>1, <3>2
      <4> HIDE DEF sides, rib
      <4> QED
        BY <4>1, <4>2, <4>3
    <3> QED
      BY <2>1, <3>3 DEF SplitEdges
  <2> QED
    BY <1>2, <2>1, <2>2 DEF SplitTables
<1>15. \A e \in DOMAIN maps.p2c : /\ maps.p2c[e].c \in curve.e
                                    /\ id_edge(mesh, maps.c2p[maps.p2c[e].c]) = e
  BY <1>1 DEF Agree
<1>16. \A c \in curve.e : /\ maps.c2p[c] \in Tuples(mesh)
                           /\ id_edge(mesh, maps.c2p[c]) \in DOMAIN maps.p2c
  BY <1>1 DEF Agree
<1>17. \A c \in curve.e : maps.p2c[id_edge(mesh, maps.c2p[c])].c = c
  BY <1>1, AgreeFacts
<1>6. /\ DOMAIN M.c2p = curve.e \cup H /\ DOMAIN M.p2c = DOMAIN maps.p2c \cup X
  BY DEF AtHalves
<1>7. is_mapped(t) => c0 \in curve.e /\ id_edge(mesh, maps.c2p[c0]) = e0
  BY <1>4, <1>15
<1>8. \A h \in H : h \notin curve.e
  BY <1>1, <1>3
<1> HIDE DEF H, X, e0, c0
<1>9. /\ DOMAIN R.c2p = k.e /\ DOMAIN R.p2c = DOMAIN M.p2c \cap edges(r)
      /\ \A e \in DOMAIN R.p2c : R.p2c[e] = M.p2c[e]
      /\ \A c \in k.e : R.c2p[c] = M.c2p[c]
  <2>1. k.e \subseteq DOMAIN M.c2p
    BY <1>3, <1>6
  <2>2. /\ DOMAIN R.p2c = DOMAIN M.p2c \cap edges(r) /\ DOMAIN R.c2p = DOMAIN M.c2p \cap k.e
        /\ \A e \in DOMAIN R.p2c : R.p2c[e] = M.p2c[e]
        /\ \A c \in DOMAIN R.c2p : R.c2p[c] = M.c2p[c]
    BY OfActive
  <2> HIDE DEF R
  <2>3. DOMAIN R.c2p = k.e
    BY <2>1, <2>2
  <2> QED
    BY <2>2, <2>3
<1> HIDE DEF R
<1>10. ASSUME NEW c \in curve.e, c \in k.e
       PROVE  LET x == maps.c2p[c]
                  y == M.c2p[c]
              IN  /\ id_edge(mesh, x) # e0 /\ x \in Tuples(mesh) /\ y \in Tuples(r)
                  /\ y.v = x.v /\ y.e = x.e /\ id_edge(r, y) = id_edge(mesh, x)
  <2> DEFINE x == maps.c2p[c]
             y == M.c2p[c]
  <2>1. x \in Tuples(mesh) /\ id_edge(mesh, x) \in DOMAIN maps.p2c
        /\ maps.p2c[id_edge(mesh, x)].c = c
    BY <1>16, <1>17
  <2>2. id_edge(mesh, x) # e0
    <3> SUFFICES ASSUME id_edge(mesh, x) = e0
                 PROVE  FALSE
      OBVIOUS
    <3>1. is_mapped(t) /\ c0 = c
      BY <1>4, <2>1 DEF c0
    <3> QED
      BY <1>3, <1>10, <3>1
  <2>3. IsKept(r, t, x, kept_tuple(t, x))
    BY <1>1, <2>1, <2>2, KeptTuple DEF e0
  <2>4. y = kept_tuple(t, x)
    <3>1. y = IF id_edge(mesh, x) \in S THEN kept_tuple(t, x) ELSE x
      BY <2>2 DEF Carried, e0
    <3>2. id_edge(mesh, x) \notin S => kept_tuple(t, x) = x
      BY <2>3 DEF IsKept
    <3> QED
      BY <3>1, <3>2
  <2> QED
    BY <2>1, <2>2, <2>3, <2>4 DEF IsKept
<1>11. ASSUME NEW y \in Tuples(r)
       PROVE  id_edge(r, y) \in edges(r)
  BY <1>2, Rows DEF Manifold, Tuples, id_edge
<1>12. ASSUME NEW i \in halves(t)
       PROVE  LET c == capacity.e + i
                  a == M.c2p[c]
              IN  /\ c \in k.e /\ a \in Tuples(r) /\ id_edge(r, a) = split_spine_eid(mesh, i)
                  /\ M.p2c[id_edge(r, a)] = [c |-> c, v |-> a.v, e |-> a.e]
                  /\ id_edge(r, a) \in DOMAIN M.p2c
  <2>1. capacity.e + i \in H /\ split_spine_eid(mesh, i) \in X
    BY DEF H, X
  <2>2. capacity.e + i \in k.e
    BY <1>3, <1>7, <1>8, <2>1
  <2> QED
    BY <1>6, <2>1, <2>2 DEF AtHalves
<1>13. ASSUME NEW c \in k.e
       PROVE  /\ R.c2p[c] \in Tuples(r) /\ id_edge(r, R.c2p[c]) \in DOMAIN R.p2c
              /\ R.p2c[id_edge(r, R.c2p[c])] = [c |-> c, v |-> R.c2p[c].v, e |-> R.c2p[c].e]
  <2>1. c \in curve.e \/ c \in H
    BY <1>3
  <2>2. CASE c \in curve.e
    <3> DEFINE x == maps.c2p[c]
               y == M.c2p[c]
               e == id_edge(mesh, x)
    <3>1. x \in Tuples(mesh) /\ y \in Tuples(r) /\ y.v = x.v /\ y.e = x.e /\ id_edge(r, y) = e
      BY <1>10, <2>2
    <3>2. e \in DOMAIN maps.p2c /\ maps.p2c[e] = [c |-> c, v |-> x.v, e |-> x.e]
      BY <1>1, <2>2 DEF Agree
    <3>3. M.p2c[e] = [c |-> c, v |-> y.v, e |-> y.e]
      BY <3>1, <3>2 DEF Carried
    <3>4. R.c2p[c] = y
      BY <1>9
    <3> HIDE DEF x, y, e
    <3>5. e \in DOMAIN R.p2c
      BY <1>6, <1>9, <1>11, <3>1, <3>2
    <3> QED
      BY <1>9, <3>1, <3>3, <3>4, <3>5
  <2>3. CASE c \in H
    <3>1. PICK i \in halves(t) : c = capacity.e + i
      BY <2>3 DEF H
    <3> DEFINE a == M.c2p[c]
    <3>2. /\ a \in Tuples(r) /\ M.p2c[id_edge(r, a)] = [c |-> c, v |-> a.v, e |-> a.e]
          /\ id_edge(r, a) \in DOMAIN M.p2c
      BY <1>12, <3>1
    <3>3. R.c2p[c] = a
      BY <1>9
    <3> HIDE DEF a
    <3> QED
      BY <1>9, <1>11, <3>2, <3>3
  <2> QED
    BY <2>1, <2>2, <2>3
<1>14. ASSUME NEW e \in DOMAIN R.p2c
       PROVE  R.p2c[e].c \in k.e /\ id_edge(r, R.c2p[R.p2c[e].c]) = e
  <2>1. e \in edges(r) /\ R.p2c[e] = M.p2c[e] /\ (e \in DOMAIN maps.p2c \/ e \in X)
    BY <1>6, <1>9
  <2>2. CASE e \in DOMAIN maps.p2c
    <3> DEFINE c == maps.p2c[e].c
    <3>1. M.p2c[e] = maps.p2c[e]
      BY <2>2 DEF Carried
    <3>2. c \in curve.e /\ id_edge(mesh, maps.c2p[c]) = e /\ e # e0
      BY <1>5, <1>15, <2>1, <2>2
    <3>3. c \in k.e
      BY <1>3, <1>7, <3>2
    <3>4. id_edge(r, M.c2p[c]) = e
      BY <1>10, <3>2, <3>3
    <3> QED
      BY <1>9, <2>1, <3>1, <3>3, <3>4
  <2>3. CASE e \in X
    <3>1. PICK i \in halves(t) : e = split_spine_eid(mesh, i)
      BY <2>3 DEF X
    <3> DEFINE c == capacity.e + i
               a == M.c2p[c]
    <3>2. c \in k.e /\ id_edge(r, a) = e /\ M.p2c[e] = [c |-> c, v |-> a.v, e |-> a.e]
      BY <1>12, <3>1
    <3> HIDE DEF c
    <3>3. M.p2c[e].c = c
      BY <3>2
    <3> QED
      BY <1>9, <2>1, <3>2, <3>3
  <2> QED
    BY <2>1, <2>2, <2>3
<1> QED
  BY <1>9, <1>13, <1>14 DEF Agree, R

\* A split, done or refused, keeps the maps.
LEMMA SplitFamily ==
    ASSUME FamilyInv, NEW t \in Tuples(mesh), NEW accepted \in BOOLEAN,
           multi_mesh_edge_split(t, accepted)
    PROVE  FamilyInv'
<1> DEFINE r == split_edge(mesh, t)
           k == split_child(t)
           M == update_maps_from_split(r, t, map_halves(r, t))
<1>1. /\ split(t, accepted)
      /\ capacity' = IF is_mapped(t) THEN [v |-> capacity.v + 1, e |-> capacity.e + 2] ELSE capacity
      /\ curve' = IF accepted THEN k ELSE IF is_mapped(t) THEN Curve!grown(1, 2) ELSE curve
      /\ maps' = IF accepted THEN of_active(r, k, M) ELSE maps
  BY DEF multi_mesh_edge_split, split_child
<1>2. mesh' = IF accepted THEN r ELSE [mesh EXCEPT !.cap = requested(mesh, t)]
  BY <1>1 DEF split
<1>3. Manifold(mesh) /\ ~mesh.free /\ Agree(mesh, curve.e, maps) /\ capacity.e \in Nat
      /\ curve.e \subseteq 0 .. capacity.e - 1 /\ IsCurve(curve)
  BY FreshHalves DEF FamilyInv
<1>4. Inv'
  BY <1>1, SplitInv DEF FamilyInv
<1>5. ~mesh'.free
  <2>1. r.free = mesh.free
    BY <1>3, SplitKeepsManifold
  <2>2. [mesh EXCEPT !.cap = requested(mesh, t)].free = mesh.free
    BY <1>3, RequestedKeepsManifold
  <2> QED
    BY <1>2, <1>3, <2>1, <2>2
<1>6. /\ k.e \subseteq curve.e \cup {capacity.e + i : i \in halves(t)} /\ IsCurve(k)
      /\ halves(t) \subseteq Sides /\ (~is_mapped(t) => halves(t) = {})
  BY SplitChild DEF halves
<1>7. Curve!grown(1, 2).e = curve.e /\ IsCurve(Curve!grown(1, 2))
  <2> DEFINE q == Curve!grown(1, 2)
             old == curve
  <2>1. \E a, b, c : q = [old EXCEPT !.ev = a, !.ee = b, !.ve = c]
    BY DEF Curve!grown
  <2>2. old = [v |-> old.v, e |-> old.e, ev |-> old.ev, ee |-> old.ee, ve |-> old.ve]
    BY <1>3 DEF IsCurve
  <2> HIDE DEF q, old
  <2>3. PICK a, b, c : q = [old EXCEPT !.ev = a, !.ee = b, !.ve = c]
    BY <2>1
  <2>4. q = [v |-> old.v, e |-> old.e, ev |-> a, ee |-> b, ve |-> c]
    BY <2>2, <2>3
  <2>5. q.e = old.e /\ IsCurve(q)
    BY <2>4 DEF IsCurve
  <2> QED
    BY <2>5 DEF q, old
<1> HIDE DEF k
<1>8. capacity'.e \in Nat /\ curve'.e \subseteq 0 .. capacity'.e - 1 /\ IsCurve(curve')
  <2>1. CASE is_mapped(t)
    <3>1. capacity'.e = capacity.e + 2
      BY <1>1, <2>1
    <3>2. curve.e \subseteq 0 .. (capacity.e + 2) - 1
      BY <1>3
    <3>3. \A i \in Sides : capacity.e + i \in 0 .. (capacity.e + 2) - 1
      BY <1>3 DEF Sides
    <3>4. k.e \subseteq 0 .. (capacity.e + 2) - 1
      BY <1>6, <3>2, <3>3
    <3>5. curve' = k \/ curve' = Curve!grown(1, 2)
      BY <1>1, <2>1
    <3> QED
      BY <1>3, <1>6, <1>7, <3>1, <3>2, <3>4, <3>5
  <2>2. CASE ~is_mapped(t)
    <3>1. capacity' = capacity /\ (curve' = k \/ curve' = curve) /\ k.e \subseteq curve.e
      BY <1>1, <1>6, <2>2
    <3> QED
      BY <1>3, <1>6, <3>1
  <2> QED
    BY <2>1, <2>2
<1>9. Agree(mesh', curve'.e, maps')
  <2>1. CASE accepted
    <3>1. Agree(r, k.e, of_active(r, k, M))
      BY AllCarried, SplitMapsAgree DEF k
    <3> QED
      BY <1>1, <1>2, <2>1, <3>1
  <2>2. CASE ~accepted
    <3> DEFINE n == [mesh EXCEPT !.cap = requested(mesh, t)]
    <3>1. curve'.e = curve.e /\ maps' = maps /\ mesh' = n
      BY <1>1, <1>2, <1>7, <2>2
    <3>2. n.fv = mesh.fv /\ n.fe = mesh.fe
      BY <1>3 DEF Manifold, Fields, Plain, Attributes
    <3> HIDE DEF n
    <3>3. Tuples(n) = Tuples(mesh) /\ \A x : id_edge(n, x) = id_edge(mesh, x)
      BY <3>2 DEF Tuples, faces, id_edge
    <3>4. Agree(n, curve.e, maps)
      BY <1>3, <3>3 DEF Agree
    <3> QED
      BY <3>1, <3>4
  <2> QED
    BY <2>1, <2>2
<1> QED
  BY <1>4, <1>5, <1>8, <1>9 DEF FamilyInv, Agree, IsCurve

\* The replacement of one ear, and of the two ears of a face.
ear_joined(m, k, t, M, W, x, j) ==
    IF ~(x.ears[j].e \in DOMAIN M.p2c /\ M.p2c[x.ears[j].e].c \in k.e) THEN W
    ELSE symmetric_write(m, W, ear_replacement(m, t, M, x, j), M.p2c[x.ears[j].e].c, 0)
face_joined(m, k, t, M, x) == ear_joined(m, k, t, M, ear_joined(m, k, t, M, M, x, 0), x, 1)

CollapseFold(h, m, k, t, M0, D) ==
    h = [s \in SUBSET (DOMAIN D) |->
            IF s = {} THEN M0 ELSE face_joined(m, k, t, h[s \ {Max(s)}], D[Max(s)])]

\* The fold over one face or two has a value.
LEMMA CollapseFoldExists ==
    ASSUME NEW m, NEW k, NEW t, NEW M0, NEW D, DOMAIN D = {1} \/ DOMAIN D = {1, 2}
    PROVE  \E h : CollapseFold(h, m, k, t, M0, D)
<1> DEFINE one == face_joined(m, k, t, M0, D[1])
           h == [s \in SUBSET (DOMAIN D) |->
                    IF s = {} THEN M0 ELSE IF s = {1} THEN one
                    ELSE IF s = {2} THEN face_joined(m, k, t, M0, D[2])
                    ELSE face_joined(m, k, t, one, D[2])]
           step(s) == IF s = {} THEN M0 ELSE face_joined(m, k, t, h[s \ {Max(s)}], D[Max(s)])
<1>1. \A s \in SUBSET (DOMAIN D) : s = {} \/ s = {1} \/ (2 \in DOMAIN D /\ (s = {2} \/ s = {1, 2}))
  OBVIOUS
<1>2. 1 \in DOMAIN D /\ h[{}] = M0 /\ h[{1}] = one
  OBVIOUS
<1>3. 2 \in DOMAIN D => h[{2}] = face_joined(m, k, t, M0, D[2])
                        /\ h[{1, 2}] = face_joined(m, k, t, one, D[2])
  <2>1. {2} # {1} /\ {1, 2} # {1} /\ {1, 2} # {2}
    OBVIOUS
  <2>2. 2 \in DOMAIN D => {2} \in SUBSET (DOMAIN D) /\ {1, 2} \in SUBSET (DOMAIN D)
    BY <1>2
  <2> QED
    BY <2>1, <2>2
<1> HIDE DEF h
<1>4. ASSUME NEW s \in SUBSET (DOMAIN D)
      PROVE  h[s] = step(s)
  <2>1. CASE s = {}
    BY <1>2, <2>1
  <2>2. CASE s = {1}
    BY <1>2, <2>2, MaxOne
  <2>3. CASE 2 \in DOMAIN D /\ s = {2}
    BY <1>2, <1>3, <2>3, MaxOne
  <2>4. CASE 2 \in DOMAIN D /\ s = {1, 2}
    BY <1>2, <1>3, <2>4, MaxOne
  <2> QED
    BY <1>1, <2>1, <2>2, <2>3, <2>4
<1>5. h = [s \in SUBSET (DOMAIN D) |-> h[s]]
  BY DEF h
<1>6. h = [s \in SUBSET (DOMAIN D) |-> step(s)]
  BY <1>4, <1>5
<1> QED
  BY <1>6 DEF CollapseFold

\* update_ear_replacement joins the ears of one face or of two.
LEMMA UpdateEarsIs ==
    ASSUME NEW m, NEW k, NEW t, NEW M0, M0 = maps, NEW D, D = incident_face_datas(mesh, t),
           DOMAIN D = {1} \/ DOMAIN D = {1, 2}
    PROVE  update_ear_replacement(m, k, t) =
              IF DOMAIN D = {1} THEN face_joined(m, k, t, M0, D[1])
              ELSE face_joined(m, k, t, face_joined(m, k, t, M0, D[1]), D[2])
<1> DEFINE h == CHOOSE h : CollapseFold(h, m, k, t, M0, D)
<1>1. update_ear_replacement(m, k, t) = h[DOMAIN D]
  BY DEF update_ear_replacement, FoldLeft, MapThenFoldSet, CollapseFold, face_joined, ear_joined
<1>2. CollapseFold(h, m, k, t, M0, D)
  BY CollapseFoldExists
<1> HIDE DEF h
<1>3. /\ h = [s \in SUBSET (DOMAIN D) |->
               IF s = {} THEN M0 ELSE face_joined(m, k, t, h[s \ {Max(s)}], D[Max(s)])]
  BY <1>2 DEF CollapseFold
<1>4. \A s \in SUBSET (DOMAIN D) :
         h[s] = IF s = {} THEN M0 ELSE face_joined(m, k, t, h[s \ {Max(s)}], D[Max(s)])
  BY <1>3
<1>5. h[{}] = M0 /\ h[{1}] = face_joined(m, k, t, M0, D[1])
  <2>1. {} \in SUBSET (DOMAIN D) /\ {1} \in SUBSET (DOMAIN D) /\ {1} # {}
    OBVIOUS
  <2> QED
    BY <1>4, <2>1, MaxOne
<1>6. DOMAIN D = {1, 2} => h[{1, 2}] = face_joined(m, k, t, h[{1}], D[2])
  <2>1. DOMAIN D = {1, 2} => {1, 2} \in SUBSET (DOMAIN D) /\ {1, 2} # {}
    OBVIOUS
  <2> QED
    BY <1>4, <2>1, MaxOne
<1>7. {1, 2} # {1}
  OBVIOUS
<1> QED
  BY <1>1, <1>5, <1>6, <1>7

\* After a collapse a face behind an ear has, at the joined ear, the end that
\* stays and the corner opposite the edge.
LEMMA JoinedPlaces ==
    ASSUME NEW m, Manifold(m), NEW t, NEW r, NEW U, IsCollapse(r, m, t, U), Manifold(r),
           NEW i \in 1 .. Len(U), NEW j \in Sides, behind(m, U[i], j) # Null,
           NEW w \in {spine_vid(m, t, 1), opp(m, U[i])}
    PROVE  LET g == behind(m, U[i], j)
           IN  /\ g \in faces(r)
               /\ \E k, l \in Locals : k # l /\ r.fe[g][k] = ear(m, U[i], 1) /\ r.fv[g][l] = w
<1> DEFINE g == behind(m, U[i], j)
           o == opp(m, U[i])
<1>1. CASE w = spine_vid(m, t, 1)
  BY <1>1, MergedPlaces
<1>2. CASE w = o
  <2> DEFINE k == glue(m, U[i], j)
  <2>1. /\ g \in faces(r) /\ k \in Locals /\ m.fe[g][k] = ear(m, U[i], j)
    BY BehindStays
  <2>2. t \in Tuples(m) /\ U = Fan(m, t) /\ \A l \in Locals : r.fv[g][l] = merge(m, t, m.fv[g][l])
    BY <2>1 DEF IsCollapse
  <2> HIDE DEF g, k
  <2>3. g \in faces(m) /\ r.fe[g][k] = ear(m, U[i], 1)
    BY <2>1, EarPlaces
  <2>4. ends(m, g, k) = {spine_vid(m, t, j), o} /\ o # spine_vid(m, t, 0)
    <3>1. 0 \in Sides
      BY DEF Sides
    <3> QED
      BY <2>1, <2>2, <2>3, <3>1, Opps
  <2>5. \E l \in Locals : l # k /\ m.fv[g][l] = o
    <3>1. o \in ends(m, g, k)
      BY <2>4
    <3> HIDE DEF o
    <3> QED
      BY <3>1 DEF ends
  <2>6. PICK l \in Locals : l # k /\ m.fv[g][l] = o
    BY <2>5
  <2>7. r.fv[g][l] = w
    BY <1>2, <2>2, <2>4, <2>6 DEF merge
  <2> QED
    BY <2>1, <2>3, <2>6, <2>7 DEF g
<1> QED
  BY <1>1, <1>2

\* What a collapse that the conditions let pass is.
CollapseOf(r, t) ==
    /\ Manifold(mesh) /\ ~mesh.free /\ Agree(mesh, curve.e, maps) /\ t \in Tuples(mesh)
    /\ Manifold(r) /\ IsCollapse(r, mesh, t, Fan(mesh, t)) /\ CollapseTables(r, mesh, t)

\* The pair of an ear is a tuple of the ear that stays.
LEMMA EarReplacement ==
    ASSUME NEW t, NEW r, CollapseOf(r, t),
           NEW i \in 1 .. Len(Fan(mesh, t)), NEW j \in Sides,
           NEW e, e = ear(mesh, Fan(mesh, t)[i], j), e \in DOMAIN maps.p2c,
           NEW M, M.p2c[e] = maps.p2c[e], M.c2p[maps.p2c[e].c] = maps.c2p[maps.p2c[e].c],
           NEW a, a = ear_replacement(r, t, M, incident_face_datas(mesh, t)[i], j)
    PROVE  a \in Tuples(r) /\ id_edge(r, a) = ear(mesh, Fan(mesh, t)[i], 1)
<1> DEFINE U == Fan(mesh, t)
           x == incident_face_datas(mesh, t)[i]
           y == maps.c2p[maps.p2c[e].c]
           v == id_vertex(mesh, mapped_tuple(M, e))
           w == IF e # ear(mesh, U[i], 1) /\ v = spine_vid(mesh, t, 0) THEN spine_vid(mesh, t, 1) ELSE v
<1>1. /\ t \in Tuples(mesh) /\ Manifold(mesh) /\ Manifold(r) /\ IsCollapse(r, mesh, t, U)
      /\ Agree(mesh, curve.e, maps) /\ 0 \in Sides /\ 1 \in Sides
  BY DEF CollapseOf, Sides
<1>2. /\ x.ears[0].e = ear(mesh, U[i], 0) /\ x.ears[1].e = ear(mesh, U[i], 1)
      /\ x.ears[0].f = behind(mesh, U[i], 0) /\ x.ears[1].f = behind(mesh, U[i], 1)
      /\ x.ears[j].e = e
  BY <1>1, EarEdges
<1>3. y \in Tuples(mesh) /\ id_edge(mesh, y) = e /\ mapped_tuple(maps, e) = y
  <2>1. \A d \in DOMAIN maps.p2c :
           /\ maps.c2p[maps.p2c[d].c] \in Tuples(mesh)
           /\ id_edge(mesh, maps.c2p[maps.p2c[d].c]) = d
    BY <1>1 DEF Agree
  <2>2. y \in Tuples(mesh) /\ id_edge(mesh, y) = e
    BY <2>1
  <2>3. maps.p2c[e].v = y.v /\ maps.p2c[e].e = y.e
    <3>1. \A c \in curve.e : maps.p2c[id_edge(mesh, maps.c2p[c])]
                              = [c |-> c, v |-> maps.c2p[c].v, e |-> maps.c2p[c].e]
      BY <1>1 DEF Agree
    <3>2. maps.p2c[e].c \in curve.e
      BY <1>1 DEF Agree
    <3>3. maps.p2c[id_edge(mesh, y)] = [c |-> maps.p2c[e].c, v |-> y.v, e |-> y.e]
      BY ONLY <3>1, <3>2
    <3>4. maps.p2c[e] = [c |-> maps.p2c[e].c, v |-> y.v, e |-> y.e]
      BY ONLY <2>2, <3>3
    <3> QED
      BY ONLY <3>4
  <2>4. y = [v |-> y.v, e |-> y.e, f |-> y.f]
    BY <2>2 DEF Tuples
  <2> HIDE DEF y
  <2>5. mapped_tuple(maps, e) = y
    BY <2>3, <2>4 DEF mapped_tuple, y
  <2> QED
    BY <2>2, <2>5
<1>4. mapped_tuple(M, e) = y
  BY <1>3 DEF mapped_tuple
<1> HIDE DEF x
<1>5. merged_edge_fid(x) = merged(mesh, U[i])
  <2>1. behind(mesh, U[i], 0) \in faces(mesh) \cup {Null}
    BY <1>1, EarFaces DEF IsEar
  <2>2. faces(mesh) \subseteq Nat
    BY <1>1, Rows DEF Manifold
  <2>3. (behind(mesh, U[i], 0) < 0) <=> behind(mesh, U[i], 0) = Null
    BY <2>1, <2>2 DEF Null
  <2> QED
    BY <1>2, <2>3 DEF merged_edge_fid, merged
<1>6. \E h \in Sides : merged(mesh, U[i]) = behind(mesh, U[i], h) /\ behind(mesh, U[i], h) # Null
  <2>1. behind(mesh, U[i], 0) # Null \/ behind(mesh, U[i], 1) # Null
    BY <1>1 DEF IsCollapse, LinkHolds
  <2> QED
    BY <1>1, <2>1 DEF merged
<1>7. a = tuple_from_global_ids(r, merged(mesh, U[i]), ear(mesh, U[i], 1), w)
  BY <1>2, <1>5 DEF ear_replacement, x
<1>8. v \in {spine_vid(mesh, t, j), opp(mesh, U[i])}
  <2>1. y.f \in faces(mesh) /\ y.e \in Locals /\ y.v \in Locals /\ y.v # y.e
    BY <1>3 DEF Tuples
  <2>2. ends(mesh, y.f, y.e) = {spine_vid(mesh, t, j), opp(mesh, U[i])}
    <3>1. mesh.fe[y.f][y.e] = ear(mesh, U[i], j)
      BY <1>3 DEF id_edge
    <3>2. \A f \in faces(mesh), k \in Locals :
             mesh.fe[f][k] = ear(mesh, U[i], j) <=>
                ends(mesh, f, k) = {spine_vid(mesh, t, j), opp(mesh, U[i])}
      BY <1>1, Opps
    <3> QED
      BY <2>1, <3>1, <3>2
  <2>3. v = mesh.fv[y.f][y.v]
    BY <1>4 DEF id_vertex
  <2>4. v \in ends(mesh, y.f, y.e)
    BY <2>1, <2>3 DEF ends
  <2> QED
    BY <2>2, <2>4
<1>9. w \in {spine_vid(mesh, t, 1), opp(mesh, U[i])}
  <2>1. opp(mesh, U[i]) # spine_vid(mesh, t, 0)
    BY <1>1, Opps
  <2>2. CASE j = 1
    <3>1. w = v
      BY <2>2
    <3> QED
      BY <1>8, <2>2, <3>1
  <2>3. CASE j = 0
    <3>1. ear(mesh, U[i], 0) # ear(mesh, U[i], 1)
      BY <1>1, EarsApart
    <3>2. e # ear(mesh, U[i], 1)
      BY <2>3, <3>1
    <3> HIDE DEF v
    <3> QED
      BY <1>8, <2>1, <2>3, <3>2
  <2> QED
    BY <2>2, <2>3 DEF Sides
<1> HIDE DEF w
<1>10. PICK g : /\ g = merged(mesh, U[i]) /\ g \in faces(r)
                /\ \E k, l \in Locals : k # l /\ r.fe[g][k] = ear(mesh, U[i], 1) /\ r.fv[g][l] = w
  BY <1>1, <1>6, <1>9, JoinedPlaces
<1>11. PICK k \in Locals, l \in Locals : k # l /\ r.fe[g][k] = ear(mesh, U[i], 1) /\ r.fv[g][l] = w
  BY <1>10
<1> QED
  BY <1>1, <1>7, <1>10, <1>11, TupleOfIds

\* While a collapse updates the maps: the faces S of the fan are done.  What
\* is not an ear of them is as it was, what was mapped to one of their ears is
\* mapped to the one that stays.
EarOf(t, i, j) == ear(mesh, Fan(mesh, t)[i], j)
EarsJoined(M, r, t, S) ==
    /\ DOMAIN M.c2p = curve.e
    /\ \A e \in DOMAIN maps.p2c :
          e \in DOMAIN M.p2c /\ ((\A i \in S : e # EarOf(t, i, 1)) => M.p2c[e] = maps.p2c[e])
    /\ \A e \in DOMAIN M.p2c : e \in DOMAIN maps.p2c \/ \E i \in S : e = EarOf(t, i, 1)
    /\ \A c \in curve.e :
          (\A i \in S, j \in Sides : id_edge(mesh, maps.c2p[c]) # EarOf(t, i, j))
             => M.c2p[c] = maps.c2p[c]
    /\ \A i \in S, j \in Sides : EarOf(t, i, j) \in DOMAIN maps.p2c =>
          LET c == maps.p2c[EarOf(t, i, j)].c
              a == M.c2p[c]
          IN  /\ a \in Tuples(r) /\ id_edge(r, a) = EarOf(t, i, 1)
              /\ EarOf(t, i, 1) \in DOMAIN M.p2c
              /\ M.p2c[EarOf(t, i, 1)] = [c |-> c, v |-> a.v, e |-> a.e]
    /\ \A i \in S : EarOf(t, i, 1) \in DOMAIN M.p2c => \E j \in Sides : EarOf(t, i, j) \in DOMAIN maps.p2c

\* Before the first face nothing is done.
LEMMA NoneJoined ==
    ASSUME NEW r, NEW t, Agree(mesh, curve.e, maps)
    PROVE  EarsJoined(maps, r, t, {})
BY DEF EarsJoined, Agree

\* The edges of the child that stay: an ear is not the operating edge.
LEMMA EarKept ==
    ASSUME NEW t \in Tuples(mesh), Manifold(mesh), Agree(mesh, curve.e, maps),
           NEW k, k.e = IF is_mapped(t) THEN curve.e \ {maps.p2c[id_edge(mesh, t)].c} ELSE curve.e,
           NEW i \in 1 .. Len(Fan(mesh, t)), NEW j \in Sides, EarOf(t, i, j) \in DOMAIN maps.p2c
    PROVE  maps.p2c[EarOf(t, i, j)].c \in k.e
<1> DEFINE e == EarOf(t, i, j)
           e0 == id_edge(mesh, t)
<1>1. e # e0
  BY EarEdges DEF EarOf
<1>2. \A d \in DOMAIN maps.p2c : /\ maps.p2c[d].c \in curve.e
                                 /\ id_edge(mesh, maps.c2p[maps.p2c[d].c]) = d
  BY DEF Agree
<1>3. is_mapped(t) => maps.p2c[e0].c # maps.p2c[e].c
  BY <1>1, <1>2 DEF is_mapped
<1> QED
  BY <1>2, <1>3

\* One face of the fan, of which at most one ear is mapped.
LEMMA FaceJoins ==
    ASSUME NEW t, NEW r, CollapseOf(r, t), map_valid(t),
           NEW k, k.e = IF is_mapped(t) THEN curve.e \ {maps.p2c[id_edge(mesh, t)].c} ELSE curve.e,
           NEW S \in SUBSET (1 .. Len(Fan(mesh, t))), NEW i \in 1 .. Len(Fan(mesh, t)), i \notin S,
           NEW M, EarsJoined(M, r, t, S)
    PROVE  EarsJoined(face_joined(r, k, t, M, incident_face_datas(mesh, t)[i]), r, t, S \cup {i})
<1> DEFINE x == incident_face_datas(mesh, t)[i]
           I == 1 .. Len(Fan(mesh, t))
           W == face_joined(r, k, t, M, x)
           mapped(j) == EarOf(t, i, j) \in DOMAIN maps.p2c
<1>1. /\ t \in Tuples(mesh) /\ Manifold(mesh) /\ Manifold(r) /\ Agree(mesh, curve.e, maps)
      /\ Sides = {0, 1}
  BY DEF CollapseOf, Sides
<1>2. \A j \in Sides : x.ears[j].e = EarOf(t, i, j)
  BY <1>1, EarEdges DEF EarOf
<1>3. \A l, h \in I, p, q \in Sides : EarOf(t, l, p) = EarOf(t, h, q) => l = h /\ p = q
  BY <1>1, EarsApart DEF EarOf
<1>4. ~mapped(0) \/ ~mapped(1)
  <2>1. DOMAIN incident_face_datas(mesh, t) = I
    BY <1>1, EarEdges
  <2>2. \E j \in Sides : x.ears[j].e \notin DOMAIN maps.p2c
    BY <2>1 DEF map_valid
  <2> HIDE DEF x
  <2> QED
    BY <1>1, <1>2, <2>2
<1>5. \A j \in Sides : \A l \in S : EarOf(t, i, j) # EarOf(t, l, 1)
  BY <1>1, <1>3
<1>6. \A j \in Sides : EarOf(t, i, j) \in DOMAIN M.p2c <=> mapped(j)
  BY <1>5 DEF EarsJoined
<1>7. \A j \in Sides : mapped(j) => M.p2c[EarOf(t, i, j)] = maps.p2c[EarOf(t, i, j)]
  BY <1>5 DEF EarsJoined
<1>8. \A j \in Sides : mapped(j) => maps.p2c[EarOf(t, i, j)].c \in k.e
  BY <1>1, EarKept
<1> DEFINE c(j) == maps.p2c[EarOf(t, i, j)].c
           a(j) == ear_replacement(r, t, M, x, j)
<1> HIDE DEF x, mapped
<1>9. \A j \in Sides : \A V : ear_joined(r, k, t, M, V, x, j) =
            IF mapped(j) THEN symmetric_write(r, V, a(j), c(j), 0) ELSE V
  BY <1>2, <1>6, <1>7, <1>8 DEF ear_joined
<1>10. ASSUME NEW j \in Sides, mapped(j)
       PROVE  W = symmetric_write(r, M, a(j), c(j), 0)
  <2>1. W = ear_joined(r, k, t, M, ear_joined(r, k, t, M, M, x, 0), x, 1)
    BY DEF face_joined
  <2> HIDE DEF W, a, c
  <2>2. CASE j = 0
    <3>1. ear_joined(r, k, t, M, M, x, 0) = symmetric_write(r, M, a(0), c(0), 0)
      BY <1>1, <1>9, <1>10, <2>2
    <3>2. ~mapped(1)
      BY <1>4, <1>10, <2>2
    <3> QED
      BY <1>1, <1>9, <2>1, <2>2, <3>1, <3>2
  <2>3. CASE j = 1
    <3>1. ~mapped(0)
      BY <1>4, <1>10, <2>3
    <3>2. ear_joined(r, k, t, M, M, x, 0) = M
      BY <1>1, <1>9, <3>1
    <3> QED
      BY <1>1, <1>9, <1>10, <2>1, <2>3, <3>2
  <2> QED
    BY <1>1, <2>2, <2>3
<1>11. (\A j \in Sides : ~mapped(j)) => W = M
  <2> SUFFICES ASSUME ~mapped(0), ~mapped(1)
               PROVE  W = M
    BY <1>1
  <2>1. ear_joined(r, k, t, M, M, x, 0) = M /\ ear_joined(r, k, t, M, M, x, 1) = M
    BY <1>1, <1>9
  <2> QED
    BY <2>1 DEF face_joined
<1>12. CASE \A j \in Sides : ~mapped(j)
  <2>1. EarsJoined(M, r, t, S \cup {i})
    <3>1. EarOf(t, i, 1) \notin DOMAIN M.p2c
      BY <1>1, <1>6, <1>12
    <3>2. \A e \in DOMAIN maps.p2c : \A j \in Sides : e # EarOf(t, i, j)
      BY <1>12 DEF mapped
    <3>3. \A d \in curve.e, j \in Sides : id_edge(mesh, maps.c2p[d]) # EarOf(t, i, j)
      BY <1>1, <1>12 DEF Agree, mapped
    <3>4. /\ DOMAIN M.c2p = curve.e
          /\ \A e \in DOMAIN M.p2c : e \in DOMAIN maps.p2c \/ \E l \in S \cup {i} : e = EarOf(t, l, 1)
          /\ \A e \in DOMAIN maps.p2c :
                /\ e \in DOMAIN M.p2c
                /\ (\A l \in S \cup {i} : e # EarOf(t, l, 1)) => M.p2c[e] = maps.p2c[e]
      BY DEF EarsJoined
    <3>5. \A d \in curve.e :
             (\A l \in S \cup {i}, j \in Sides : id_edge(mesh, maps.c2p[d]) # EarOf(t, l, j))
                => M.c2p[d] = maps.c2p[d]
      BY DEF EarsJoined
    <3>6. \A l \in S \cup {i}, j \in Sides : EarOf(t, l, j) \in DOMAIN maps.p2c =>
             LET d == maps.p2c[EarOf(t, l, j)].c
                 b == M.c2p[d]
             IN  /\ b \in Tuples(r) /\ id_edge(r, b) = EarOf(t, l, 1)
                 /\ EarOf(t, l, 1) \in DOMAIN M.p2c
                 /\ M.p2c[EarOf(t, l, 1)] = [c |-> d, v |-> b.v, e |-> b.e]
      <4>1. \A l \in S \cup {i}, j \in Sides : EarOf(t, l, j) \in DOMAIN maps.p2c => l \in S
        BY <1>12 DEF mapped
      <4> QED
        BY <4>1 DEF EarsJoined
    <3>7. \A l \in S \cup {i} :
             EarOf(t, l, 1) \in DOMAIN M.p2c => \E j \in Sides : EarOf(t, l, j) \in DOMAIN maps.p2c
      BY <3>1 DEF EarsJoined
    <3> QED
      BY ONLY <3>4, <3>5, <3>6, <3>7 DEF EarsJoined
  <2> QED
    BY <1>11, <1>12, <2>1 DEF x
<1>13. CASE \E j \in Sides : mapped(j)
  <2>1. PICK j \in Sides : mapped(j)
    BY <1>13
  <2> DEFINE e == EarOf(t, i, j)
             e1 == EarOf(t, i, 1)
             cj == c(j)
             aj == a(j)
  <2>2. /\ e \in DOMAIN maps.p2c /\ cj \in curve.e /\ id_edge(mesh, maps.c2p[cj]) = e
    BY <1>1, <2>1 DEF Agree, mapped
  <2>3. M.p2c[e] = maps.p2c[e] /\ M.c2p[cj] = maps.c2p[cj]
    <3>1. M.p2c[e] = maps.p2c[e]
      BY <1>7, <2>1
    <3>2. \A l \in S, q \in Sides : e # EarOf(t, l, q)
      BY <1>3
    <3> HIDE DEF e
    <3>3. M.c2p[cj] = maps.c2p[cj]
      BY <2>2, <3>2 DEF EarsJoined
    <3> QED
      BY <3>1, <3>3
  <2>4. aj \in Tuples(r) /\ id_edge(r, aj) = e1
    <3>1. /\ e = ear(mesh, Fan(mesh, t)[i], j) /\ e1 = ear(mesh, Fan(mesh, t)[i], 1)
          /\ aj = ear_replacement(r, t, M, incident_face_datas(mesh, t)[i], j)
          /\ cj = maps.p2c[e].c
      BY DEF EarOf, x
    <3> HIDE DEF e, e1, cj, aj
    <3>2. e \in DOMAIN maps.p2c /\ M.p2c[e] = maps.p2c[e] /\ M.c2p[maps.p2c[e].c] = maps.c2p[maps.p2c[e].c]
      BY ONLY <2>2, <2>3, <3>1
    <3> QED
      BY <3>1, <3>2, EarReplacement
  <2>5. Wrote(W, M, cj, e1, aj)
    <3>1. W = symmetric_write(r, M, aj, cj, 0)
      BY <1>10, <2>1
    <3> HIDE DEF W, aj, cj, e1
    <3>2. 0 \in Sides
      BY <1>1
    <3>3. at_side(aj, 0) = aj /\ Wrote(symmetric_write(r, M, aj, cj, 0), M, cj, id_edge(r, aj), at_side(aj, 0))
      BY <2>4, <3>2, SymmetricWrite
    <3> QED
      BY <2>4, <3>1, <3>3
  <2>6. e1 \in DOMAIN M.p2c => mapped(1)
    BY <1>1, <1>6
  <2> HIDE DEF W, aj
  <2> DEFINE cc(l, q) == maps.p2c[EarOf(t, l, q)].c
             T == S \cup {i}
  <2>7. \A l \in S : EarOf(t, l, 1) # e1
    BY <1>1, <1>3
  <2>8. ASSUME NEW l \in S, NEW q \in Sides, EarOf(t, l, q) \in DOMAIN maps.p2c
        PROVE  cc(l, q) # cj /\ cc(l, q) \in curve.e
    <3>1. cc(l, q) \in curve.e /\ id_edge(mesh, maps.c2p[cc(l, q)]) = EarOf(t, l, q)
      BY <1>1, <2>8 DEF Agree
    <3>2. EarOf(t, l, q) # e
      BY <1>3
    <3> HIDE DEF cj, cc
    <3> QED
      BY <2>2, <3>1, <3>2
  <2>9. /\ DOMAIN W.p2c = DOMAIN M.p2c \cup {e1} /\ DOMAIN W.c2p = curve.e
        /\ W.p2c[e1] = [c |-> cj, v |-> aj.v, e |-> aj.e] /\ W.c2p[cj] = aj
        /\ \A d \in DOMAIN M.p2c : d # e1 => W.p2c[d] = M.p2c[d]
        /\ \A d \in curve.e : d # cj => W.c2p[d] = M.c2p[d]
    <3>1. DOMAIN M.c2p = curve.e
      BY DEF EarsJoined
    <3> HIDE DEF cj, e1
    <3> QED
      BY <2>2, <2>5, <3>1 DEF Wrote
  <2>10. ASSUME NEW d \in DOMAIN maps.p2c
         PROVE  d \in DOMAIN W.p2c /\ ((\A l \in T : d # EarOf(t, l, 1)) => W.p2c[d] = maps.p2c[d])
    <3>1. d \in DOMAIN M.p2c /\ ((\A l \in S : d # EarOf(t, l, 1)) => M.p2c[d] = maps.p2c[d])
      BY DEF EarsJoined
    <3> QED
      BY <2>9, <3>1
  <2>11. ASSUME NEW d \in DOMAIN W.p2c
         PROVE  d \in DOMAIN maps.p2c \/ \E l \in T : d = EarOf(t, l, 1)
    <3>1. d \in DOMAIN M.p2c => d \in DOMAIN maps.p2c \/ \E l \in S : d = EarOf(t, l, 1)
      BY DEF EarsJoined
    <3> QED
      BY <2>9, <3>1
  <2>12. ASSUME NEW d \in curve.e,
                \A l \in T, q \in Sides : id_edge(mesh, maps.c2p[d]) # EarOf(t, l, q)
         PROVE  W.c2p[d] = maps.c2p[d]
    <3>1. M.c2p[d] = maps.c2p[d]
      BY <2>12 DEF EarsJoined
    <3>2. id_edge(mesh, maps.c2p[d]) # e
      BY <2>12
    <3> HIDE DEF cj, e
    <3> QED
      BY <2>2, <2>9, <3>1, <3>2
  <2>13. ASSUME NEW l \in T, NEW q \in Sides, EarOf(t, l, q) \in DOMAIN maps.p2c
         PROVE  LET b == W.c2p[cc(l, q)]
                IN  /\ b \in Tuples(r) /\ id_edge(r, b) = EarOf(t, l, 1)
                    /\ EarOf(t, l, 1) \in DOMAIN W.p2c
                    /\ W.p2c[EarOf(t, l, 1)] = [c |-> cc(l, q), v |-> b.v, e |-> b.e]
    <3>1. CASE l \in S
      <4> DEFINE b == M.c2p[cc(l, q)]
      <4>1. /\ b \in Tuples(r) /\ id_edge(r, b) = EarOf(t, l, 1)
            /\ EarOf(t, l, 1) \in DOMAIN M.p2c
            /\ M.p2c[EarOf(t, l, 1)] = [c |-> cc(l, q), v |-> b.v, e |-> b.e]
        BY <2>13, <3>1 DEF EarsJoined
      <4>2. W.c2p[cc(l, q)] = M.c2p[cc(l, q)]
        <5> HIDE DEF cj, cc
        <5> QED
          BY <2>8, <2>9, <2>13, <3>1
      <4>3. W.p2c[EarOf(t, l, 1)] = M.p2c[EarOf(t, l, 1)] /\ EarOf(t, l, 1) \in DOMAIN W.p2c
        <5> HIDE DEF e1
        <5> QED
          BY <2>7, <2>9, <3>1, <4>1
      <4> QED
        BY <4>1, <4>2, <4>3
    <3>2. CASE l = i
      <4>1. q = j
        <5>1. mapped(q)
          BY <2>13, <3>2 DEF mapped
        <5> QED
          BY <1>1, <1>4, <2>1, <5>1
      <4>2. cc(l, q) = cj /\ EarOf(t, l, 1) = e1
        BY <3>2, <4>1
      <4> HIDE DEF cc, cj, e1
      <4> QED
        BY <2>4, <2>9, <4>2
    <3> QED
      BY <3>1, <3>2
  <2>14. ASSUME NEW l \in T, EarOf(t, l, 1) \in DOMAIN W.p2c
         PROVE  \E q \in Sides : EarOf(t, l, q) \in DOMAIN maps.p2c
    <3>1. CASE l \in S
      <4>1. EarOf(t, l, 1) \in DOMAIN M.p2c
        BY <2>7, <2>9, <2>14, <3>1
      <4> QED
        BY <3>1, <4>1 DEF EarsJoined
    <3>2. CASE l = i
      BY <2>2, <3>2
    <3> QED
      BY <3>1, <3>2
  <2> HIDE DEF T
  <2>15. EarsJoined(W, r, t, T)
    BY <2>9, <2>10, <2>11, <2>12, <2>13, <2>14 DEF EarsJoined
  <2> QED
    BY <2>15 DEF T, W, x
<1> QED
  BY <1>12, <1>13

\* After the updates every face of the fan is done.
LEMMA AllJoined ==
    ASSUME NEW t, NEW r, CollapseOf(r, t), map_valid(t),
           NEW k, k.e = IF is_mapped(t) THEN curve.e \ {maps.p2c[id_edge(mesh, t)].c} ELSE curve.e
    PROVE  EarsJoined(update_ear_replacement(r, k, t), r, t, 1 .. Len(Fan(mesh, t)))
<1> DEFINE D == incident_face_datas(mesh, t)
           I == 1 .. Len(Fan(mesh, t))
           M1 == face_joined(r, k, t, maps, D[1])
           M2 == face_joined(r, k, t, M1, D[2])
<1>1. t \in Tuples(mesh) /\ Manifold(mesh) /\ Agree(mesh, curve.e, maps)
  BY DEF CollapseOf
<1>2. DOMAIN D = I /\ (I = {1} \/ I = {1, 2})
  BY <1>1, EarEdges
<1>3. update_ear_replacement(r, k, t) = IF I = {1} THEN M1 ELSE M2
  BY <1>2, UpdateEarsIs
<1>4. EarsJoined(maps, r, t, {})
  BY <1>1, NoneJoined
<1>5. EarsJoined(M1, r, t, {} \cup {1})
  <2>1. {} \in SUBSET I /\ 1 \in I /\ 1 \notin {}
    BY <1>2
  <2> QED
    BY <1>4, <2>1, FaceJoins
<1>6. {} \cup {1} = {1} /\ {1} \cup {2} = {1, 2} /\ {1, 2} # {1}
  OBVIOUS
<1>7. EarsJoined(M1, r, t, {1})
  BY <1>5, <1>6
<1> HIDE DEF M1
<1>8. I = {1, 2} => EarsJoined(M2, r, t, {1, 2})
  <2> SUFFICES ASSUME I = {1, 2}
               PROVE  EarsJoined(M2, r, t, {1, 2})
    OBVIOUS
  <2>1. {1} \in SUBSET I /\ 2 \in I /\ 2 \notin {1}
    OBVIOUS
  <2>2. EarsJoined(M2, r, t, {1} \cup {2})
    BY <1>7, <2>1, FaceJoins
  <2> QED
    BY <1>6, <2>2
<1> HIDE DEF I, M2
<1> QED
  BY <1>2, <1>3, <1>6, <1>7, <1>8 DEF I

\* The maps after a collapse agree.
LEMMA CollapseMapsAgree ==
    ASSUME NEW t, NEW r, CollapseOf(r, t), NEW M, EarsJoined(M, r, t, 1 .. Len(Fan(mesh, t))),
           NEW k, k.e = IF is_mapped(t) THEN curve.e \ {maps.p2c[id_edge(mesh, t)].c} ELSE curve.e
    PROVE  Agree(r, k.e, of_active(r, k, M))
<1> DEFINE I == 1 .. Len(Fan(mesh, t))
           R == of_active(r, k, M)
           e0 == id_edge(mesh, t)
           x(c) == maps.c2p[c]
           IsEarOf(e) == \E i \in I, j \in Sides : e = EarOf(t, i, j)
<1>1. /\ t \in Tuples(mesh) /\ Manifold(mesh) /\ Manifold(r) /\ Agree(mesh, curve.e, maps)
      /\ IsCollapse(r, mesh, t, Fan(mesh, t)) /\ Sides = {0, 1}
  BY DEF CollapseOf, Sides
<1>2. edges(r) = edges(mesh) \ ({e0} \cup MergedEars(mesh, t))
  BY DEF CollapseOf, CollapseTables
<1>3. faces(r) = faces(mesh) \ Gone(mesh, t)
  BY <1>1 DEF IsCollapse
<1>4. \A i \in I, j \in Sides : /\ EarOf(t, i, j) \in edges(mesh) /\ EarOf(t, i, j) # e0
  BY <1>1, EarEdges DEF EarOf
<1>5. \A i, h \in I, j, l \in Sides : EarOf(t, i, j) = EarOf(t, h, l) => i = h /\ j = l
  BY <1>1, EarsApart DEF EarOf
<1>6. \A i \in I : EarOf(t, i, 1) \in edges(r)
  BY <1>1, <1>2, <1>4, <1>5 DEF MergedEars, EarOf
<1>7. \A e \in edges(r) : IsEarOf(e) => \E i \in I : e = EarOf(t, i, 1)
  BY <1>1, <1>2 DEF MergedEars, EarOf
<1>8. \A c \in curve.e : /\ x(c) \in Tuples(mesh) /\ id_edge(mesh, x(c)) \in DOMAIN maps.p2c
                         /\ maps.p2c[id_edge(mesh, x(c))] = [c |-> c, v |-> x(c).v, e |-> x(c).e]
  BY <1>1 DEF Agree
<1>9. \A e \in DOMAIN maps.p2c : /\ maps.p2c[e].c \in curve.e
                                 /\ id_edge(mesh, x(maps.p2c[e].c)) = e
  BY <1>1 DEF Agree
<1>10. ASSUME NEW c \in curve.e
       PROVE  maps.p2c[id_edge(mesh, x(c))].c = c
  <2>1. maps.p2c[id_edge(mesh, x(c))] = [c |-> c, v |-> x(c).v, e |-> x(c).e]
    BY <1>8
  <2> QED
    BY <2>1
<1>11. is_mapped(t) <=> e0 \in DOMAIN maps.p2c
  BY DEF is_mapped
<1>12. ASSUME NEW c \in curve.e
       PROVE  c \in k.e <=> id_edge(mesh, x(c)) # e0
  <2>1. id_edge(mesh, x(c)) \in DOMAIN maps.p2c
    BY <1>8
  <2>2. CASE is_mapped(t)
    <3>1. k.e = curve.e \ {maps.p2c[e0].c} /\ id_edge(mesh, x(maps.p2c[e0].c)) = e0
      BY <1>9, <1>11, <2>2
    <3>2. maps.p2c[id_edge(mesh, x(c))].c = c
      BY <1>10
    <3> HIDE DEF x, e0
    <3> QED
      BY <3>1, <3>2
  <2>3. CASE ~is_mapped(t)
    BY <1>11, <2>1, <2>3
  <2> QED
    BY <2>2, <2>3
<1>13. k.e \subseteq curve.e
  OBVIOUS
<1>14. DOMAIN M.c2p = curve.e
  BY DEF EarsJoined
<1>15. /\ DOMAIN R.p2c = DOMAIN M.p2c \cap edges(r) /\ DOMAIN R.c2p = k.e
       /\ \A e \in DOMAIN R.p2c : R.p2c[e] = M.p2c[e]
       /\ \A c \in k.e : R.c2p[c] = M.c2p[c]
  <2>1. /\ DOMAIN R.p2c = DOMAIN M.p2c \cap edges(r) /\ DOMAIN R.c2p = DOMAIN M.c2p \cap k.e
        /\ \A e \in DOMAIN R.p2c : R.p2c[e] = M.p2c[e]
        /\ \A c \in DOMAIN R.c2p : R.c2p[c] = M.c2p[c]
    BY OfActive
  <2> HIDE DEF R
  <2>2. DOMAIN R.c2p = k.e
    BY <1>13, <1>14, <2>1
  <2> QED
    BY <2>1, <2>2
<1> HIDE DEF R, x, e0
\* An edge of the child that is mapped to an ear.
<1>16. ASSUME NEW i \in I, NEW j \in Sides, EarOf(t, i, j) \in DOMAIN maps.p2c
       PROVE  LET c == maps.p2c[EarOf(t, i, j)].c
              IN  /\ c \in k.e /\ M.c2p[c] \in Tuples(r) /\ id_edge(r, M.c2p[c]) = EarOf(t, i, 1)
                  /\ EarOf(t, i, 1) \in DOMAIN M.p2c
                  /\ M.p2c[EarOf(t, i, 1)] = [c |-> c, v |-> M.c2p[c].v, e |-> M.c2p[c].e]
  <2>1. maps.p2c[EarOf(t, i, j)].c \in k.e
    BY <1>4, <1>9, <1>12, <1>16
  <2> QED
    BY <1>16, <2>1 DEF EarsJoined
\* One that is not.
<1>17. ASSUME NEW c \in k.e, ~IsEarOf(id_edge(mesh, x(c)))
       PROVE  LET e == id_edge(mesh, x(c))
              IN  /\ M.c2p[c] = x(c) /\ x(c) \in Tuples(r) /\ id_edge(r, x(c)) = e
                  /\ e \in edges(r) /\ e \in DOMAIN M.p2c /\ M.p2c[e] = maps.p2c[e]
  <2> DEFINE e == id_edge(mesh, x(c))
             y == x(c)
  <2>1. c \in curve.e /\ y \in Tuples(mesh) /\ e \in DOMAIN maps.p2c /\ e # e0
    BY <1>8, <1>12, <1>13
  <2>2. \A i \in I, j \in Sides : e # EarOf(t, i, j)
    BY <1>17
  <2>3. M.c2p[c] = y
    BY <2>1, <2>2 DEF EarsJoined, x
  <2>4. M.p2c[e] = maps.p2c[e] /\ e \in DOMAIN M.p2c
    <3>1. 1 \in Sides
      BY <1>1
    <3>2. \A i \in I : e # EarOf(t, i, 1)
      BY <2>2, <3>1
    <3> QED
      BY <2>1, <3>2 DEF EarsJoined
  <2>5. y.f \in faces(mesh) /\ y.e \in Locals /\ y.v \in Locals /\ y.v # y.e
        /\ y \in [v : Locals, e : Locals, f : faces(mesh)] /\ e = mesh.fe[y.f][y.e]
    BY <2>1 DEF Tuples, id_edge
  <2>6. y.f \notin Gone(mesh, t)
    <3>1. y.f \in Gone(mesh, t) =>
             \/ mesh.fe[y.f][y.e] = id_edge(mesh, t)
             \/ \E i \in I, j \in Sides : mesh.fe[y.f][y.e] = ear(mesh, Fan(mesh, t)[i], j)
      BY <1>1, <2>5, GoneFace
    <3> QED
      BY <2>1, <2>2, <2>5, <3>1 DEF EarOf, e0
  <2>7. y.f \in faces(r)
    BY <1>3, <2>5, <2>6
  <2>8. y \in Tuples(r)
    BY <2>5, <2>7 DEF Tuples
  <2>9. r.fe[y.f][y.e] = mesh.fe[y.f][y.e]
    <3>1. \A i \in I, j \in Sides : mesh.fe[y.f][y.e] # ear(mesh, Fan(mesh, t)[i], j)
      BY <2>2, <2>5 DEF EarOf
    <3> QED
      BY <1>1, <2>5, <2>7, <3>1, EarPlaces
  <2>10. id_edge(r, y) = e /\ e \in edges(r)
    <3>1. r.fe[y.f][y.e] \in edges(r)
      BY <1>1, <2>5, <2>7, Rows DEF Manifold
    <3> QED
      BY <2>5, <2>9, <3>1 DEF id_edge
  <2> QED
    BY <2>3, <2>4, <2>8, <2>10
<1>18. ASSUME NEW c \in k.e
       PROVE  /\ R.c2p[c] \in Tuples(r) /\ id_edge(r, R.c2p[c]) \in DOMAIN R.p2c
              /\ R.p2c[id_edge(r, R.c2p[c])] = [c |-> c, v |-> R.c2p[c].v, e |-> R.c2p[c].e]
  <2> DEFINE a == M.c2p[c]
             d == id_edge(r, a)
  <2>1. a \in Tuples(r) /\ d \in edges(r) /\ d \in DOMAIN M.p2c
        /\ M.p2c[d] = [c |-> c, v |-> a.v, e |-> a.e]
    <3>1. CASE IsEarOf(id_edge(mesh, x(c)))
      <4>1. PICK i \in I, j \in Sides : id_edge(mesh, x(c)) = EarOf(t, i, j)
        BY <3>1
      <4>2. EarOf(t, i, j) \in DOMAIN maps.p2c /\ maps.p2c[EarOf(t, i, j)].c = c
        <5>1. c \in curve.e
          BY <1>13
        <5>2. /\ id_edge(mesh, x(c)) \in DOMAIN maps.p2c
              /\ maps.p2c[id_edge(mesh, x(c))].c = c
          BY <1>8, <1>10, <5>1
        <5> QED
          BY ONLY <4>1, <5>2
      <4> QED
        BY <1>6, <1>16, <4>2
    <3>2. CASE ~IsEarOf(id_edge(mesh, x(c)))
      BY <1>8, <1>13, <1>17, <3>2
    <3> QED
      BY <3>1, <3>2
  <2>2. R.c2p[c] = a
    BY <1>15
  <2> HIDE DEF a
  <2>3. d \in DOMAIN R.p2c /\ R.p2c[d] = M.p2c[d]
    BY <1>15, <2>1
  <2> QED
    BY <2>1, <2>2, <2>3
<1>19. ASSUME NEW e \in DOMAIN R.p2c
       PROVE  R.p2c[e].c \in k.e /\ id_edge(r, R.c2p[R.p2c[e].c]) = e
  <2>1. e \in DOMAIN M.p2c /\ e \in edges(r) /\ R.p2c[e] = M.p2c[e]
    BY <1>15
  <2>2. CASE \E i \in I : e = EarOf(t, i, 1)
    <3>1. PICK i \in I : e = EarOf(t, i, 1)
      BY <2>2
    <3>2. PICK j \in Sides : EarOf(t, i, j) \in DOMAIN maps.p2c
      BY <2>1, <3>1 DEF EarsJoined
    <3> DEFINE c == maps.p2c[EarOf(t, i, j)].c
    <3>3. c \in k.e /\ id_edge(r, M.c2p[c]) = e /\ M.p2c[e] = [c |-> c, v |-> M.c2p[c].v, e |-> M.c2p[c].e]
      BY <1>16, <3>1, <3>2
    <3> HIDE DEF c
    <3>4. M.p2c[e].c = c
      BY <3>3
    <3> QED
      BY <1>15, <2>1, <3>3, <3>4
  <2>3. CASE \A i \in I : e # EarOf(t, i, 1)
    <3>1. e \in DOMAIN maps.p2c /\ ~IsEarOf(e) /\ e # e0
      BY <1>2, <1>7, <2>1, <2>3 DEF EarsJoined
    <3>2. M.p2c[e] = maps.p2c[e]
      BY <2>3, <3>1 DEF EarsJoined
    <3> DEFINE c == maps.p2c[e].c
    <3>3. c \in curve.e /\ id_edge(mesh, x(c)) = e
      BY <1>9, <3>1
    <3>4. c \in k.e
      BY <1>12, <3>1, <3>3
    <3>5. M.c2p[c] = x(c) /\ id_edge(r, x(c)) = e
      BY <1>17, <3>1, <3>3, <3>4
    <3> HIDE DEF c
    <3> QED
      BY <1>15, <2>1, <3>2, <3>4, <3>5 DEF c
  <2> QED
    BY <2>2, <2>3
<1> QED
  BY <1>15, <1>18, <1>19 DEF Agree, R

\* The child after a collapse.
collapse_child(t) ==
    IF is_mapped(t)
    THEN Curve!collapse_edge_single_mesh(map_to_child_tuple(t).c, map_to_child_tuple(t).s)
    ELSE curve
\* A collapse of a mapped edge deletes the edge of the child.
LEMMA CollapseChild ==
    ASSUME FamilyInv, NEW t \in Tuples(mesh)
    PROVE  /\ collapse_child(t).e =
                 IF is_mapped(t) THEN curve.e \ {maps.p2c[id_edge(mesh, t)].c} ELSE curve.e
           /\ IsCurve(collapse_child(t))
<1> DEFINE d == map_to_child_tuple(t)
           q == Curve!collapse_edge_single_mesh(d.c, d.s)
           old == curve
<1>1. d.c = maps.p2c[id_edge(mesh, t)].c
  BY DEF map_to_child_tuple
<1>2. old = [v |-> old.v, e |-> old.e, ev |-> old.ev, ee |-> old.ee, ve |-> old.ve]
  BY DEF FamilyInv, IsCurve
<1> HIDE DEF d
<1>3. \E a, b, c, x, y : q = [old EXCEPT !.v = a, !.e = @ \ {d.c}, !.ee = b, !.ev = c, !.ve[x] = y]
  BY DEF Curve!collapse_edge_single_mesh
<1> HIDE DEF q
<1>4. PICK a, b, c, x, y : q = [old EXCEPT !.v = a, !.e = @ \ {d.c}, !.ee = b, !.ev = c, !.ve[x] = y]
  BY <1>3
<1>5. q = [v |-> a, e |-> old.e \ {d.c}, ev |-> c, ee |-> b, ve |-> [old.ve EXCEPT ![x] = y]]
  <2> HIDE DEF old
  <2> QED
    BY <1>2, <1>4
<1>6. q.e = curve.e \ {d.c} /\ IsCurve(q)
  <2> HIDE DEF old
  <2>1. q.e = old.e \ {d.c} /\ IsCurve(q)
    BY <1>5 DEF IsCurve
  <2> QED
    BY <2>1 DEF old
<1>7. IsCurve(curve)
  BY DEF FamilyInv
<1> QED
  BY <1>1, <1>6, <1>7 DEF collapse_child, q, d

\* A collapse, done or refused, keeps the maps.
LEMMA CollapseFamily ==
    ASSUME FamilyInv, NEW t \in Tuples(mesh), NEW accepted \in BOOLEAN,
           multi_mesh_edge_collapse(t, accepted)
    PROVE  FamilyInv'
<1> DEFINE r == collapse_edge(mesh, t)
           k == collapse_child(t)
           M == update_ear_replacement(r, k, t)
<1>1. /\ link_condition(mesh, t) /\ map_valid(t) /\ collapse(t, accepted)
      /\ curve' = IF accepted THEN k ELSE curve
      /\ maps' = IF accepted THEN of_active(r, k, M) ELSE maps
      /\ capacity' = capacity
  BY DEF multi_mesh_edge_collapse, multi_mesh_link_condition, collapse_child
<1>2. mesh' = IF accepted THEN r ELSE mesh
  BY <1>1 DEF collapse
<1>3. Manifold(mesh) /\ ~mesh.free /\ Agree(mesh, curve.e, maps) /\ capacity.e \in Nat
      /\ curve.e \subseteq 0 .. capacity.e - 1 /\ IsCurve(curve)
  BY DEF FamilyInv, Inv
<1>4. Inv'
  BY <1>1, CollapseInv DEF FamilyInv
<1>5. Manifold(r) /\ ~r.free
  BY <1>1, <1>3, CollapseKeepsManifold
<1>6. CollapseTables(r, mesh, t) /\ LinkHolds(mesh, t)
  BY <1>1, <1>3, CollapseEdgeIs, LinkFacts
<1>7. IsCollapse(r, mesh, t, Fan(mesh, t))
  BY <1>3, <1>6, CollapseFacts
<1> HIDE DEF r
<1>8. CollapseOf(r, t)
  BY <1>3, <1>5, <1>6, <1>7 DEF CollapseOf
<1>9. /\ k.e = IF is_mapped(t) THEN curve.e \ {maps.p2c[id_edge(mesh, t)].c} ELSE curve.e
      /\ IsCurve(k)
  BY CollapseChild
<1> HIDE DEF k
<1>10. Agree(r, k.e, of_active(r, k, M))
  BY <1>1, <1>8, <1>9, AllJoined, CollapseMapsAgree
<1>11. ~mesh'.free /\ capacity'.e \in Nat /\ curve'.e \subseteq 0 .. capacity'.e - 1 /\ IsCurve(curve')
  <2>1. k.e \subseteq curve.e
    BY <1>9
  <2> QED
    BY <1>1, <1>2, <1>3, <1>5, <1>9, <2>1
<1> HIDE DEF M
<1>12. Agree(mesh', curve'.e, maps')
  <2>1. CASE accepted
    BY <1>1, <1>2, <1>10, <2>1
  <2>2. CASE ~accepted
    BY <1>1, <1>2, <1>3, <2>2
  <2> QED
    BY <2>1, <2>2
<1> QED
  BY <1>4, <1>11, <1>12 DEF FamilyInv, Agree, IsCurve

\* The child's module counts as this one does.
LEMMA CurveCardinality == \A S : Curve!Cardinality(S) = Cardinality(S)
BY DEF Curve!Cardinality, Cardinality

\* A consolidation renames both ends of each pair.
LEMMA ConsolidatedMapsAgree ==
    ASSUME Manifold(mesh), NEW K, K = curve.e, Numbers(K), Agree(mesh, K, maps),
           NEW r, IsPacked(r, mesh)
    PROVE  Agree(r, upto(K), consolidated_maps)
<1> DEFINE E == edges(mesh)
           F == faces(mesh)
           N == consolidated_maps
           x(c) == maps.c2p[packed(K, c)]
           d(c) == id_edge(mesh, x(c))
<1>1. Numbers(E) /\ Numbers(F) /\ faces(r) = upto(F) /\ PackedRows(r, mesh)
  BY PackedRowsAre DEF IsPacked
<1>2. /\ \A c \in K : /\ maps.c2p[c] \in Tuples(mesh) /\ id_edge(mesh, maps.c2p[c]) \in DOMAIN maps.p2c
                      /\ maps.p2c[id_edge(mesh, maps.c2p[c])]
                            = [c |-> c, v |-> maps.c2p[c].v, e |-> maps.c2p[c].e]
      /\ \A e \in DOMAIN maps.p2c : maps.p2c[e].c \in K /\ id_edge(mesh, maps.c2p[maps.p2c[e].c]) = e
  BY DEF Agree
<1>3. \A e \in DOMAIN maps.p2c : e \in E
  <2>1. ASSUME NEW y \in Tuples(mesh)
        PROVE  id_edge(mesh, y) \in E
    BY Rows DEF Manifold, Tuples, id_edge
  <2> QED
    BY <1>2, <2>1
<1>4. /\ N.p2c = [e \in {old2new(E, y) : y \in DOMAIN maps.p2c} |->
                     [maps.p2c[packed(E, e)] EXCEPT !.c = old2new(K, @)]]
      /\ N.c2p = [c \in upto(K) |-> [maps.c2p[packed(K, c)] EXCEPT !.f = old2new(F, @)]]
  BY DEF consolidated_maps, upto
<1> HIDE DEF N
<1>5. ASSUME NEW c \in upto(K)
      PROVE  /\ packed(K, c) \in K /\ old2new(K, packed(K, c)) = c
             /\ d(c) \in DOMAIN maps.p2c /\ d(c) \in E
             /\ N.c2p[c] = [v |-> x(c).v, e |-> x(c).e, f |-> old2new(F, x(c).f)]
             /\ N.c2p[c] \in Tuples(r) /\ id_edge(r, N.c2p[c]) = old2new(E, d(c))
             /\ maps.p2c[d(c)] = [c |-> packed(K, c), v |-> x(c).v, e |-> x(c).e]
  <2>1. packed(K, c) \in K /\ old2new(K, packed(K, c)) = c
    BY DEF Numbers
  <2> DEFINE y == x(c)
             g == old2new(F, y.f)
             z == N.c2p[c]
  <2>2. /\ y \in Tuples(mesh) /\ d(c) \in DOMAIN maps.p2c /\ d(c) \in E
        /\ maps.p2c[d(c)] = [c |-> packed(K, c), v |-> y.v, e |-> y.e]
    BY <1>2, <1>3, <2>1
  <2>3. y = [v |-> y.v, e |-> y.e, f |-> y.f] /\ y.f \in F /\ y.v \in Locals /\ y.e \in Locals
        /\ y.v # y.e
    BY <2>2 DEF Tuples
  <2>4. z = [y EXCEPT !.f = g]
    BY <1>4
  <2>5. d(c) = mesh.fe[y.f][y.e]
    BY DEF id_edge
  <2> HIDE DEF y, z, d
  <2>6. z = [v |-> y.v, e |-> y.e, f |-> g]
    BY <2>3, <2>4
  <2>7. g \in faces(r) /\ packed(F, g) = y.f
    BY <1>1, <2>3 DEF Numbers
  <2> HIDE DEF g
  <2>8. r.fe[g][y.e] = old2new(E, mesh.fe[y.f][y.e])
    BY <1>1, <2>3, <2>7 DEF PackedRows
  <2>9. z \in Tuples(r) /\ id_edge(r, z) = old2new(E, d(c))
    BY <2>3, <2>5, <2>6, <2>7, <2>8 DEF Tuples, id_edge
  <2> QED
    BY <2>1, <2>2, <2>6, <2>9 DEF y, g, z
<1>6. ASSUME NEW c \in upto(K)
      PROVE  LET a == N.c2p[c]
             IN  /\ id_edge(r, a) \in DOMAIN N.p2c
                 /\ N.p2c[id_edge(r, a)] = [c |-> c, v |-> a.v, e |-> a.e]
  <2> DEFINE a == N.c2p[c]
             e == old2new(E, d(c))
  <2>1. /\ packed(K, c) \in K /\ old2new(K, packed(K, c)) = c
        /\ d(c) \in DOMAIN maps.p2c /\ d(c) \in E
        /\ a = [v |-> x(c).v, e |-> x(c).e, f |-> old2new(F, x(c).f)]
        /\ id_edge(r, a) = e
        /\ maps.p2c[d(c)] = [c |-> packed(K, c), v |-> x(c).v, e |-> x(c).e]
    BY <1>5
  <2>2. packed(E, e) = d(c)
    BY <1>1, <2>1 DEF Numbers
  <2>3. e \in DOMAIN N.p2c /\ N.p2c[e] = [maps.p2c[packed(E, e)] EXCEPT !.c = old2new(K, @)]
    <3>1. e \in {old2new(E, y) : y \in DOMAIN maps.p2c}
      BY <2>1
    <3> HIDE DEF e
    <3> QED
      BY ONLY <1>4, <3>1
  <2> HIDE DEF e, a, x, d
  <2>4. N.p2c[e] = [c |-> c, v |-> x(c).v, e |-> x(c).e]
    BY <2>1, <2>2, <2>3
  <2>5. a.v = x(c).v /\ a.e = x(c).e
    BY <2>1
  <2> QED
    BY <2>1, <2>3, <2>4, <2>5 DEF a
<1>7. ASSUME NEW e \in DOMAIN N.p2c
      PROVE  N.p2c[e].c \in upto(K) /\ id_edge(r, N.c2p[N.p2c[e].c]) = e
  <2>1. PICK y \in DOMAIN maps.p2c : e = old2new(E, y)
    BY <1>4
  <2> DEFINE b == maps.p2c[y].c
             c == old2new(K, b)
  <2>2. b \in K /\ id_edge(mesh, maps.c2p[b]) = y /\ y \in E
        /\ maps.p2c[y] = [c |-> b, v |-> maps.c2p[b].v, e |-> maps.c2p[b].e]
    BY <1>2, <1>3
  <2>3. packed(E, e) = y /\ c \in upto(K) /\ packed(K, c) = b
    BY <1>1, <2>1, <2>2 DEF Numbers
  <2>4. N.p2c[e] = [maps.p2c[y] EXCEPT !.c = c]
    BY <1>4, <2>3
  <2>5. d(c) = y
    BY <2>2, <2>3
  <2> HIDE DEF b, c, d
  <2>6. N.p2c[e].c = c
    BY <2>2, <2>4
  <2>7. id_edge(r, N.c2p[c]) = old2new(E, d(c))
    BY <1>5, <2>3
  <2> QED
    BY <2>1, <2>3, <2>5, <2>6, <2>7
<1>8. DOMAIN N.c2p = upto(K)
  BY <1>4
<1> QED
  BY <1>5, <1>6, <1>7, <1>8 DEF Agree, N

\* Numbers of a set below a bound.
LEMMA BelowNumbers ==
    ASSUME NEW n \in Nat, NEW S, S \subseteq 0 .. n - 1
    PROVE  Numbers(S) /\ IsFiniteSet(S) /\ Cardinality(S) \in Nat
<1>1. IsFiniteSet(0 .. n - 1)
  BY FS_Interval
<1>2. IsFiniteSet(S)
  BY <1>1, FS_Subset
<1>3. S \in SUBSET Nat
  OBVIOUS
<1> QED
  BY <1>2, <1>3, Packed, FS_CardinalityType

\* A consolidation keeps the maps.
LEMMA ConsolidateFamily == FamilyInv /\ multimesh_consolidate => FamilyInv'
<1> SUFFICES ASSUME FamilyInv, multimesh_consolidate
             PROVE  FamilyInv'
  OBVIOUS
<1> DEFINE r == consolidated(mesh)
           K == curve.e
<1>1. /\ consolidate /\ mesh' = r /\ curve' = Curve!consolidated
      /\ capacity' = [v |-> Cardinality(curve.v), e |-> Cardinality(curve.e)]
      /\ maps' = consolidated_maps
  BY DEF multimesh_consolidate, consolidate
<1>2. Manifold(mesh) /\ ~mesh.free /\ Agree(mesh, K, maps) /\ capacity.e \in Nat
      /\ K \subseteq 0 .. capacity.e - 1
  BY DEF FamilyInv, Inv
<1>3. Inv'
  BY <1>1, ConsolidateInv DEF FamilyInv
<1>4. ~r.free
  BY <1>2, ConsolidatedKeepsManifold
<1>5. IsPacked(r, mesh)
  BY <1>2, ConsolidatedIs DEF Manifold
<1>6. Numbers(K) /\ Cardinality(K) \in Nat
  BY <1>2, BelowNumbers
<1>7. Agree(r, upto(K), consolidated_maps)
  BY <1>2, <1>5, <1>6, ConsolidatedMapsAgree
<1>8. Curve!consolidated.e = upto(K) /\ IsCurve(Curve!consolidated)
  <2>1. Curve!Cardinality(K) = Cardinality(K)
    BY CurveCardinality
  <2> DEFINE q == Curve!consolidated
  <2>2. \E a, b, c, y : q = [v |-> a, e |-> 0 .. Curve!Cardinality(curve.e) - 1, ev |-> b, ee |-> c, ve |-> y]
    BY DEF Curve!consolidated
  <2> HIDE DEF q
  <2>3. PICK a, b, c, y : q = [v |-> a, e |-> 0 .. Curve!Cardinality(K) - 1, ev |-> b, ee |-> c, ve |-> y]
    BY <2>2
  <2>4. q.e = upto(K) /\ IsCurve(q)
    BY <2>1, <2>3 DEF IsCurve, upto
  <2> QED
    BY <2>4 DEF q
<1>9. capacity'.e = Cardinality(K) /\ curve'.e = upto(K)
  BY <1>1, <1>8
<1>10. capacity'.e \in Nat /\ curve'.e \subseteq 0 .. capacity'.e - 1 /\ IsCurve(curve')
  BY <1>1, <1>6, <1>8, <1>9 DEF upto
<1> QED
  BY <1>1, <1>3, <1>4, <1>7, <1>9, <1>10 DEF FamilyInv, Agree, IsCurve

\* The tuple that get_all gives for an edge is one of the edge's.
LEMMA EdgeTuple ==
    ASSUME NEW m, Manifold(m), NEW e \in edges(m)
    PROVE  edge_tuple_from_id(m, e) \in Tuples(m) /\ id_edge(m, edge_tuple_from_id(m, e)) = e
<1> DEFINE f == m.ef[e]
           S == {k \in Locals : m.fe[f][k] = e}
           i == Min(S)
           y == edge_tuple_from_id(m, e)
<1>1. f \in faces(m) /\ S # {}
  <2>1. f \in faces(m) /\ \E k \in Locals : m.fe[f][k] = e
    BY Rows DEF Manifold, Named
  <2> QED
    BY <2>1
<1>2. i \in S
  <2>1. \E x \in S : \A z \in S : x <= z
    BY <1>1 DEF Locals
  <2> HIDE DEF S
  <2> QED
    BY <2>1 DEF Min
<1>3. i \in Locals /\ m.fe[f][i] = e
  BY <1>2
<1>4. y = [v |-> (i + 1) % 3, e |-> i, f |-> f]
  BY DEF edge_tuple_from_id
<1>5. (i + 1) % 3 \in Locals /\ (i + 1) % 3 # i
  <2> HIDE DEF i
  <2> QED
    BY <1>3 DEF Locals
<1> HIDE DEF y, i, f
<1> QED
  BY <1>1, <1>3, <1>4, <1>5 DEF Tuples, id_edge, y

\* The maps that the registration writes.
RegisteredMaps(m, T) ==
    [p2c |-> [e \in T |-> [c |-> old2new(T, e), v |-> edge_tuple_from_id(m, e).v,
                           e |-> edge_tuple_from_id(m, e).e]],
     c2p |-> [c \in 0 .. Cardinality(T) - 1 |-> edge_tuple_from_id(m, packed(T, c))]]
\* The maps that the registration writes agree, for any set of tagged edges.
LEMMA RegisteredMapsAgree ==
    ASSUME NEW m, Manifold(m), NEW T, T \subseteq edges(m)
    PROVE  Agree(m, upto(T), RegisteredMaps(m, T)) /\ Cardinality(T) \in Nat
<1> DEFINE M == RegisteredMaps(m, T)
           y(e) == edge_tuple_from_id(m, e)
<1>1. Numbers(T) /\ Cardinality(T) \in Nat
  <2>1. IsFiniteSet(edges(m))
    BY FacesFinite DEF Manifold
  <2>2. IsFiniteSet(T)
    BY <2>1, FS_Subset
  <2>3. edges(m) \subseteq Nat
    BY Rows DEF Manifold
  <2>4. T \in SUBSET Nat
    BY <2>3
  <2> QED
    BY <2>2, <2>4, Packed, FS_CardinalityType
<1>2. \A e \in T : y(e) \in Tuples(m) /\ id_edge(m, y(e)) = e
  BY EdgeTuple
<1>3. /\ M.p2c = [e \in T |-> [c |-> old2new(T, e), v |-> y(e).v, e |-> y(e).e]]
      /\ M.c2p = [c \in upto(T) |-> y(packed(T, c))]
  BY DEF RegisteredMaps, upto
<1> HIDE DEF M, y
<1>4. \A c \in upto(T) : packed(T, c) \in T /\ old2new(T, packed(T, c)) = c
  BY <1>1 DEF Numbers
<1>5. \A e \in T : old2new(T, e) \in upto(T) /\ packed(T, old2new(T, e)) = e
  BY <1>1 DEF Numbers
<1>6. ASSUME NEW c \in upto(T)
      PROVE  LET a == M.c2p[c]
             IN  /\ a \in Tuples(m) /\ id_edge(m, a) \in DOMAIN M.p2c
                 /\ M.p2c[id_edge(m, a)] = [c |-> c, v |-> a.v, e |-> a.e]
  <2> DEFINE p == packed(T, c)
  <2>1. p \in T /\ old2new(T, p) = c /\ M.c2p[c] = y(p)
    BY <1>3, <1>4
  <2> HIDE DEF p
  <2>2. id_edge(m, y(p)) = p /\ y(p) \in Tuples(m)
    BY <1>2, <2>1
  <2>3. p \in DOMAIN M.p2c /\ M.p2c[p] = [c |-> c, v |-> y(p).v, e |-> y(p).e]
    BY <1>3, <2>1
  <2> QED
    BY <2>1, <2>2, <2>3
<1>7. ASSUME NEW e \in DOMAIN M.p2c
      PROVE  M.p2c[e].c \in upto(T) /\ id_edge(m, M.c2p[M.p2c[e].c]) = e
  <2>1. e \in T
    BY <1>3
  <2> DEFINE c == old2new(T, e)
  <2>2. M.p2c[e].c = c /\ c \in upto(T) /\ packed(T, c) = e
    BY <1>3, <1>5, <2>1
  <2> HIDE DEF c
  <2>3. M.c2p[c] = y(e)
    BY <1>3, <2>2
  <2> QED
    BY <1>2, <2>1, <2>2, <2>3
<1>8. DOMAIN M.c2p = upto(T)
  BY <1>3
<1> QED
  BY <1>1, <1>6, <1>7, <1>8 DEF Agree, M

\* What the registration of a tagged input leaves.
LEMMA Registered ==
    ASSUME MultimeshInit
    PROVE  \E in \in TaggedInputs : \E T :
              /\ in.parent \in Inputs /\ ~in.parent.free
              /\ mesh = initialize(in.parent.F, FALSE) /\ splits = in.parent.splits
              /\ T \subseteq edges(mesh)
              /\ curve.e = 0 .. Cardinality(T) - 1 /\ IsCurve(curve)
              /\ capacity.e = Cardinality(T)
              /\ maps = RegisteredMaps(mesh, T)
<1>1. PICK in \in TaggedInputs :
        LET m == initialize(in.parent.F, FALSE)
            tuple(e) == edge_tuple_from_id(m, e)
            pair(e) == {id_vertex(m, at_side(tuple(e), s)) : s \in Sides}
            T == {e \in edges(m) : pair(e) \in in.tagged}
            compactified(v) == Cardinality({u \in UNION in.tagged : u < v})
            E == [c \in 0 .. Cardinality(T) - 1 |-> [s \in Sides |->
                     compactified(id_vertex(m, at_side(tuple(packed(T, c)), s)))]]
        IN  /\ mesh = m
            /\ curve = Curve!initialize(E, Cardinality(UNION in.tagged), FALSE)
            /\ capacity = [v |-> Cardinality(UNION in.tagged), e |-> Cardinality(T)]
            /\ maps = [p2c |-> [e \in T |-> [c |-> old2new(T, e), v |-> tuple(e).v, e |-> tuple(e).e]],
                       c2p |-> [c \in DOMAIN E |-> tuple(packed(T, c))]]
            /\ splits = in.parent.splits
  BY DEF MultimeshInit
<1> DEFINE m == initialize(in.parent.F, FALSE)
           tuple(e) == edge_tuple_from_id(m, e)
           T == {e \in edges(m) : {id_vertex(m, at_side(tuple(e), s)) : s \in Sides} \in in.tagged}
           E == [c \in 0 .. Cardinality(T) - 1 |-> [s \in Sides |->
                    Cardinality({u \in UNION in.tagged : u < id_vertex(m, at_side(tuple(packed(T, c)), s))})]]
           n == Cardinality(UNION in.tagged)
<1>2. /\ mesh = m /\ splits = in.parent.splits
      /\ curve = Curve!initialize(E, n, FALSE)
      /\ capacity = [v |-> n, e |-> Cardinality(T)]
      /\ maps = [p2c |-> [e \in T |-> [c |-> old2new(T, e), v |-> tuple(e).v, e |-> tuple(e).e]],
                 c2p |-> [c \in DOMAIN E |-> tuple(packed(T, c))]]
  BY <1>1
<1>3. in.parent \in Inputs /\ ~in.parent.free
  BY TagsAssumption
<1>4. T \subseteq edges(m) /\ DOMAIN E = 0 .. Cardinality(T) - 1
  OBVIOUS
<1> HIDE DEF T, E, n, m
<1>5. capacity.e = Cardinality(T)
  BY <1>2
<1>6. maps = RegisteredMaps(mesh, T)
  BY <1>2, <1>4 DEF RegisteredMaps
<1>7. curve.e = DOMAIN E /\ IsCurve(curve)
  <2>1. \E a, b, c : curve = [v |-> a, e |-> DOMAIN E, ev |-> E, ee |-> b, ve |-> c]
    BY <1>2 DEF Curve!initialize
  <2> QED
    BY <2>1 DEF IsCurve
<1> QED
  BY <1>2, <1>3, <1>4, <1>5, <1>6, <1>7 DEF m

\* The maps agree at first.
LEMMA FamilyInit == MultimeshInit => FamilyInv
<1> SUFFICES ASSUME MultimeshInit
             PROVE  FamilyInv
  OBVIOUS
<1>0. PICK in \in TaggedInputs : \E T :
        /\ in.parent \in Inputs /\ ~in.parent.free
        /\ mesh = initialize(in.parent.F, FALSE) /\ splits = in.parent.splits
        /\ T \subseteq edges(mesh)
        /\ curve.e = 0 .. Cardinality(T) - 1 /\ IsCurve(curve)
        /\ capacity.e = Cardinality(T)
        /\ maps = RegisteredMaps(mesh, T)
  BY Registered
<1>1. PICK T :
        /\ in.parent \in Inputs /\ ~in.parent.free
        /\ mesh = initialize(in.parent.F, FALSE) /\ splits = in.parent.splits
        /\ T \subseteq edges(mesh)
        /\ curve.e = 0 .. Cardinality(T) - 1 /\ IsCurve(curve)
        /\ capacity.e = Cardinality(T)
        /\ maps = RegisteredMaps(mesh, T)
  BY <1>0
<1>2. Init
  <2>1. in.parent.free = FALSE
    <3>1. in.parent.free \in BOOLEAN
      BY <1>1, InputsAssumption
    <3> QED
      BY <1>1, <3>1
  <2> QED
    BY <1>1, <2>1 DEF Init
<1>3. Inv /\ ~mesh.free /\ Manifold(mesh)
  <2>1. Inv
    BY <1>2, InvInit
  <2>2. mesh.free = in.parent.free
    <3>1. in.parent.free = FALSE
      BY <1>1, InputsAssumption
    <3> QED
      BY <1>1, <3>1, InitialKeepsManifold
  <2> QED
    BY <1>1, <2>1, <2>2 DEF Inv
<1>4. Agree(mesh, upto(T), maps) /\ Cardinality(T) \in Nat
  BY <1>1, <1>3, RegisteredMapsAgree
<1>5. curve.e = upto(T)
  BY <1>1 DEF upto
<1>6. curve.e \subseteq 0 .. capacity.e - 1
  BY <1>1
<1> QED
  BY <1>1, <1>3, <1>4, <1>5, <1>6 DEF FamilyInv

\* Whatever the operations, the parent stays a surface and the maps agree.
THEOREM AlwaysFamily == MultimeshSpec => []FamilyInv
<1>1. MultimeshInit => FamilyInv
  BY FamilyInit
<1>2. FamilyInv /\ [MultimeshNext]_multimesh_vars => FamilyInv'
  <2> SUFFICES ASSUME FamilyInv, [MultimeshNext]_multimesh_vars
               PROVE  FamilyInv'
    OBVIOUS
  <2>1. CASE multimesh_consolidate
    BY <2>1, ConsolidateFamily
  <2>2. ASSUME NEW t \in Tuples(mesh), NEW accepted \in BOOLEAN,
               multi_mesh_edge_split(t, accepted) \/ multi_mesh_edge_collapse(t, accepted)
        PROVE  FamilyInv'
    BY <2>2, SplitFamily, CollapseFamily
  <2>3. CASE UNCHANGED multimesh_vars
    <3>1. /\ mesh' = mesh /\ splits' = splits /\ curve' = curve /\ capacity' = capacity
          /\ maps' = maps
      BY <2>3 DEF multimesh_vars, vars
    <3> QED
      BY <3>1 DEF FamilyInv, Inv, Agree, IsCurve
  <2> QED
    BY <2>1, <2>2, <2>3 DEF MultimeshNext
<1> QED
  BY <1>1, <1>2, PTL DEF MultimeshSpec

\* MapsAgree for every tagged input: MapValidator's checks pass after every
\* split, collapse and consolidate.
THEOREM MapsCorrect == MultimeshSpec => []MapsAgree
<1>1. FamilyInv => MapsAgree
  BY DEF FamilyInv, Agree, MapsAgree, is_mapped
<1> QED
  BY <1>1, AlwaysFamily, PTL
=============================================================================

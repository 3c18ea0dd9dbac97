-------------------------- MODULE TriangleComplex --------------------------
(***************************************************************************)
(* What the operations on a mesh of triangles (src/src/wmtk/TriMesh.cpp)   *)
(* mean for the surface it represents, whatever the ids and the tables of  *)
(* TriMesh.tla.  The surface is a set of darts: <<a, b, c>> for each       *)
(* triangle abc, once from each of its vertices, in the triangle's own     *)
(* orientation.  A split puts a vertex on an edge, a collapse moves a      *)
(* vertex onto a neighbour, under the link condition in its textbook form. *)
(***************************************************************************)
EXTENDS Integers, FiniteSets

CONSTANTS Vertex        \* the vertices there can be, none of them -1

VARIABLES darts, free

vars == <<darts, free>>

Apex == -1              \* the vertex of the cone over the boundary
corners(d) == {d[1], d[2], d[3]}
rotated(d) == <<d[2], d[3], d[1]>>
moved(d, a, b) == [i \in 1 .. 3 |-> IF d[i] = a THEN b ELSE d[i]]
around(d) == {d, rotated(d), rotated(rotated(d))}

Used(D)      == UNION {corners(d) : d \in D}
Triangles(D) == {corners(d) : d \in D}
Edges(D)     == {{d[1], d[2]} : d \in D}
Boundary(D)  == {e \in Edges(D) : Cardinality({t \in Triangles(D) : e \subseteq t}) = 1}
On(D, a, b)  == {d \in D : {a, b} \subseteq corners(d)}

\* The link condition of an edge ab, where the boundary is coned to a vertex.
LinkCondition(D, a, b) ==
    LET closed == Triangles(D) \cup {e \cup {Apex} : e \in Boundary(D)}
        Link(s) == {r \in UNION {SUBSET (t \ s) : t \in {u \in closed : s \subseteq u}} : r # {}}
    IN  Link({a}) \cap Link({b}) = Link({a, b})

TypeOK ==
    /\ free \in BOOLEAN
    /\ darts \subseteq Vertex \X Vertex \X Vertex
    /\ \A d \in darts : Cardinality(corners(d)) = 3 /\ around(d) \subseteq darts
    /\ \A e \in Edges(darts) : Cardinality({t \in Triangles(darts) : e \subseteq t}) <= 2
    /\ free => \A d, f \in darts : f \in around(d) \/ corners(d) \cap corners(f) = {}

Init == TypeOK

Split(a, b) ==
    /\ ~free
    /\ LET on == On(darts, a, b)
       IN  \E w \in Vertex \ Used(darts) :
              darts' = (darts \ on) \cup {moved(d, a, w) : d \in on}
                                    \cup {moved(d, b, w) : d \in on}
    /\ UNCHANGED free

Collapse(a, b) ==
    /\ ~free
    /\ darts' = {moved(d, a, b) : d \in darts \ On(darts, a, b)}
    /\ LinkCondition(darts, a, b)
    /\ UNCHANGED free

\* In a free mesh each half gets what it needs of its own.
SplitFree(d) ==
    /\ free
    /\ \E w, x, y \in Vertex \ Used(darts) :
          /\ Cardinality({w, x, y}) = 3
          /\ darts' = (darts \ around(d)) \cup around(moved(d, d[2], w))
                          \cup around(moved(moved(d, d[1], x), d[3], y))
    /\ UNCHANGED free

CollapseFree(d) ==
    /\ free /\ darts' = darts \ around(d) /\ UNCHANGED free

\* The vertices are numbered anew, in their order.
Renumber ==
    LET number(v) == Cardinality({u \in Used(darts) : u < v})
    IN  /\ darts' = {<<number(d[1]), number(d[2]), number(d[3])>> : d \in darts}
        /\ UNCHANGED free

Next ==
    \/ \E d \in darts : \/ SplitFree(d) \/ CollapseFree(d)
                        \/ Split(d[1], d[2])
                        \/ Collapse(d[1], d[2]) \/ Collapse(d[2], d[1])
    \/ Renumber

Spec == Init /\ [][Next]_vars

-----------------------------------------------------------------------------
\* The pieces a set of edges or triangles falls into.
Pieces(S) ==
    LET piece(x) ==
            LET near[n \in 0 .. Cardinality(S)] ==
                    IF n = 0 THEN x ELSE LET met == near[n - 1]
                                         IN  UNION {y \in S : y \cap met # {}}
            IN  near[Cardinality(S)]
    IN  {piece(x) : x \in S}

\* The Euler characteristic, the pieces and the boundary curves.
Topology(D) ==
    <<Cardinality(Used(D)) - Cardinality(Edges(D)) + Cardinality(Triangles(D)),
      Cardinality(Pieces(Triangles(D))), Cardinality(Pieces(Boundary(D)))>>
=============================================================================

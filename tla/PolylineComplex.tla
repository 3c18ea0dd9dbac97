-------------------------- MODULE PolylineComplex --------------------------
(***************************************************************************)
(* What the operations on a mesh of edges (src/src/wmtk/EdgeMesh.cpp) mean *)
(* for the curves it represents, whatever the ids and tables that          *)
(* EdgeMesh.tla keeps.  The mesh is a collection of polylines, open or     *)
(* closed, and only their numbers of edges matter here.  A split makes one *)
(* of them an edge longer, a collapse an edge shorter: no polyline appears *)
(* or disappears, opens or closes.  In a free mesh the edges share         *)
(* nothing: a split makes two polylines of one, a collapse removes one.    *)
(***************************************************************************)
EXTENDS Integers, FiniteSets

CONSTANTS MaxEdges      \* bound: edges of the mesh

\* The census of the polylines: <<k, n, i>> stands for the i-th one of kind k
\* and n edges.
VARIABLES curves, free

vars == <<curves, free>>

Kinds     == {"open", "closed"}
Polyline  == Kinds \X (1 .. MaxEdges) \X (1 .. MaxEdges)
count(c, k, n) == Cardinality({p \in c : p[1] = k /\ p[2] = n})

TypeOK ==
    /\ curves \subseteq Polyline
    /\ \A p \in curves : p[3] <= count(curves, p[1], p[2])
    /\ free \in BOOLEAN
    /\ free => \A p \in curves : p[1] = "open" /\ p[2] = 1

Init == TypeOK

Added(c, k, n)   == c \cup {<<k, n, count(c, k, n) + 1>>}
Removed(c, k, n) == c \ {<<k, n, count(c, k, n)>>}

\* The steps from a census c to a census d: one polyline p changes its length,
\* or in a free mesh an edge comes or goes.
Split(c, d, p)    == d = Added(Removed(c, p[1], p[2]), p[1], p[2] + 1)
Collapse(c, d, p) == p[2] > 1 /\ d = Added(Removed(c, p[1], p[2]), p[1], p[2] - 1)
SplitFree(c, d)    == c # {} /\ d = Added(c, "open", 1)
CollapseFree(c, d) == c # {} /\ d = Removed(c, "open", 1)

Next ==
    /\ UNCHANGED free
    /\ LET before == curves
           after  == curves'
       IN  \/ ~free /\ \E p \in {q \in before : q[3] = 1} :
                 Split(before, after, p) \/ Collapse(before, after, p)
           \/ free /\ (SplitFree(before, after) \/ CollapseFree(before, after))

Spec == Init /\ [][Next]_vars
=============================================================================

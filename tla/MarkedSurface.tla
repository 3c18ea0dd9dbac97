--------------------------- MODULE MarkedSurface ---------------------------
(***************************************************************************)
(* What a surface with a registered child curve promises                   *)
(* (Multimesh.tla): the triangles of TriangleComplex.tla, some of whose    *)
(* edges are marked, being the edges the curve runs along.  The operations *)
(* carry the marks with the edges.                                         *)
(***************************************************************************)
EXTENDS TriangleComplex

VARIABLES marked

marked_vars == <<darts, free, marked>>

MarkedInit == Init /\ ~free /\ marked \subseteq Edges(darts)

renamed(e, a, b) == {IF v = a THEN b ELSE v : v \in e}

\* Both halves of a marked edge are marked; the new edges inside the
\* triangles never are.
SplitMarked(a, b) ==
    /\ Split(a, b)
    /\ LET w == CHOOSE v \in Used(darts') : v \notin Used(darts)
       IN  marked' = IF {a, b} \in marked THEN (marked \ {{a, b}}) \cup {{a, w}, {b, w}}
                     ELSE marked

\* The two other edges of a triangle on ab become one edge, which is marked
\* if one of them was: not both were.  A curve of one edge is not collapsed.
CollapseMarked(a, b) ==
    /\ Collapse(a, b)
    /\ {a, b} \in marked => \E e \in marked \ {{a, b}} : e \cap {a, b} # {}
    /\ marked' = {renamed(e, a, b) : e \in marked \ {{a, b}}}
    /\ Cardinality(marked') = Cardinality(marked \ {{a, b}})

RenumberMarked ==
    /\ Renumber
    /\ marked' = {{Cardinality({u \in Used(darts) : u < v}) : v \in e} : e \in marked}

MarkedNext ==
    \/ \E d \in darts : \/ SplitMarked(d[1], d[2])
                        \/ CollapseMarked(d[1], d[2]) \/ CollapseMarked(d[2], d[1])
    \/ RenumberMarked

MarkedSpec == MarkedInit /\ [][MarkedNext]_marked_vars
=============================================================================

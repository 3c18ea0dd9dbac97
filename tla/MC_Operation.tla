---------------------------- MODULE MC_Operation ----------------------------
(* Model checking of Operation.tla on the operations the components build: *)
(* an edge swap is a split and a collapse, collapse_then_round an And, the *)
(* swaps of a tetrahedron an Or, and a Min with a composite inside.        *)
EXTENDS Operation

MC_Op == {"split", "collapse", "round", "swap", "swap_or_round",
          "collapse_then_round", "best"}
MC_Root == {"swap", "swap_or_round", "collapse_then_round", "best"}

MC_kind == [o \in MC_Op |->
    CASE o = "swap"                -> "composite"
      [] o = "swap_or_round"       -> "or"
      [] o = "collapse_then_round" -> "and"
      [] o = "best"                -> "min"
      [] OTHER                     -> "edit"]

MC_parts == [o \in MC_Op |->
    CASE o = "swap"                -> <<"split", "collapse">>
      [] o = "swap_or_round"       -> <<"swap", "round">>
      [] o = "collapse_then_round" -> <<"collapse", "round", "swap">>
      [] o = "best"                -> <<"swap_or_round", "collapse">>
      [] OTHER                     -> << >>]
=============================================================================

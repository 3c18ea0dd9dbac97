------------------------ MODULE MC_CachingAttribute ------------------------
(* Two values are enough: a value is only ever copied and compared.         *)
EXTENDS CachingAttribute
=============================================================================

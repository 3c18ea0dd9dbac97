--------------------------- MODULE MC_UndoBuffer ---------------------------
(* Vectors that start at 3 slots and 5 cells grow at the third record of a  *)
(* scope, as those of 32 and 64 do at the 32nd; two cells per record.       *)
EXTENDS UndoBuffer
=============================================================================

------------------------- MODULE MC_SimplexStorage -------------------------
(* Model checking of SimplexStorage.tla: the bounds are in the             *)
(* configuration.                                                          *)
EXTENDS SimplexStorage
=============================================================================
